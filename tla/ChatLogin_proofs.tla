--------------------------- MODULE ChatLogin_proofs ----------------------------
(***************************************************************************)
(* Proofs about the modules of the application, ChatLogin and IdMgr.       *)
(*                                                                         *)
(* The login, for any number of gates, clients, tickets and tokens, and    *)
(* however often gates and the auth server die: the types, that an answer  *)
(* finds the agent that asked, and that nobody stays with a token that was *)
(* replaced.                                                               *)
(*                                                                         *)
(* The identifiers, for any number of nodes and any course of the clock    *)
(* that does not go back: none has two owners, and no two objects whose    *)
(* identifiers were generated within a TimeSpan have the same one.         *)
(***************************************************************************)
EXTENDS ChatLogin, IdMgr, TLAPS

Player == [state : {"CLOSED", "DISABLE", "VERIFYING", "VERIFED"},
           ticket : Ticket \union {None}, token : Token \union {None}]

Answer == [id : {"SYNC_TOKEN", "VERIFY_TOKEN_RES"}, ticket : Ticket, ok : BOOLEAN]

\* The messages about a ticket.
RequestsFor(t) == {m \in Message : m.ticket = t}
AnswersFor(t)  == {m \in Answer : m.id = "VERIFY_TOKEN_RES" /\ m.ticket = t}
RefusalsFor(t) == {m \in AnswersFor(t) : ~m.ok}
SyncsFor(t)    == {m \in Answer : m.id = "SYNC_TOKEN" /\ m.ticket = t}

\* Where such a message is in a queue; there is at most one.
At(q, S) == {i \in DOMAIN q : q[i] \in S}
Lone(S)  == \A x, y \in S : x = y

\* What a gate has asked and what it is answered, about a ticket.  What comes from a gate
\* that is not connected is nobody's any more.
Requested(g, t) == IF g \in linked THEN At(toAuth[g], RequestsFor(t)) ELSE {}
Answered(g, t)  == At(fromAuth[g], AnswersFor(t))

\* A token is the one of the auth server, as far as the gate can know, or its request or
\* its refusal is on its way.
JudgedFor(g, t, k) ==
  \/ tokenMap[t] \in {k, None}
  \/ At(fromAuth[g], SyncsFor(t)) # {}
  \/ At(fromAuth[g], RefusalsFor(t)) # {}
  \/ g \in linked /\ At(toAuth[g], {[ticket |-> t, token |-> k]}) # {}

\* A gate that does not run has no clients and no messages.
DownIsEmpty(g) == g \notin up => /\ fromAuth[g] = <<>>
                                 /\ \A a \in Agent : player[g][a].state = "CLOSED"

\* OneAgentPerTicket at gate g, and every client that asked has a record.
OneAgent(g) ==
  \A a \in Agent :
    /\ Asking(g, a) => /\ player[g][a].ticket \in Ticket /\ player[g][a].token \in Token
                       /\ ticketIDMap[g][player[g][a].ticket] = a
    /\ \A t \in Ticket : ticketIDMap[g][t] = a => Asking(g, a)

\* A gate asks at most once about a ticket, and only about one that an agent has.
AsksOnce(g) ==
  \A t \in Ticket :
    /\ Lone(Requested(g, t)) /\ Lone(Answered(g, t))
    /\ Requested(g, t) = {} \/ Answered(g, t) = {}
    /\ ticketIDMap[g][t] = None => Requested(g, t) = {} /\ Answered(g, t) = {}

\* Every client that asked holds a token that is judged or will be.
Judged(g) ==
  g \notin cut => \A a \in Agent :
     Asking(g, a) => JudgedFor(g, player[g][a].ticket, player[g][a].token)

\* Who was let in has his answer, or he has another ticket.
LetInByAnswer(g) ==
  \A a \in Agent, t \in Ticket :
    player[g][a].state = "VERIFED" /\ player[g][a].ticket = t =>
       \/ Requested(g, t) = {} /\ Answered(g, t) = {}
       \/ \E u \in Ticket \ {t} : ticketIDMap[g][u] = a

GateInv(g) == /\ DownIsEmpty(g) /\ OneAgent(g) /\ AsksOnce(g) /\ Judged(g)
              /\ LetInByAnswer(g)

\* The inductive invariant.
IInv == TypeOK /\ \A g \in Gate : GateInv(g)

-----------------------------------------------------------------------------
\* What an assignment to one entry of a two-dimensional function changes.
LEMMA SetEntry ==
  ASSUME NEW A, NEW B, NEW V, NEW f \in [A -> [B -> V]], NEW a \in A, NEW b \in B,
         NEW v \in V, NEW g, g = [f EXCEPT ![a][b] = v]
  PROVE  /\ g \in [A -> [B -> V]]
         /\ \A x \in A, y \in B : g[x][y] = IF x = a /\ y = b THEN v ELSE f[x][y]
         /\ \A x \in A : x # a => g[x] = f[x]
<1>1. g = [f EXCEPT ![a] = [f[a] EXCEPT ![b] = v]]
  OBVIOUS
<1>2. [f[a] EXCEPT ![b] = v] \in [B -> V]
  OBVIOUS
<1> QED
  BY <1>1, <1>2

\* ... and one to the state of a client.
LEMMA SetState ==
  ASSUME NEW g \in Gate, NEW a \in Agent, NEW s \in {"DISABLE", "VERIFED"},
         player \in [Gate -> [Agent -> Player]],
         player' = [player EXCEPT ![g][a].state = s]
  PROVE  /\ player' \in [Gate -> [Agent -> Player]]
         /\ \A x \in Gate : x # g => player'[x] = player[x]
         /\ \A b \in Agent : b # a => player'[g][b] = player[g][b]
         /\ player'[g][a].state = s /\ player'[g][a].ticket = player[g][a].ticket
         /\ player'[g][a].token = player[g][a].token
<1> DEFINE v == [player[g][a] EXCEPT !.state = s]
<1>1. player' = [player EXCEPT ![g] = [player[g] EXCEPT ![a] = v]]
  OBVIOUS
<1>2. player[g][a] \in Player
  OBVIOUS
<1>3. /\ v \in Player /\ v.state = s /\ v.ticket = player[g][a].ticket
      /\ v.token = player[g][a].token
  BY <1>2 DEF Player
<1> HIDE DEF v
<1>4. [player[g] EXCEPT ![a] = v] \in [Agent -> Player]
  BY <1>3
<1>5. player' \in [Gate -> [Agent -> Player]] /\ player'[g] = [player[g] EXCEPT ![a] = v]
  BY <1>1, <1>4
<1> QED
  BY <1>1, <1>3, <1>5

\* The messages of a queue that has lost its head, and of one that has got another.
LEMMA TailItems ==
  ASSUME NEW M, NEW q \in Seq(M), q # <<>>
  PROVE  /\ Head(q) = q[1] /\ 1 \in DOMAIN q /\ Head(q) \in M /\ Tail(q) \in Seq(M)
         /\ \A i \in DOMAIN Tail(q) : i + 1 \in DOMAIN q /\ Tail(q)[i] = q[i + 1]
         /\ \A i \in DOMAIN q : i # 1 => i - 1 \in DOMAIN Tail(q) /\ Tail(q)[i - 1] = q[i]
OBVIOUS

LEMMA AppendItems ==
  ASSUME NEW M, NEW q \in Seq(M), NEW m \in M
  PROVE  /\ Append(q, m) \in Seq(M)
         /\ \A i \in DOMAIN q : i \in DOMAIN Append(q, m) /\ Append(q, m)[i] = q[i]
         /\ Len(q) + 1 \in DOMAIN Append(q, m) /\ Append(q, m)[Len(q) + 1] = m
         /\ \A i \in DOMAIN Append(q, m) : i \in DOMAIN q \/ Append(q, m)[i] = m
OBVIOUS

\* Those of some kind.
LEMMA TailAt ==
  ASSUME NEW M, NEW q \in Seq(M), q # <<>>, NEW S
  PROVE  /\ At(q, S) = {} => At(Tail(q), S) = {}
         /\ Lone(At(q, S)) => Lone(At(Tail(q), S))
         /\ Head(q) \in S => At(q, S) # {} /\ (Lone(At(q, S)) => At(Tail(q), S) = {})
         /\ Head(q) \notin S /\ At(q, S) # {} => At(Tail(q), S) # {}
<1>1. /\ Head(q) = q[1] /\ 1 \in DOMAIN q
      /\ \A i \in DOMAIN Tail(q) : i + 1 \in DOMAIN q /\ Tail(q)[i] = q[i + 1]
      /\ \A i \in DOMAIN q : i # 1 => i - 1 \in DOMAIN Tail(q) /\ Tail(q)[i - 1] = q[i]
  BY TailItems
<1>2. \A i \in DOMAIN Tail(q) : i \in Int /\ i + 1 # 1
  OBVIOUS
<1>3. \A i \in At(Tail(q), S) : i + 1 \in At(q, S) /\ i \in Int /\ i + 1 # 1
  BY <1>1, <1>2 DEF At
<1>4. At(q, S) = {} => At(Tail(q), S) = {}
  BY <1>3
<1>5. ASSUME Lone(At(q, S)), NEW x \in At(Tail(q), S), NEW y \in At(Tail(q), S) PROVE x = y
  <2>1. x + 1 = y + 1 /\ x \in Int /\ y \in Int
    BY <1>3, <1>5 DEF Lone
  <2> QED
    BY <2>1
<1>6. Head(q) \in S => 1 \in At(q, S)
  BY <1>1 DEF At
<1>7. Head(q) \in S /\ Lone(At(q, S)) => At(Tail(q), S) = {}
  BY <1>3, <1>6 DEF Lone
<1>8. Head(q) \notin S /\ At(q, S) # {} => At(Tail(q), S) # {}
  BY <1>1 DEF At
<1>9. Lone(At(q, S)) => Lone(At(Tail(q), S))
  BY <1>5 DEF Lone
<1> QED
  BY <1>4, <1>6, <1>7, <1>8, <1>9

LEMMA AppendAt ==
  ASSUME NEW M, NEW q \in Seq(M), NEW m \in M, NEW S
  PROVE  /\ m \notin S => At(Append(q, m), S) = At(q, S)
         /\ m \in S => At(Append(q, m), S) # {}
         /\ At(q, S) # {} => At(Append(q, m), S) # {}
         /\ At(q, S) = {} => Lone(At(Append(q, m), S))
<1>1. /\ DOMAIN Append(q, m) = DOMAIN q \union {Len(q) + 1}
      /\ \A i \in DOMAIN q : Append(q, m)[i] = q[i]
      /\ Append(q, m)[Len(q) + 1] = m /\ Len(q) + 1 \notin DOMAIN q
  OBVIOUS
<1>2. m \notin S => At(Append(q, m), S) = At(q, S)
  BY <1>1 DEF At
<1>3. m \in S => At(Append(q, m), S) # {}
  BY <1>1 DEF At
<1>4. At(q, S) # {} => At(Append(q, m), S) # {}
  BY <1>1 DEF At
<1>5. At(q, S) = {} => Lone(At(Append(q, m), S))
  BY <1>1 DEF At, Lone
<1> QED
  BY <1>2, <1>3, <1>4, <1>5

-----------------------------------------------------------------------------
\* Steps that leave the tickets of a gate alone: the clients that ask keep their records ...
SameRecords(g) ==
  \A a \in Agent : /\ Asking(g, a)' <=> Asking(g, a)
                   /\ Asking(g, a) => /\ player'[g][a].ticket = player[g][a].ticket
                                      /\ player'[g][a].token = player[g][a].token

\* ... there are fewer messages, if any ...
Fewer(S, T) == (S = {} => T = {}) /\ (Lone(S) => Lone(T))

FewerMessages(g) == \A t \in Ticket : /\ Fewer(Requested(g, t), Requested(g, t)')
                                      /\ Fewer(Answered(g, t), Answered(g, t)')

\* ... and what is judged stays so.
JudgedStay(g) ==
  g \notin cut' =>
    /\ g \notin cut
    /\ \A t \in Ticket, k \in Token :
          ticketIDMap[g][t] # None /\ JudgedFor(g, t, k) => JudgedFor(g, t, k)'

LEMMA RecordsKeep ==
  ASSUME NEW g \in Gate, OneAgent(g), SameRecords(g), ticketIDMap'[g] = ticketIDMap[g]
  PROVE  OneAgent(g)'
<1> SUFFICES ASSUME NEW a \in Agent
             PROVE  /\ Asking(g, a)' => /\ player'[g][a].ticket \in Ticket
                                        /\ player'[g][a].token \in Token
                                        /\ ticketIDMap'[g][player'[g][a].ticket] = a
                    /\ \A t \in Ticket : ticketIDMap'[g][t] = a => Asking(g, a)'
  BY DEF OneAgent
<1>1. /\ Asking(g, a)' <=> Asking(g, a)
      /\ Asking(g, a) => /\ player'[g][a].ticket = player[g][a].ticket
                         /\ player'[g][a].token = player[g][a].token
  BY DEF SameRecords
<1> QED
  BY <1>1 DEF OneAgent

LEMMA AsksKeep ==
  ASSUME NEW g \in Gate, AsksOnce(g), FewerMessages(g), ticketIDMap'[g] = ticketIDMap[g]
  PROVE  AsksOnce(g)'
BY DEF AsksOnce, FewerMessages, Fewer

LEMMA JudgedKeep ==
  ASSUME NEW g \in Gate, OneAgent(g), Judged(g), SameRecords(g), JudgedStay(g)
  PROVE  Judged(g)'
<1> SUFFICES ASSUME g \notin cut', NEW a \in Agent, Asking(g, a)',
                    NEW t, t = player'[g][a].ticket, NEW k, k = player'[g][a].token
             PROVE  JudgedFor(g, t, k)'
  BY DEF Judged, JudgedFor
<1>1. Asking(g, a) /\ t = player[g][a].ticket /\ k = player[g][a].token
  BY DEF SameRecords
<1>2. t \in Ticket /\ k \in Token /\ ticketIDMap[g][t] # None
  BY <1>1, LoginAssumption DEF OneAgent
<1>3. g \notin cut /\ JudgedFor(g, t, k)
  BY <1>1 DEF JudgedStay, Judged
<1> QED
  BY <1>2, <1>3 DEF JudgedStay

LEMMA GateKeeps ==
  ASSUME NEW g \in Gate, GateInv(g), DownIsEmpty(g)', ticketIDMap'[g] = ticketIDMap[g],
         SameRecords(g), \A a \in Agent : player'[g][a].state = "VERIFED" =>
                                             player[g][a].state = "VERIFED",
         FewerMessages(g), JudgedStay(g)
  PROVE  GateInv(g)'
<1>1. OneAgent(g)' /\ AsksOnce(g)' /\ Judged(g)'
  BY RecordsKeep, AsksKeep, JudgedKeep DEF GateInv
<1>2. LetInByAnswer(g)'
  <2> SUFFICES ASSUME NEW a \in Agent, NEW t \in Ticket,
                      player'[g][a].state = "VERIFED", player'[g][a].ticket = t
               PROVE  \/ Requested(g, t)' = {} /\ Answered(g, t)' = {}
                      \/ \E u \in Ticket \ {t} : ticketIDMap'[g][u] = a
    BY DEF LetInByAnswer
  <2>1. player[g][a].state = "VERIFED" /\ player[g][a].ticket = t
    BY DEF SameRecords, Asking
  <2>2. \/ Requested(g, t) = {} /\ Answered(g, t) = {}
        \/ \E u \in Ticket \ {t} : ticketIDMap[g][u] = a
    BY <2>1 DEF GateInv, LetInByAnswer
  <2> QED
    BY <2>2 DEF FewerMessages, Fewer
<1> QED
  BY <1>1, <1>2 DEF GateInv

\* A gate none of whose parts a step changes.
LEMMA Untouched ==
  ASSUME NEW g \in Gate, GateInv(g), tokenMap' = tokenMap,
         player'[g] = player[g], ticketIDMap'[g] = ticketIDMap[g],
         fromAuth'[g] = fromAuth[g], toAuth'[g] = toAuth[g],
         g \in up' <=> g \in up, g \in linked' <=> g \in linked, g \in cut' <=> g \in cut
  PROVE  GateInv(g)'
<1>1. DownIsEmpty(g)' /\ SameRecords(g)
  BY DEF GateInv, DownIsEmpty, SameRecords, Asking
<1>2. FewerMessages(g)
  BY DEF FewerMessages, Fewer, Requested, Answered
<1>3. JudgedStay(g)
  BY DEF JudgedStay, JudgedFor
<1> QED
  BY <1>1, <1>2, <1>3, GateKeeps

LEMMA InvInit == Init => IInv
<1> SUFFICES ASSUME Init PROVE IInv
  OBVIOUS
<1> USE LoginAssumption DEF Init
<1>1. /\ player \in [Gate -> [Agent -> Player]]
      /\ \A g \in Gate, a \in Agent : player[g][a].state = "CLOSED"
  BY DEF Closed, Player
<1>2. ticketIDMap \in [Gate -> [Ticket -> Agent \union {None}]]
  BY DEF NoTickets
<1>3. tokenMap \in [Ticket -> Token \union {None}]
  BY DEF NoTickets
<1>4. /\ toAuth \in [Gate -> Seq(Message)] /\ fromAuth \in [Gate -> Seq(Answer)]
      /\ syncing \in Seq(Message)
  OBVIOUS
<1>5. tokens \in 0..MaxTokens /\ deaths \in 0..MaxDeaths
  OBVIOUS
<1>6. TypeOK
  BY <1>1, <1>2, <1>3, <1>4, <1>5 DEF TypeOK, Player, Answer
<1>7. ASSUME NEW g \in Gate PROVE GateInv(g)
  <2>1. /\ \A t \in Ticket : ticketIDMap[g][t] = None
        /\ \A a \in Agent : ~Asking(g, a) /\ player[g][a].state # "VERIFED"
        /\ toAuth[g] = <<>> /\ fromAuth[g] = <<>> /\ g \in up
    BY <1>1 DEF NoTickets, Asking
  <2> QED
    BY <2>1 DEF GateInv, DownIsEmpty, OneAgent, AsksOnce, Judged, LetInByAnswer, Requested,
                Answered, At, Lone
<1> QED
  BY <1>6, <1>7 DEF IInv

-----------------------------------------------------------------------------
LEMMA Types ==
  TypeOK <=> /\ told \in BOOLEAN /\ up \subseteq Gate /\ linked \subseteq up /\ cut \subseteq up
             /\ player \in [Gate -> [Agent -> Player]]
             /\ ticketIDMap \in [Gate -> [Ticket -> Agent \union {None}]]
             /\ tokenMap \in [Ticket -> Token \union {None}]
             /\ toAuth \in [Gate -> Seq(Message)] /\ syncing \in Seq(Message)
             /\ fromAuth \in [Gate -> Seq(Answer)]
             /\ tokens \in 0..MaxTokens /\ deaths \in 0..MaxDeaths
BY DEF TypeOK, Player, Answer

LEMMA TypesNext ==
  ASSUME /\ told' \in BOOLEAN /\ up' \subseteq Gate /\ linked' \subseteq up' /\ cut' \subseteq up'
         /\ player' \in [Gate -> [Agent -> Player]]
         /\ ticketIDMap' \in [Gate -> [Ticket -> Agent \union {None}]]
         /\ tokenMap' \in [Ticket -> Token \union {None}]
         /\ toAuth' \in [Gate -> Seq(Message)] /\ syncing' \in Seq(Message)
         /\ fromAuth' \in [Gate -> Seq(Answer)]
         /\ tokens' \in 0..MaxTokens /\ deaths' \in 0..MaxDeaths
  PROVE  TypeOK'
BY DEF TypeOK, Player, Answer

\* The death of a gate takes its clients and its connection with it.
LEMMA DieKeeps ==
  ASSUME IInv, NEW g \in Gate, Die(g), UNCHANGED <<tokenMap, syncing, bounds>>
  PROVE  IInv'
<1> USE Types DEF IInv
<1>1. /\ player' = [player EXCEPT ![g] = [a \in Agent |-> Closed]]
      /\ ticketIDMap' = [ticketIDMap EXCEPT ![g] = NoTickets]
      /\ fromAuth' = [fromAuth EXCEPT ![g] = <<>>]
      /\ up' = up \ {g} /\ linked' = linked \ {g} /\ cut' = cut \ {g} /\ told' = told
  BY DEF Die
<1>2. PICK n \in 0..Len(toAuth[g]) : toAuth' = [toAuth EXCEPT ![g] = SubSeq(@, 1, n)]
  BY DEF Die
<1>3. [a \in Agent |-> Closed] \in [Agent -> Player]
  BY DEF Closed, Player
<1>4. NoTickets \in [Ticket -> Agent \union {None}]
  BY DEF NoTickets
<1>5. toAuth' \in [Gate -> Seq(Message)]
  <2>1. toAuth[g] \in Seq(Message)
    OBVIOUS
  <2>2. SubSeq(toAuth[g], 1, n) \in Seq(Message)
    BY <2>1
  <2> QED
    BY <1>2, <2>2
<1>6. TypeOK'
  <2>1. up' \subseteq Gate /\ linked' \subseteq up' /\ cut' \subseteq up'
    BY <1>1
  <2>2. /\ player' \in [Gate -> [Agent -> Player]]
        /\ ticketIDMap' \in [Gate -> [Ticket -> Agent \union {None}]]
        /\ fromAuth' \in [Gate -> Seq(Answer)]
    BY <1>1, <1>3, <1>4
  <2> QED
    BY <1>1, <1>5, <2>1, <2>2, TypesNext DEF bounds
<1>7. ASSUME NEW x \in Gate, x # g PROVE GateInv(x)'
  BY <1>1, <1>2, <1>7, Untouched
<1>8. GateInv(g)'
  <2>1. /\ \A a \in Agent : player'[g][a] = Closed
        /\ \A t \in Ticket : ticketIDMap'[g][t] = None
        /\ fromAuth'[g] = <<>> /\ g \notin linked'
    BY <1>1 DEF NoTickets
  <2>2. \A a \in Agent : ~Asking(g, a)' /\ player'[g][a].state # "VERIFED"
    BY <2>1 DEF Asking, Closed
  <2>3. OneAgent(g)' /\ Judged(g)' /\ LetInByAnswer(g)'
    BY <2>1, <2>2, LoginAssumption DEF OneAgent, Judged, LetInByAnswer
  <2>4. DownIsEmpty(g)'
    BY <2>1 DEF DownIsEmpty, Closed
  <2>5. AsksOnce(g)'
    BY <2>1 DEF AsksOnce, Requested, Answered, At, Lone
  <2> QED
    BY <2>3, <2>4, <2>5 DEF GateInv
<1> QED
  BY <1>6, <1>7, <1>8

LEMMA AgentOpenKeeps ==
  ASSUME IInv, NEW g \in Gate, NEW a \in Agent, AgentOpen(g, a)
  PROVE  IInv'
<1> USE Types DEF IInv
<1>1. /\ g \in up /\ player[g][a].state = "CLOSED"
      /\ player' = [player EXCEPT ![g][a].state = "DISABLE"]
      /\ UNCHANGED <<up, ticketIDMap, tokenMap, links, syncing, bounds>>
  BY DEF AgentOpen
<1>2. /\ player' \in [Gate -> [Agent -> Player]]
      /\ \A x \in Gate : x # g => player'[x] = player[x]
      /\ \A b \in Agent : b # a => player'[g][b] = player[g][b]
      /\ player'[g][a].state = "DISABLE" /\ player'[g][a].ticket = player[g][a].ticket
      /\ player'[g][a].token = player[g][a].token
  BY <1>1, SetState
<1>3. TypeOK'
  BY <1>1, <1>2, TypesNext DEF bounds, links
<1>4. ASSUME NEW x \in Gate, x # g PROVE GateInv(x)'
  BY <1>1, <1>2, <1>4, Untouched DEF links
<1>5. GateInv(g)'
  <2>1. SameRecords(g) /\ \A b \in Agent : player'[g][b].state = "VERIFED" =>
                                              player[g][b].state = "VERIFED"
    BY <1>1, <1>2 DEF SameRecords, Asking
  <2>2. FewerMessages(g)
    BY <1>1 DEF FewerMessages, Fewer, Requested, Answered, links
  <2>3. JudgedStay(g) /\ DownIsEmpty(g)'
    BY <1>1 DEF JudgedStay, JudgedFor, DownIsEmpty, links
  <2> QED
    BY <1>1, <2>1, <2>2, <2>3, GateKeeps
<1> QED
  BY <1>3, <1>4, <1>5

\* A ticket that no agent has: nothing was asked about it, and the gate asks or misses it.
LEMMA VerifyKeeps ==
  ASSUME IInv, NEW g \in Gate, NEW a \in Agent, NEW t \in Ticket, NEW k \in Token,
         player[g][a].state # "CLOSED", ticketIDMap[g][t] = None,
         Verify(g, a, t, k), UNCHANGED <<tokenMap, syncing, bounds>>
  PROVE  IInv'
<1> USE Types DEF IInv
<1> DEFINE p == [state |-> "VERIFYING", ticket |-> t, token |-> k]
           m == [ticket |-> t, token |-> k]
<1>1. /\ player' = [player EXCEPT ![g][a] = p]
      /\ ticketIDMap' = [ticketIDMap EXCEPT ![g][t] = a]
      /\ UNCHANGED <<up, told, linked, fromAuth>>
  BY DEF Verify
<1>2. /\ player' \in [Gate -> [Agent -> Player]]
      /\ \A x \in Gate, b \in Agent : player'[x][b] = IF x = g /\ b = a THEN p ELSE player[x][b]
      /\ \A x \in Gate : x # g => player'[x] = player[x]
  <2>1. p \in Player
    BY DEF Player
  <2>2. player \in [Gate -> [Agent -> Player]]
    OBVIOUS
  <2> HIDE DEF p
  <2> QED
    BY <1>1, <2>1, <2>2, SetEntry
<1>3. /\ ticketIDMap' \in [Gate -> [Ticket -> Agent \union {None}]]
      /\ \A x \in Gate, u \in Ticket :
            ticketIDMap'[x][u] = IF x = g /\ u = t THEN a ELSE ticketIDMap[x][u]
      /\ \A x \in Gate : x # g => ticketIDMap'[x] = ticketIDMap[x]
  <2>1. a \in Agent \union {None} /\ ticketIDMap \in [Gate -> [Ticket -> Agent \union {None}]]
    OBVIOUS
  <2> QED
    BY <1>1, <2>1, SetEntry
<1>4. g \in up
  BY DEF GateInv, DownIsEmpty
<1>5. m \in Message /\ m.ticket = t /\ toAuth[g] \in Seq(Message)
  BY DEF Message
<1>6. /\ toAuth' \in [Gate -> Seq(Message)] /\ cut' \subseteq up
      /\ \A x \in Gate : x # g => toAuth'[x] = toAuth[x] /\ (x \in cut' <=> x \in cut)
      /\ cut \subseteq cut'
      /\ g \in linked => toAuth'[g] = Append(toAuth[g], m)
      /\ g \notin linked => g \in cut'
  <2>1. CASE g \in linked
    <3>1. toAuth' = [toAuth EXCEPT ![g] = Append(toAuth[g], m)] /\ cut' = cut
      BY <2>1 DEF Verify, m
    <3> HIDE DEF m
    <3>2. Append(toAuth[g], m) \in Seq(Message)
      BY <1>5, AppendItems
    <3> QED
      BY <2>1, <3>1, <3>2
  <2>2. CASE g \notin linked
    BY <1>4, <2>2 DEF Verify
  <2> QED
    BY <2>1, <2>2
<1>7. TypeOK'
  BY <1>1, <1>2, <1>3, <1>6, TypesNext DEF bounds
<1>8. ASSUME NEW x \in Gate, x # g PROVE GateInv(x)'
  BY <1>1, <1>2, <1>3, <1>6, <1>8, Untouched
<1>9. GateInv(g)'
  <2>1. GateInv(g) /\ None \notin Agent
    BY LoginAssumption
  <2>2. /\ player'[g][a] = p /\ \A b \in Agent : b # a => player'[g][b] = player[g][b]
        /\ ticketIDMap'[g][t] = a
        /\ \A u \in Ticket : u # t => ticketIDMap'[g][u] = ticketIDMap[g][u]
    BY <1>2, <1>3
  <2>3. ASSUME NEW b \in Agent, Asking(g, b) PROVE player[g][b].ticket \in Ticket \ {t}
    BY <2>1, <2>3 DEF GateInv, OneAgent
  <2>4. DownIsEmpty(g)'
    BY <1>1, <1>4 DEF DownIsEmpty
  <2>5. OneAgent(g)'
    <3> SUFFICES ASSUME NEW b \in Agent
                 PROVE  /\ Asking(g, b)' => /\ player'[g][b].ticket \in Ticket
                                            /\ player'[g][b].token \in Token
                                            /\ ticketIDMap'[g][player'[g][b].ticket] = b
                        /\ \A u \in Ticket : ticketIDMap'[g][u] = b => Asking(g, b)'
      BY DEF OneAgent
    <3>1. CASE b = a
      BY <2>2, <3>1 DEF Asking
    <3>2. CASE b # a
      <4>1. Asking(g, b)' <=> Asking(g, b)
        BY <2>2, <3>2 DEF Asking
      <4>2. ASSUME Asking(g, b)
            PROVE  /\ player'[g][b].ticket \in Ticket /\ player'[g][b].token \in Token
                   /\ ticketIDMap'[g][player'[g][b].ticket] = b
        BY <2>1, <2>2, <2>3, <3>2, <4>2 DEF GateInv, OneAgent
      <4>3. ASSUME NEW u \in Ticket, ticketIDMap'[g][u] = b PROVE Asking(g, b)
        BY <2>1, <2>2, <3>2, <4>3 DEF GateInv, OneAgent
      <4> QED
        BY <4>1, <4>2, <4>3
    <3> QED
      BY <3>1, <3>2
  <2> HIDE DEF m
  <2>6. Requested(g, t) = {} /\ Answered(g, t) = {}
    BY <2>1 DEF GateInv, AsksOnce
  <2> DEFINE q == Append(toAuth[g], m)
  <2>7. ASSUME NEW S
         PROVE  /\ m \notin S => At(q, S) = At(toAuth[g], S)
                /\ m \in S => At(q, S) # {}
                /\ At(toAuth[g], S) # {} => At(q, S) # {}
                /\ At(toAuth[g], S) = {} => Lone(At(q, S))
    BY ONLY <1>5, AppendAt
  <2> HIDE DEF q
  <2>8. Lone(Requested(g, t)')
    <3>1. CASE g \in linked
      <4>1. toAuth'[g] = q /\ linked' = linked
        BY <1>1, <1>6, <3>1 DEF q
      <4>2. At(toAuth[g], RequestsFor(t)) = {}
        BY <2>6, <3>1 DEF Requested
      <4>3. Lone(At(q, RequestsFor(t)))
        BY <2>7, <4>2
      <4> QED
        BY <3>1, <4>1, <4>3 DEF Requested
    <3>2. CASE g \notin linked
      BY <1>1, <3>2 DEF Requested, Lone
    <3> QED
      BY <3>1, <3>2
  <2>9. ASSUME NEW u \in Ticket, u # t PROVE Requested(g, u)' = Requested(g, u)
    <3>1. CASE g \in linked
      <4>1. m \notin RequestsFor(u)
        BY <1>5, <2>9 DEF RequestsFor
      <4>2. At(q, RequestsFor(u)) = At(toAuth[g], RequestsFor(u))
        BY <2>7, <4>1
      <4> QED
        BY <1>1, <1>6, <3>1, <4>2 DEF Requested, q
    <3>2. CASE g \notin linked
      BY <1>1, <3>2 DEF Requested
    <3> QED
      BY <3>1, <3>2
  <2>10. \A u \in Ticket : Answered(g, u)' = Answered(g, u)
    BY <1>1 DEF Answered
  <2>11. AsksOnce(g)'
    <3> SUFFICES ASSUME NEW u \in Ticket
                 PROVE  /\ Lone(Requested(g, u)') /\ Lone(Answered(g, u)')
                        /\ Requested(g, u)' = {} \/ Answered(g, u)' = {}
                        /\ ticketIDMap'[g][u] = None =>
                              Requested(g, u)' = {} /\ Answered(g, u)' = {}
      BY DEF AsksOnce
    <3>1. CASE u = t
      BY <2>1, <2>2, <2>6, <2>8, <2>10, <3>1 DEF Lone
    <3>2. CASE u # t
      BY <2>1, <2>2, <2>9, <2>10, <3>2 DEF GateInv, AsksOnce
    <3> QED
      BY <3>1, <3>2
  <2>12. Judged(g)'
    <3> SUFFICES ASSUME g \notin cut', NEW b \in Agent, Asking(g, b)',
                        NEW u, u = player'[g][b].ticket, NEW c, c = player'[g][b].token
                 PROVE  JudgedFor(g, u, c)'
      BY DEF Judged, JudgedFor
    <3>1. /\ g \in linked /\ g \notin cut
          /\ toAuth'[g] = q /\ fromAuth'[g] = fromAuth[g]
      BY <1>1, <1>6 DEF q
    <3>2. CASE b = a
      <4>1. u = t /\ c = k
        BY <2>2, <3>2
      <4>2. At(q, {[ticket |-> t, token |-> k]}) # {}
        BY <2>7 DEF m
      <4> QED
        BY <1>1, <3>1, <4>1, <4>2 DEF JudgedFor
    <3>3. CASE b # a
      <4>1. Asking(g, b) /\ u = player[g][b].ticket /\ c = player[g][b].token
        BY <2>2, <3>3 DEF Asking
      <4>2. JudgedFor(g, u, c)
        BY <2>1, <3>1, <4>1 DEF GateInv, Judged
      <4>3. PICK S : S = {[ticket |-> u, token |-> c]}
        OBVIOUS
      <4>4. At(toAuth[g], S) # {} => At(q, S) # {}
        BY <2>7
      <4> QED
        BY <1>1, <3>1, <4>2, <4>3, <4>4 DEF JudgedFor
    <3> QED
      BY <3>2, <3>3
  <2>13. LetInByAnswer(g)'
    <3> SUFFICES ASSUME NEW b \in Agent, NEW u \in Ticket,
                        player'[g][b].state = "VERIFED", player'[g][b].ticket = u
                 PROVE  \/ Requested(g, u)' = {} /\ Answered(g, u)' = {}
                        \/ \E v \in Ticket \ {u} : ticketIDMap'[g][v] = b
      BY DEF LetInByAnswer
    <3>1. b # a /\ player[g][b].state = "VERIFED" /\ player[g][b].ticket = u
      BY <2>2
    <3>2. u # t
      BY <2>3, <3>1 DEF Asking
    <3>3. \/ Requested(g, u) = {} /\ Answered(g, u) = {}
          \/ \E v \in Ticket \ {u} : ticketIDMap[g][v] = b
      BY <2>1, <3>1 DEF GateInv, LetInByAnswer
    <3>4. ASSUME NEW v \in Ticket, ticketIDMap[g][v] = b PROVE ticketIDMap'[g][v] = b
      BY <2>1, <2>2, <3>4
    <3> QED
      BY <2>9, <2>10, <3>2, <3>3, <3>4
  <2> QED
    BY <2>4, <2>5, <2>11, <2>12, <2>13 DEF GateInv
<1> QED
  BY <1>7, <1>8, <1>9

-----------------------------------------------------------------------------
\* What a gate takes from its connection.
LEMMA ReceiveKeeps ==
  ASSUME IInv, NEW g \in Gate, fromAuth[g] # <<>>,
         Receive(g), UNCHANGED <<tokenMap, linked, toAuth, cut>>
  PROVE  /\ Head(fromAuth[g]) \in Answer /\ Head(fromAuth[g]).ticket \in Ticket
         /\ fromAuth' \in [Gate -> Seq(Answer)]
         /\ \A x \in Gate : x # g => fromAuth'[x] = fromAuth[x]
         /\ fromAuth[g] \in Seq(Answer) /\ fromAuth'[g] = Tail(fromAuth[g])
         /\ FewerMessages(g)
         /\ (\A t \in Ticket : ticketIDMap[g][t] # None =>
                Head(fromAuth[g]) \notin SyncsFor(t) /\ Head(fromAuth[g]) \notin RefusalsFor(t))
              => JudgedStay(g)
<1> USE Types DEF IInv
<1>1. fromAuth[g] \in Seq(Answer)
  OBVIOUS
<1>2. Head(fromAuth[g]) \in Answer /\ Tail(fromAuth[g]) \in Seq(Answer)
  BY <1>1, TailItems
<1>3. /\ fromAuth' \in [Gate -> Seq(Answer)] /\ fromAuth'[g] = Tail(fromAuth[g])
      /\ \A x \in Gate : x # g => fromAuth'[x] = fromAuth[x]
  BY <1>2 DEF Receive
<1>4. FewerMessages(g)
  <2> SUFFICES ASSUME NEW t \in Ticket
               PROVE  /\ Fewer(Requested(g, t), Requested(g, t)')
                      /\ Fewer(Answered(g, t), Answered(g, t)')
    BY DEF FewerMessages
  <2>1. Requested(g, t)' = Requested(g, t)
    BY DEF Requested
  <2>2. Fewer(At(fromAuth[g], AnswersFor(t)), At(Tail(fromAuth[g]), AnswersFor(t)))
    BY <1>1, TailAt DEF Fewer
  <2> QED
    BY <1>3, <2>1, <2>2 DEF Fewer, Answered
<1>5. ASSUME \A t \in Ticket : ticketIDMap[g][t] # None =>
                Head(fromAuth[g]) \notin SyncsFor(t) /\ Head(fromAuth[g]) \notin RefusalsFor(t)
      PROVE  JudgedStay(g)
  <2> SUFFICES ASSUME NEW t \in Ticket, NEW k \in Token, ticketIDMap[g][t] # None,
                      JudgedFor(g, t, k)
               PROVE  JudgedFor(g, t, k)'
    BY DEF JudgedStay
  <2>1. Head(fromAuth[g]) \notin SyncsFor(t) /\ Head(fromAuth[g]) \notin RefusalsFor(t)
    BY <1>5
  <2>2. At(fromAuth[g], SyncsFor(t)) # {} => At(Tail(fromAuth[g]), SyncsFor(t)) # {}
    BY <1>1, <2>1, TailAt
  <2>3. At(fromAuth[g], RefusalsFor(t)) # {} => At(Tail(fromAuth[g]), RefusalsFor(t)) # {}
    BY <1>1, <2>1, TailAt
  <2> QED
    BY <1>3, <2>2, <2>3 DEF JudgedFor
<1> QED
  BY <1>1, <1>2, <1>3, <1>4, <1>5 DEF Answer

\* Taking a message that is for nobody.
LEMMA DropKeeps ==
  ASSUME IInv, NEW g \in Gate, fromAuth[g] # <<>>,
         ticketIDMap[g][Head(fromAuth[g]).ticket] = None,
         Receive(g), UNCHANGED <<gateVars, told, linked, toAuth, cut, tokenMap, syncing, bounds>>
  PROVE  IInv'
<1> USE Types DEF IInv
<1>1. /\ fromAuth' \in [Gate -> Seq(Answer)] /\ fromAuth'[g] = Tail(fromAuth[g])
      /\ \A x \in Gate : x # g => fromAuth'[x] = fromAuth[x]
      /\ FewerMessages(g)
  BY ReceiveKeeps
<1>2. JudgedStay(g)
  <2>1. \A t \in Ticket : ticketIDMap[g][t] # None =>
           Head(fromAuth[g]) \notin SyncsFor(t) /\ Head(fromAuth[g]) \notin RefusalsFor(t)
    BY DEF SyncsFor, RefusalsFor, AnswersFor
  <2> QED
    BY <2>1, ReceiveKeeps
<1>3. TypeOK'
  BY <1>1, TypesNext DEF bounds, gateVars
<1>4. ASSUME NEW x \in Gate, x # g PROVE GateInv(x)'
  BY <1>1, <1>4, Untouched DEF gateVars
<1>5. GateInv(g)'
  <2>1. SameRecords(g)
    BY DEF SameRecords, Asking, gateVars
  <2>2. DownIsEmpty(g)'
    BY <1>1 DEF GateInv, DownIsEmpty, gateVars
  <2> QED
    BY <1>1, <1>2, <2>1, <2>2, GateKeeps DEF gateVars
<1> QED
  BY <1>3, <1>4, <1>5

\* Taking a good answer: the agent it is for is let in, and it was the only message about
\* the ticket.
LEMMA LetInKeeps ==
  ASSUME IInv, NEW g \in Gate, fromAuth[g] # <<>>, NEW a \in Agent,
         Head(fromAuth[g]).id = "VERIFY_TOKEN_RES", Head(fromAuth[g]).ok,
         ticketIDMap[g][Head(fromAuth[g]).ticket] = a,
         player' = [player EXCEPT ![g][a].state = "VERIFED"], Receive(g),
         UNCHANGED <<up, ticketIDMap, told, linked, toAuth, cut, tokenMap, syncing, bounds>>
  PROVE  IInv'
<1> USE Types DEF IInv
<1>1. PICK u \in Ticket : u = Head(fromAuth[g]).ticket
  BY ReceiveKeeps
<1>2. /\ Head(fromAuth[g]) \in AnswersFor(u)
      /\ \A t \in Ticket : Head(fromAuth[g]) \notin SyncsFor(t)
                           /\ Head(fromAuth[g]) \notin RefusalsFor(t)
  BY <1>1, ReceiveKeeps DEF AnswersFor, RefusalsFor, SyncsFor
<1>3. /\ fromAuth' \in [Gate -> Seq(Answer)] /\ fromAuth'[g] = Tail(fromAuth[g])
      /\ \A x \in Gate : x # g => fromAuth'[x] = fromAuth[x]
      /\ fromAuth[g] \in Seq(Answer) /\ FewerMessages(g)
  BY ReceiveKeeps
<1>4. JudgedStay(g)
  BY <1>2, ReceiveKeeps
<1>5. /\ player' \in [Gate -> [Agent -> Player]]
      /\ \A x \in Gate : x # g => player'[x] = player[x]
      /\ \A b \in Agent : b # a => player'[g][b] = player[g][b]
      /\ player'[g][a].state = "VERIFED" /\ player'[g][a].ticket = player[g][a].ticket
      /\ player'[g][a].token = player[g][a].token
  <2>1. player \in [Gate -> [Agent -> Player]] /\ "VERIFED" \in {"DISABLE", "VERIFED"}
    OBVIOUS
  <2>2. player' = [player EXCEPT ![g][a].state = "VERIFED"]
    OBVIOUS
  <2> QED
    BY ONLY <2>1, <2>2, SetState, g \in Gate, a \in Agent
<1>6. TypeOK'
  BY <1>3, <1>5, TypesNext DEF bounds
<1>7. ASSUME NEW x \in Gate, x # g PROVE GateInv(x)'
  BY <1>3, <1>5, <1>7, Untouched
<1>8. GateInv(g)'
  <2>1. GateInv(g)
    OBVIOUS
  <2>2. Asking(g, a) /\ ticketIDMap[g][u] = a
    BY <1>1, <2>1 DEF GateInv, OneAgent
  <2>3. SameRecords(g)
    BY <1>5, <2>2 DEF SameRecords, Asking
  <2>4. OneAgent(g)' /\ AsksOnce(g)' /\ Judged(g)'
    BY <1>3, <1>4, <2>1, <2>3, RecordsKeep, AsksKeep, JudgedKeep DEF GateInv
  <2>5. DownIsEmpty(g)'
    BY <2>1, <2>2 DEF GateInv, DownIsEmpty, Asking
  <2>6. LetInByAnswer(g)'
    <3> SUFFICES ASSUME NEW b \in Agent, NEW t \in Ticket,
                        player'[g][b].state = "VERIFED", player'[g][b].ticket = t
                 PROVE  \/ Requested(g, t)' = {} /\ Answered(g, t)' = {}
                        \/ \E v \in Ticket \ {t} : ticketIDMap'[g][v] = b
      BY DEF LetInByAnswer
    <3>1. CASE b = a /\ t = u
      <4>1. Lone(Answered(g, u)) /\ (Requested(g, u) = {} \/ Answered(g, u) = {})
        BY <2>1 DEF GateInv, AsksOnce
      <4>2. Answered(g, u) # {} /\ Answered(g, u)' = {}
        BY <1>2, <1>3, <4>1, TailAt DEF Answered
      <4> QED
        BY <1>3, <3>1, <4>1, <4>2 DEF FewerMessages, Fewer
    <3>2. CASE b = a /\ t # u
      BY <2>2, <3>2
    <3>3. CASE b # a
      <4>1. player[g][b].state = "VERIFED" /\ player[g][b].ticket = t
        BY <1>5, <3>3
      <4>2. \/ Requested(g, t) = {} /\ Answered(g, t) = {}
            \/ \E v \in Ticket \ {t} : ticketIDMap[g][v] = b
        BY ONLY <2>1, <4>1, b \in Agent, t \in Ticket DEF GateInv, LetInByAnswer
      <4> QED
        BY <1>3, <4>2 DEF FewerMessages, Fewer
    <3> QED
      BY <3>1, <3>2, <3>3
  <2> QED
    BY <2>4, <2>5, <2>6 DEF GateInv
<1> QED
  BY <1>6, <1>7, <1>8

LEMMA GateReceiveKeeps ==
  ASSUME IInv, NEW g \in Gate, GateReceive(g)
  PROVE  IInv'
<1>1. UNCHANGED <<tokenMap, syncing, bounds>> /\ fromAuth[g] # <<>>
  BY DEF GateReceive, OnAuthSyncToken, OnAuthVerifyToken
<1>2. CASE Die(g)
  BY <1>1, <1>2, DieKeeps
<1>3. CASE OnAuthSyncToken(g) /\ ~Die(g)
  BY <1>1, <1>3, DropKeeps DEF OnAuthSyncToken
<1>4. CASE OnAuthVerifyToken(g) /\ ~Die(g)
  <2>1. CASE ticketIDMap[g][Head(fromAuth[g]).ticket] = None
    BY <1>1, <1>4, <2>1, DropKeeps DEF OnAuthVerifyToken
  <2>2. CASE ticketIDMap[g][Head(fromAuth[g]).ticket] # None
    <3>1. PICK a : a = ticketIDMap[g][Head(fromAuth[g]).ticket]
      OBVIOUS
    <3>2. /\ Head(fromAuth[g]).id = "VERIFY_TOKEN_RES" /\ Head(fromAuth[g]).ok
          /\ Receive(g) /\ player' = [player EXCEPT ![g][a].state = "VERIFED"]
          /\ UNCHANGED <<up, ticketIDMap, told, linked, toAuth, cut>>
      BY <1>4, <2>2, <3>1 DEF OnAuthVerifyToken
    <3>3. a \in Agent
      BY <1>1, <2>2, <3>1, <3>2, ReceiveKeeps, Types DEF IInv
    <3> QED
      BY <1>1, <3>1, <3>2, <3>3, LetInKeeps
  <2> QED
    BY <2>1, <2>2
<1> QED
  BY <1>2, <1>3, <1>4 DEF GateReceive

LEMMA StartConnectKeep ==
  ASSUME IInv, NEW g \in Gate, GateStart(g) \/ Connect(g)
  PROVE  IInv'
<1> USE Types DEF IInv
<1>1. /\ UNCHANGED <<player, ticketIDMap, tokenMap, told, toAuth, fromAuth, cut, syncing, bounds>>
      /\ up' \subseteq Gate /\ linked' \subseteq up' /\ up \subseteq up'
      /\ \A x \in Gate : x # g => (x \in up' <=> x \in up) /\ (x \in linked' <=> x \in linked)
      /\ linked' # linked => g \in linked' /\ toAuth[g] = <<>>
      /\ linked \subseteq linked'
  BY DEF GateStart, Connect, links, gateVars
<1>2. TypeOK'
  BY <1>1, TypesNext DEF bounds
<1>3. ASSUME NEW x \in Gate, x # g PROVE GateInv(x)'
  BY <1>1, <1>3, Untouched
<1>4. GateInv(g)'
  <2>1. SameRecords(g)
    BY <1>1 DEF SameRecords, Asking
  <2>2. DownIsEmpty(g)'
    BY <1>1 DEF GateInv, DownIsEmpty
  <2>3. ASSUME NEW S
        PROVE  (IF g \in linked' THEN At(toAuth[g], S) ELSE {}) =
               (IF g \in linked THEN At(toAuth[g], S) ELSE {})
    <3>1. At(<<>>, S) = {}
      BY DEF At
    <3> QED
      BY <1>1, <3>1
  <2>4. FewerMessages(g)
    BY <1>1, <2>3 DEF FewerMessages, Fewer, Requested, Answered
  <2>5. JudgedStay(g)
    BY <1>1 DEF JudgedStay, JudgedFor
  <2> QED
    BY <1>1, <2>1, <2>2, <2>4, <2>5, GateKeeps
<1> QED
  BY <1>2, <1>3, <1>4


-----------------------------------------------------------------------------
\* The auth server answers a request: a good answer has its token, a bad one turns out.
LEMMA VerifyTokenKeeps ==
  ASSUME IInv, NEW g \in Gate, OnGateVerifyToken(g)
  PROVE  IInv'
<1> USE Types DEF IInv
<1> DEFINE h == Head(toAuth[g])
           m == [id |-> "VERIFY_TOKEN_RES", ticket |-> h.ticket,
                 ok |-> tokenMap[h.ticket] = h.token]
           q == Append(fromAuth[g], m)
<1>1. toAuth[g] \in Seq(Message) /\ fromAuth[g] \in Seq(Answer) /\ toAuth[g] # <<>>
  BY DEF OnGateVerifyToken
<1>2. h \in Message /\ Tail(toAuth[g]) \in Seq(Message)
  BY <1>1, TailItems
<1>3. h.ticket \in Ticket /\ m \in Answer
  BY <1>2 DEF Answer, Message
<1>4. /\ fromAuth' = [x \in Gate |-> IF x \in {g} \intersect linked THEN Append(fromAuth[x], m)
                                                              ELSE fromAuth[x]]
      /\ cut' = cut /\ toAuth' = [toAuth EXCEPT ![g] = Tail(toAuth[g])]
      /\ UNCHANGED <<gateVars, tokenMap, told, linked, syncing, bounds>>
  BY DEF OnGateVerifyToken, Send
<1>5. /\ \A x \in Gate : x # g => fromAuth'[x] = fromAuth[x] /\ toAuth'[x] = toAuth[x]
      /\ toAuth' \in [Gate -> Seq(Message)] /\ toAuth'[g] = Tail(toAuth[g])
      /\ fromAuth'[g] = IF g \in linked THEN q ELSE fromAuth[g]
  BY <1>2, <1>4
<1>6. fromAuth' \in [Gate -> Seq(Answer)]
  <2> HIDE DEF m
  <2>1. Append(fromAuth[g], m) \in Seq(Answer)
    BY <1>1, <1>3, AppendItems
  <2> QED
    BY <1>4, <2>1
<1>7. TypeOK'
  BY <1>4, <1>5, <1>6, TypesNext DEF bounds, gateVars
<1>8. ASSUME NEW x \in Gate, x # g PROVE GateInv(x)'
  BY <1>4, <1>5, <1>8, Untouched DEF gateVars
<1>9. ASSUME NEW S
      PROVE  /\ m \notin S => At(q, S) = At(fromAuth[g], S)
             /\ m \in S => At(q, S) # {}
             /\ At(fromAuth[g], S) # {} => At(q, S) # {}
             /\ At(fromAuth[g], S) = {} => Lone(At(q, S))
  <2> HIDE DEF m
  <2> QED
    BY ONLY <1>1, <1>3, AppendAt
<1>10. ASSUME NEW S
       PROVE  /\ At(toAuth[g], S) = {} => At(Tail(toAuth[g]), S) = {}
              /\ Lone(At(toAuth[g], S)) => Lone(At(Tail(toAuth[g]), S))
              /\ h \in S => /\ At(toAuth[g], S) # {}
                            /\ Lone(At(toAuth[g], S)) => At(Tail(toAuth[g]), S) = {}
              /\ h \notin S /\ At(toAuth[g], S) # {} => At(Tail(toAuth[g]), S) # {}
  BY ONLY <1>1, TailAt
<1>11. SameRecords(g) /\ DownIsEmpty(g)'
  <2>1. SameRecords(g)
    BY <1>4 DEF SameRecords, Asking, gateVars
  <2>2. DownIsEmpty(g)'
    BY <1>4, <1>5 DEF GateInv, DownIsEmpty, gateVars
  <2> QED
    BY <2>1, <2>2
<1>12. CASE g \notin linked
  <2>1. FewerMessages(g)
    BY <1>4, <1>5, <1>12 DEF FewerMessages, Fewer, Requested, Answered
  <2>2. JudgedStay(g)
    BY <1>4, <1>5, <1>12 DEF JudgedStay, JudgedFor
  <2>3. GateInv(g)'
    BY <1>4, <1>11, <2>1, <2>2, GateKeeps DEF gateVars
  <2> QED
    BY <1>7, <1>8, <2>3
<1>13. CASE g \in linked
  <2>1. GateInv(g) /\ toAuth'[g] = Tail(toAuth[g]) /\ fromAuth'[g] = q /\ linked' = linked
    BY <1>4, <1>5, <1>13
  <2>2. PICK u \in Ticket : u = h.ticket
    BY <1>3
  <2>3. /\ m \in AnswersFor(u) /\ \A t \in Ticket : t # u => m \notin AnswersFor(t)
        /\ h \in RequestsFor(u)
    BY <1>2, <1>3, <2>2 DEF AnswersFor, RequestsFor
  <2>4. ~m.ok => m \in RefusalsFor(u)
    BY <2>3 DEF RefusalsFor
  <2>5. m.ok => tokenMap[u] = h.token
    BY <2>2
  <2> HIDE DEF m, q, h
  <2>6. Requested(g, u) # {} /\ Requested(g, u)' = {} /\ Answered(g, u) = {}
    <3>1. Lone(Requested(g, u)) /\ (Requested(g, u) = {} \/ Answered(g, u) = {})
      BY <2>1 DEF GateInv, AsksOnce
    <3> QED
      BY <1>10, <1>13, <2>1, <2>3, <3>1 DEF Requested
  <2>7. Lone(Answered(g, u)')
    BY <1>9, <2>1, <2>6 DEF Answered
  <2>8. \A t \in Ticket : Fewer(Requested(g, t), Requested(g, t)')
    BY <1>10, <1>13, <2>1 DEF Requested, Fewer, Lone
  <2>9. \A t \in Ticket : t # u => Answered(g, t)' = Answered(g, t)
    BY <1>9, <2>1, <2>3 DEF Answered
  <2>10. AsksOnce(g)'
    <3> SUFFICES ASSUME NEW t \in Ticket
                 PROVE  /\ Lone(Requested(g, t)') /\ Lone(Answered(g, t)')
                        /\ Requested(g, t)' = {} \/ Answered(g, t)' = {}
                        /\ ticketIDMap'[g][t] = None =>
                              Requested(g, t)' = {} /\ Answered(g, t)' = {}
      BY DEF AsksOnce
    <3>1. /\ Lone(Requested(g, t)) /\ Lone(Answered(g, t))
          /\ Requested(g, t) = {} \/ Answered(g, t) = {}
          /\ ticketIDMap[g][t] = None => Requested(g, t) = {} /\ Answered(g, t) = {}
          /\ ticketIDMap'[g][t] = ticketIDMap[g][t]
      BY <1>4, <2>1 DEF GateInv, AsksOnce, gateVars
    <3>2. CASE t = u
      BY <2>6, <2>7, <3>1, <3>2 DEF Lone
    <3>3. CASE t # u
      BY <2>8, <2>9, <3>1, <3>3 DEF Fewer
    <3> QED
      BY <3>2, <3>3
  <2>11. JudgedStay(g)
    <3> SUFFICES ASSUME NEW t \in Ticket, NEW k \in Token, JudgedFor(g, t, k)
                 PROVE  JudgedFor(g, t, k)'
      BY <1>4 DEF JudgedStay
    <3>1. /\ tokenMap' = tokenMap
          /\ At(fromAuth[g], SyncsFor(t)) # {} => At(q, SyncsFor(t)) # {}
          /\ At(fromAuth[g], RefusalsFor(t)) # {} => At(q, RefusalsFor(t)) # {}
      BY <1>4, <1>9
    <3>2. PICK r : r = [ticket |-> t, token |-> k]
      OBVIOUS
    <3>3. CASE h # r
      <4>1. PICK S : S = {r}
        OBVIOUS
      <4>2. h \notin S
        BY <3>3, <4>1
      <4>3. At(toAuth[g], S) # {} => At(Tail(toAuth[g]), S) # {}
        BY <1>10, <4>2
      <4> QED
        BY <1>13, <2>1, <3>1, <3>2, <4>1, <4>3 DEF JudgedFor
    <3>4. CASE h = r
      <4>1. u = t /\ h.token = k
        BY <2>2, <3>2, <3>4
      <4>2. CASE m.ok
        BY <2>5, <3>1, <4>1, <4>2 DEF JudgedFor
      <4>3. CASE ~m.ok
        BY <1>9, <2>1, <2>4, <4>1, <4>3 DEF JudgedFor
      <4> QED
        BY <4>2, <4>3
    <3> QED
      BY <3>3, <3>4
  <2>12. OneAgent(g)' /\ Judged(g)'
    BY <1>4, <1>11, <2>1, <2>11, RecordsKeep, JudgedKeep DEF GateInv, gateVars
  <2>13. LetInByAnswer(g)'
    <3> SUFFICES ASSUME NEW a \in Agent, NEW t \in Ticket,
                        player'[g][a].state = "VERIFED", player'[g][a].ticket = t
                 PROVE  \/ Requested(g, t)' = {} /\ Answered(g, t)' = {}
                        \/ \E v \in Ticket \ {t} : ticketIDMap'[g][v] = a
      BY DEF LetInByAnswer
    <3>1. /\ player[g][a].state = "VERIFED" /\ player[g][a].ticket = t
          /\ ticketIDMap' = ticketIDMap
      BY <1>4 DEF gateVars
    <3>2. \/ Requested(g, t) = {} /\ Answered(g, t) = {}
          \/ \E v \in Ticket \ {t} : ticketIDMap[g][v] = a
      BY <2>1, <3>1 DEF GateInv, LetInByAnswer
    <3> QED
      BY <2>6, <2>8, <2>9, <3>1, <3>2 DEF Fewer
  <2>14. GateInv(g)'
    BY <1>11, <2>10, <2>12, <2>13 DEF GateInv
  <2> QED
    BY <1>7, <1>8, <2>14
<1> QED
  BY <1>12, <1>13

LEMMA ListenerKeeps ==
  ASSUME IInv, NEW t \in Ticket, NEW k \in Token, OnMsgRgsListener(t, k)
  PROVE  IInv'
<1> USE Types DEF IInv
<1>1. syncing' \in Seq(Message)
  <2>1. [ticket |-> t, token |-> k] \in Message
    BY DEF Message
  <2>2. \A s \in Seq(Message), x \in Message : Append(s, x) \in Seq(Message)
    OBVIOUS
  <2> QED
    BY <2>1, <2>2 DEF OnMsgRgsListener
<1>2. TypeOK'
  <2>1. tokens' \in 0..MaxTokens
    BY LoginAssumption DEF OnMsgRgsListener
  <2> QED
    BY <1>1, <2>1, TypesNext DEF OnMsgRgsListener, gateVars, links
<1>3. ASSUME NEW x \in Gate PROVE GateInv(x)'
  BY Untouched DEF OnMsgRgsListener, gateVars, links
<1> QED
  BY <1>2, <1>3

\* A new token: those who are in with the old one are told, or their gate is cut off.
LEMMA SyncTokenKeeps ==
  ASSUME IInv, OnChannelSyncToken
  PROVE  IInv'
<1> USE Types DEF IInv
<1> DEFINE h == Head(syncing)
           m == [id |-> "SYNC_TOKEN", ticket |-> h.ticket, ok |-> TRUE]
<1>1. h \in Message /\ Tail(syncing) \in Seq(Message)
  BY TailItems DEF OnChannelSyncToken
<1>2. h.ticket \in Ticket /\ h.token \in Token /\ m \in Answer
  BY <1>1 DEF Message, Answer
<1>3. /\ tokenMap' = [tokenMap EXCEPT ![h.ticket] = h.token]
      /\ fromAuth' = [x \in Gate |-> IF x \in Gate \intersect linked THEN Append(fromAuth[x], m)
                                                                 ELSE fromAuth[x]]
      /\ cut' = cut \union ({x \in up : ticketIDMap[x][h.ticket] # None} \ linked)
      /\ syncing' = Tail(syncing) /\ UNCHANGED <<gateVars, told, linked, toAuth, bounds>>
  BY DEF OnChannelSyncToken, Send
<1>4. m \in SyncsFor(h.ticket) /\ \A t \in Ticket : m \notin AnswersFor(t)
  BY <1>2 DEF SyncsFor, AnswersFor
<1> HIDE DEF m
<1>5. /\ \A x \in Gate : fromAuth'[x] = IF x \in linked THEN Append(fromAuth[x], m) ELSE fromAuth[x]
      /\ fromAuth' \in [Gate -> Seq(Answer)]
  <2>1. \A x \in Gate : Append(fromAuth[x], m) \in Seq(Answer)
    BY <1>2, AppendItems
  <2> QED
    BY <1>3, <2>1
<1>6. tokenMap' \in [Ticket -> Token \union {None}]
  BY <1>2, <1>3
<1>7. TypeOK'
  BY <1>1, <1>3, <1>5, <1>6, TypesNext DEF bounds, gateVars
<1>8. ASSUME NEW g \in Gate PROVE GateInv(g)'
  <2> DEFINE q == Append(fromAuth[g], m)
  <2>1. GateInv(g) /\ fromAuth[g] \in Seq(Answer) /\ None \notin Agent
    BY LoginAssumption
  <2>2. ASSUME NEW S
        PROVE  /\ m \notin S => At(q, S) = At(fromAuth[g], S)
               /\ m \in S => At(q, S) # {}
               /\ At(fromAuth[g], S) # {} => At(q, S) # {}
               /\ At(fromAuth[g], S) = {} => Lone(At(q, S))
    BY ONLY <1>2, <2>1, AppendAt
  <2> HIDE DEF q
  <2>3. fromAuth'[g] = IF g \in linked THEN q ELSE fromAuth[g]
    BY <1>5 DEF q
  <2>4. SameRecords(g)
    BY <1>3 DEF SameRecords, Asking, gateVars
  <2>5. DownIsEmpty(g)'
    BY <1>3, <2>1, <2>3 DEF GateInv, DownIsEmpty, gateVars
  <2>6. FewerMessages(g)
    BY <1>3, <1>4, <2>2, <2>3 DEF FewerMessages, Fewer, Requested, Answered
  <2>7. JudgedStay(g)
    <3> SUFFICES ASSUME g \notin cut', NEW t \in Ticket, NEW k \in Token,
                        ticketIDMap[g][t] # None, JudgedFor(g, t, k)
                 PROVE  JudgedFor(g, t, k)'
      BY <1>3 DEF JudgedStay
    <3>1. /\ At(fromAuth[g], SyncsFor(t)) # {} => At(fromAuth'[g], SyncsFor(t)) # {}
          /\ At(fromAuth[g], RefusalsFor(t)) # {} => At(fromAuth'[g], RefusalsFor(t)) # {}
      BY <2>2, <2>3
    <3>2. CASE t # h.ticket
      <4>1. tokenMap'[t] = tokenMap[t]
        BY <1>3, <3>2
      <4> QED
        BY <1>3, <3>1, <4>1 DEF JudgedFor
    <3>3. CASE t = h.ticket
      <4>1. PICK b \in Agent : ticketIDMap[g][t] = b
        OBVIOUS
      <4>2. g \in up
        BY <2>1, <4>1 DEF GateInv, OneAgent, DownIsEmpty, Asking
      <4>3. g \in linked
        BY <1>3, <3>3, <4>2
      <4>4. At(fromAuth'[g], SyncsFor(t)) # {}
        BY <1>4, <2>2, <2>3, <3>3, <4>3
      <4> QED
        BY <4>4 DEF JudgedFor
    <3> QED
      BY <3>2, <3>3
  <2> QED
    BY <1>3, <2>1, <2>4, <2>5, <2>6, <2>7, GateKeeps DEF gateVars
<1> QED
  BY <1>7, <1>8

\* An auth server that starts again knows no tokens: it contradicts nobody.
LEMMA AuthDeathKeeps ==
  ASSUME IInv, AuthDeath
  PROVE  IInv'
<1> USE Types DEF IInv
<1>1. PICK lost \in SUBSET {g \in Gate : fromAuth[g] # <<>>} :
          /\ fromAuth' = [g \in Gate |-> IF g \in lost THEN <<>> ELSE fromAuth[g]]
          /\ cut' = cut \union lost \union {g \in up : toAuth[g] # <<>>}
  BY DEF AuthDeath
<1>2. /\ deaths < MaxDeaths /\ deaths' = deaths + 1 /\ tokenMap' = NoTickets
      /\ told' = FALSE /\ linked' = {}
      /\ syncing' = <<>> /\ toAuth' = [g \in Gate |-> <<>>] /\ UNCHANGED <<gateVars, tokens>>
  BY DEF AuthDeath
<1>3. cut' \subseteq up
  BY <1>1 DEF GateInv, DownIsEmpty
<1>4. /\ fromAuth' \in [Gate -> Seq(Answer)] /\ toAuth' \in [Gate -> Seq(Message)]
      /\ syncing' \in Seq(Message) /\ tokenMap' \in [Ticket -> Token \union {None}]
  BY <1>1, <1>2 DEF NoTickets
<1>5. TypeOK'
  <2>1. deaths' \in 0..MaxDeaths
    BY <1>2, LoginAssumption
  <2> QED
    BY <1>2, <1>3, <1>4, <2>1, TypesNext DEF gateVars
<1>6. ASSUME NEW g \in Gate PROVE GateInv(g)'
  <2>1. GateInv(g) /\ SameRecords(g)
    BY <1>2 DEF SameRecords, Asking, gateVars
  <2>2. fromAuth'[g] = <<>> \/ fromAuth'[g] = fromAuth[g]
    BY <1>1
  <2>3. DownIsEmpty(g)'
    BY <1>2, <2>1, <2>2 DEF GateInv, DownIsEmpty, gateVars
  <2>4. FewerMessages(g)
    <3>1. \A S : At(<<>>, S) = {}
      BY DEF At
    <3> QED
      BY <1>2, <2>2, <3>1 DEF FewerMessages, Fewer, Requested, Answered, Lone
  <2>5. JudgedStay(g)
    BY <1>1, <1>2 DEF JudgedStay, JudgedFor, NoTickets
  <2> QED
    BY <1>2, <2>1, <2>3, <2>4, <2>5, GateKeeps DEF gateVars
<1> QED
  BY <1>5, <1>6

\* Steps that no gate sees.
LEMMA UnseenKeeps ==
  ASSUME IInv, MasterRestart \/ UNCHANGED vars
  PROVE  IInv'
<1> USE DEF MasterRestart, vars, gateVars, links, bounds
<1>1. TypeOK'
  BY Types, TypesNext DEF IInv
<1>2. ASSUME NEW g \in Gate PROVE GateInv(g)'
  BY Untouched DEF IInv
<1> QED
  BY <1>1, <1>2 DEF IInv

LEMMA InvStep == IInv /\ [Next]_vars => IInv'
<1> SUFFICES ASSUME IInv, [Next]_vars PROVE IInv'
  OBVIOUS
<1>1. ASSUME NEW g \in Gate, NEW a \in Agent, AgentClose(g, a) PROVE IInv'
  BY <1>1, DieKeeps DEF AgentClose
<1>2. ASSUME NEW g \in Gate, NEW a \in Agent, NEW t \in Ticket, NEW k \in Token,
             ClientVerifyToken(g, a, t, k)
      PROVE  IInv'
  BY <1>2, DieKeeps, VerifyKeeps DEF ClientVerifyToken
<1> QED
  BY <1>1, <1>2, AgentOpenKeeps, GateReceiveKeeps, StartConnectKeep, VerifyTokenKeeps,
     ListenerKeeps, SyncTokenKeeps, AuthDeathKeeps, UnseenKeeps DEF Next

-----------------------------------------------------------------------------
\* The strengthened invariant holds throughout.
THEOREM InductiveInvariant == Spec => []IInv
BY InvInit, InvStep, PTL DEF Spec

\* Every variable of the login keeps its type (Gate, Agent, Auth, Channel).
THEOREM TypeCorrect == Spec => []TypeOK
<1>1. IInv => TypeOK
  BY DEF IInv
<1> QED
  BY <1>1, InductiveInvariant, PTL

\* The ticket of a client that asks or is in leads to its agent, and every entry of
\* _ticketIDMap to such a client, so that an answer finds it, however many tickets the
\* client presents (Gate::clientVerifyToken and onAuthVerifyToken).
THEOREM AnswersFindTheirAgent == Spec => []OneAgentPerTicket
<1>1. IInv => OneAgentPerTicket
  BY DEF IInv, GateInv, OneAgent, OneAgentPerTicket
<1> QED
  BY <1>1, InductiveInvariant, PTL

\* Nobody stays in with a token that was replaced, unless his gate was cut off, the auth
\* server has forgotten the token, or the answer to another ticket of his let him in while
\* his last one is undecided (Gate::onAuthVerifyToken, onAuthSyncToken,
\* Auth::onChannelSyncToken).
THEOREM OldTokensTurnOut == Spec => []VerifiedHoldCurrentToken
<1>1. ASSUME IInv PROVE VerifiedHoldCurrentToken
  <2> SUFFICES ASSUME NEW g \in Gate \ cut, NEW a \in Agent, player[g][a].state = "VERIFED",
                      NEW t, t = player[g][a].ticket, NEW k, k = player[g][a].token
               PROVE  \/ tokenMap[t] \in {k, None} \/ SyncOnItsWay(g, t)
                      \/ /\ Undecided(g, t, k)
                         /\ \E u \in Ticket \ {t} : ticketIDMap[g][u] = a
    BY DEF VerifiedHoldCurrentToken
  <2>1. GateInv(g) /\ Asking(g, a)
    BY <1>1 DEF IInv, Asking
  <2>2. JudgedFor(g, t, k) /\ t \in Ticket /\ k \in Token
    BY <2>1 DEF GateInv, Judged, OneAgent
  <2>3. \/ Requested(g, t) = {} /\ Answered(g, t) = {}
        \/ \E u \in Ticket \ {t} : ticketIDMap[g][u] = a
    BY <2>1, <2>2 DEF GateInv, LetInByAnswer
  <2>4. ASSUME At(fromAuth[g], SyncsFor(t)) # {} PROVE SyncOnItsWay(g, t)
    BY <2>4 DEF At, SyncsFor, SyncOnItsWay
  <2>5. ASSUME At(fromAuth[g], RefusalsFor(t)) # {}
        PROVE  Undecided(g, t, k) /\ Answered(g, t) # {}
    BY <2>5 DEF At, RefusalsFor, AnswersFor, Answered, Undecided, RefusalOnItsWay
  <2>6. ASSUME g \in linked, At(toAuth[g], {[ticket |-> t, token |-> k]}) # {}
        PROVE  Undecided(g, t, k) /\ Requested(g, t) # {}
    <3>1. [ticket |-> t, token |-> k] \in RequestsFor(t)
      BY <2>2 DEF RequestsFor, Message
    <3> QED
      BY <2>6, <3>1 DEF At, Undecided, Requested
  <2> QED
    BY <2>2, <2>3, <2>4, <2>5, <2>6 DEF JudgedFor
<1> QED
  BY <1>1, InductiveInvariant, PTL

-----------------------------------------------------------------------------
\* The identifiers (IdMgr).

\* An identifier that generateId has returned: it was made before the one it makes next.
Made(i) == /\ i.time <= now
           /\ last # NoTime => i.time < last \/ (i.time = last /\ i.seq <= sequence)
           /\ last = NoTime => i.time < now

Past == /\ last # NoTime => last <= now
        /\ serving # NoNode => serving \in Node
        /\ \A i \in batch : Made(i)
        /\ \A n \in Node : \A i \in Kept(n) \union used[n] : Made(i)

\* The inductive invariant.
IdInv == IdTypeOK /\ Past /\ OneOwner

-----------------------------------------------------------------------------
\* Two times less than a span apart with the same remainder are the same.
LEMMA SameTime ==
  ASSUME NEW S \in Nat \ {0}, NEW a \in Nat, NEW b \in Nat,
         a % S = b % S, a - b < S, b - a < S
  PROVE  a = b
<1> DEFINE p == a \div S
           q == b \div S
<1>1. a = S * p + (a % S) /\ b = S * q + (b % S) /\ p \in Int /\ q \in Int
  OBVIOUS
<1>2. a - b = S * (p - q)
  <2> HIDE DEF p, q
  <2> QED
    BY <1>1
<1>3. p = q
  <2> HIDE DEF p, q
  <2>1. p > q => S * (p - q) >= S
    BY <1>1
  <2>2. p < q => S * (p - q) <= -S
    BY <1>1
  <2> QED
    BY <1>1, <1>2, <2>1, <2>2
<1> QED
  BY <1>1, <1>3

\* Different identifiers of one span look different.
LEMMA LooksDifferent ==
  ASSUME IdAssumption, NEW i \in Id, NEW j \in Id, i # j, Near(i, j)
  PROVE  Value(i) # Value(j)
<1> SUFFICES ASSUME Value(i) = Value(j) PROVE FALSE
  OBVIOUS
<1>1. i.time % TimeSpan = j.time % TimeSpan /\ i.seq = j.seq
  BY DEF Value
<1>2. i.time = j.time
  BY <1>1, SameTime DEF IdAssumption, Id, Near
<1> QED
  BY <1>1, <1>2 DEF Id

LEMMA IdInvInit == IdInit => IdInv
BY DEF IdInit, IdInv, IdTypeOK, Past, OneOwner, Kept, NoTime

-----------------------------------------------------------------------------
\* The actions, one by one.

\* Nodes and connections lose identifiers only.
LEMMA Loses ==
  ASSUME IdInv, NEW n \in Node,
         UNCHANGED <<now, last, sequence, serving, batch, used>>,
         pool' = pool \/ pool' = [pool EXCEPT ![n] = {}],
         gives' = gives \/ gives' = [gives EXCEPT ![n] = {}]
  PROVE  IdInv'
<1> USE DEF IdInv, IdTypeOK
<1>1. IdTypeOK'
  OBVIOUS
<1>2. \A m \in Node : /\ pool'[m] \subseteq pool[m] /\ gives'[m] \subseteq gives[m]
                      /\ Kept(m)' \subseteq Kept(m)
  BY DEF Kept
<1>3. Past'
  BY <1>2 DEF Past, Made
<1>4. OneOwner'
  BY <1>2 DEF OneOwner
<1> QED
  BY <1>1, <1>3, <1>4

\* A batch goes from the way into the pool.
LEMMA GiveIdsKeeps ==
  ASSUME IdInv, NEW n \in Node, GiveIds(n)
  PROVE  IdInv'
<1> USE DEF IdInv, IdTypeOK
<1>1. PICK b \in gives[n] : /\ gives' = [gives EXCEPT ![n] = @ \ {b}]
                            /\ pool' = [pool EXCEPT ![n] = @ \union b]
                            /\ UNCHANGED <<now, last, sequence, serving, batch, asks, used>>
  BY DEF GiveIds
<1>2. IdTypeOK'
  BY <1>1
<1>3. \A m \in Node : Kept(m)' = Kept(m)
  BY <1>1 DEF Kept
<1>4. Past'
  BY <1>1, <1>3 DEF Past, Made
<1>5. ASSUME NEW m \in Node, NEW c \in gives'[m]
      PROVE  /\ c \intersect pool'[m] = {}
             /\ \A d \in gives'[m] : c # d => c \intersect d = {}
  BY <1>1 DEF OneOwner
<1>6. OneOwner'
  BY <1>1, <1>3, <1>5 DEF OneOwner
<1> QED
  BY <1>2, <1>4, <1>6

\* An identifier goes from the pool to an object.
LEMMA AllocIDKeeps ==
  ASSUME IdInv, NEW n \in Node, AllocID(n)
  PROVE  IdInv'
<1> USE DEF IdInv, IdTypeOK
<1>1. PICK i \in pool[n] : /\ pool' = [pool EXCEPT ![n] = @ \ {i}]
                           /\ used' = [used EXCEPT ![n] = @ \union {i}]
                           /\ UNCHANGED <<now, last, sequence, serving, batch, asks, gives>>
  BY DEF AllocID
<1>2. IdTypeOK'
  BY <1>1
<1>3. \A m \in Node : /\ pool'[m] \subseteq pool[m] /\ Kept(m)' \subseteq Kept(m)
                      /\ (Kept(m) \union used[m])' = Kept(m) \union used[m]
  BY <1>1 DEF Kept
<1>4. Past'
  BY <1>1, <1>3 DEF Past, Made
<1>5. \A m \in Node : (Kept(m) \intersect used[m])' = {}
  <2>1. i \notin Kept(n)'
    BY <1>1 DEF Kept, OneOwner
  <2> QED
    BY <1>1, <1>3, <2>1 DEF OneOwner
<1>6. OneOwner'
  BY <1>1, <1>3, <1>5 DEF OneOwner
<1> QED
  BY <1>2, <1>4, <1>6

\* What generateId returns is later than all it has returned.
LEMMA GenerateIdKeeps ==
  ASSUME IdInv, GenerateId
  PROVE  IdInv'
<1> USE DEF IdInv, IdTypeOK
<1> DEFINE new == [time |-> now, seq |-> NextSequence]
<1>1. NextSequence \in Nat /\ new \in Id /\ last \in Nat /\ last <= now
  BY DEF GenerateId, NextSequence, Id, Past
<1>2. /\ sequence' = NextSequence /\ last' = now /\ batch' = batch \union {new}
      /\ UNCHANGED <<now, serving, asks, gives, pool, used>>
  BY DEF GenerateId
<1>3. IdTypeOK'
  BY <1>1, <1>2
<1>4. ASSUME NEW i \in Id, Made(i) PROVE i # new /\ Made(i)'
  <2>1. i.time \in Nat /\ i.seq \in Nat /\ now \in Nat /\ sequence \in Nat
    BY DEF Id
  <2>2. last # NoTime /\ last' # NoTime
    BY <1>1, <1>2 DEF NoTime
  <2>3. i.time < now \/ (i.time = now /\ now = last /\ i.seq <= sequence)
    BY <1>1, <1>4, <2>1, <2>2 DEF Made
  <2>4. i.time < now \/ (i.time = now /\ i.seq < NextSequence)
    BY <2>1, <2>3 DEF NextSequence
  <2> HIDE DEF new
  <2>5. Made(i)'
    BY <1>1, <1>2, <2>1, <2>2, <2>4 DEF Made
  <2>6. i # new
    BY <1>1, <2>1, <2>4 DEF new
  <2> QED
    BY <2>5, <2>6
<1>5. ASSUME NEW i, i = new PROVE Made(i)'
  BY <1>1, <1>2, <1>5 DEF Made, NoTime
<1>6. \A n \in Node : Kept(n) \subseteq Id /\ Kept(n)' = Kept(n) /\ used[n] \subseteq Id
  BY <1>2 DEF Kept
<1>7. Past'
  <2> HIDE DEF new
  <2>1. \A i \in batch' : Made(i)'
    BY <1>2, <1>4, <1>5 DEF Past
  <2>2. \A n \in Node : \A i \in Kept(n)' \union used'[n] : Made(i)'
    BY <1>2, <1>4, <1>6 DEF Past
  <2>3. last' # NoTime => last' <= now'
    BY <1>1, <1>2
  <2> QED
    BY <1>2, <2>1, <2>2, <2>3 DEF Past
<1>8. OneOwner'
  <2> HIDE DEF new
  <2>1. \A n \in Node : new \notin Kept(n) \union used[n]
    BY <1>4, <1>6 DEF Past
  <2> QED
    BY <1>2, <1>6, <2>1 DEF OneOwner
<1> QED
  BY <1>3, <1>7, <1>8

\* The whole batch goes to one node.
LEMMA SendIdsKeeps ==
  ASSUME IdInv, SendIds
  PROVE  IdInv'
<1> USE DEF IdInv, IdTypeOK
<1>1. serving \in Node /\ batch' = {} /\ UNCHANGED <<now, last, sequence, asks, pool, used>>
  BY DEF SendIds, Past
<1>2. CASE gives' = gives
  <2>1. \A n \in Node : Kept(n)' = Kept(n)
    BY <1>1, <1>2 DEF Kept
  <2>2. Past'
    BY <1>1, <2>1 DEF Past, Made, SendIds
  <2> QED
    BY <1>1, <1>2, <2>1, <2>2 DEF OneOwner
<1>3. CASE gives' = [gives EXCEPT ![serving] = @ \union {batch}]
  <2>1. IdTypeOK'
    BY <1>1, <1>3
  <2>2. \A n \in Node : Kept(n)' = IF n = serving THEN Kept(n) \union batch ELSE Kept(n)
    BY <1>1, <1>3 DEF Kept
  <2>3. Past'
    BY <1>1, <2>2 DEF Past, Made, SendIds
  <2>4. \A b \in gives[serving] : b \intersect batch = {}
    BY <1>1 DEF OneOwner, Kept
  <2>5. batch \intersect pool[serving] = {}
    BY <1>1 DEF OneOwner, Kept
  <2>6. ASSUME NEW n \in Node, NEW b \in gives'[n]
        PROVE  /\ b \intersect pool'[n] = {}
               /\ \A c \in gives'[n] : b # c => b \intersect c = {}
    BY <1>1, <1>3, <2>4, <2>5 DEF OneOwner
  <2>7. OneOwner'
    BY <1>1, <2>2, <2>6 DEF OneOwner
  <2> QED
    BY <2>1, <2>3, <2>7
<1> QED
  BY <1>2, <1>3 DEF SendIds

\* The steps of the master and of the clock that move no identifier.
LEMMA MasterKeeps ==
  ASSUME IdInv, UNCHANGED <<gives, pool, used>>, batch' = batch \/ batch' = {},
         \/ InitStatics
         \/ Tick
         \/ MasterRestarts
         \/ UNCHANGED <<now, last, sequence>> /\ serving' \in Node \union {serving}
  PROVE  IdInv'
<1> USE DEF IdInv, IdTypeOK
<1>1. IdTypeOK'
  BY DEF InitStatics, Tick, MasterRestarts
<1>2. \A n \in Node : Kept(n)' = Kept(n)
  BY DEF Kept
<1>3. ASSUME NEW i \in Id, Made(i) PROVE Made(i)'
  BY <1>3 DEF Made, Id, InitStatics, Tick, MasterRestarts, NoTime, Past
<1>4. \A n \in Node : Kept(n) \subseteq Id /\ used[n] \subseteq Id
  BY DEF Kept
<1>5. Past'
  BY <1>2, <1>3, <1>4 DEF Past, InitStatics, Tick, MasterRestarts
<1>6. OneOwner'
  BY <1>2 DEF OneOwner
<1> QED
  BY <1>1, <1>5, <1>6

LEMMA IdInvNext == IdInv /\ [IdNext]_idVars => IdInv'
<1> SUFFICES ASSUME IdInv, [IdNext]_idVars PROVE IdInv'
  OBVIOUS
<1>1. ASSUME NEW n \in Node, OnTime(n) PROVE IdInv'
  BY <1>1, MasterKeeps DEF OnTime
<1>2. ASSUME NEW n \in Node, GiveIds(n) PROVE IdInv'
  BY <1>2, GiveIdsKeeps
<1>3. ASSUME NEW n \in Node, AllocID(n) PROVE IdInv'
  BY <1>3, AllocIDKeeps
<1>4. ASSUME NEW n \in Node, AskIds(n) PROVE IdInv'
  BY <1>4, MasterKeeps DEF AskIds
<1>5. ASSUME NEW n \in Node, Break(n) PROVE IdInv'
  BY <1>5, Loses DEF Break
<1>6. ASSUME NEW n \in Node, NodeRestarts(n) PROVE IdInv'
  BY <1>6, Loses DEF NodeRestarts
<1>7. CASE InitStatics
  BY <1>7, MasterKeeps DEF InitStatics
<1>8. CASE GenerateId
  BY <1>8, GenerateIdKeeps
<1>9. CASE SendIds
  BY <1>9, SendIdsKeeps
<1>10. CASE Tick
  BY <1>10, MasterKeeps DEF Tick
<1>11. CASE MasterRestarts
  BY <1>11, MasterKeeps DEF MasterRestarts
<1>12. CASE UNCHANGED idVars
  BY <1>12, MasterKeeps DEF idVars
<1> QED
  BY <1>1, <1>2, <1>3, <1>4, <1>5, <1>6, <1>7, <1>8, <1>9, <1>10, <1>11, <1>12 DEF IdNext

-----------------------------------------------------------------------------
\* The types of the identifiers and of the clock, no identifier with two owners, and
\* every one that is known made before the next one of generateId.
THEOREM IdInvariant == IdSpec => []IdInv
<1> QED
  BY IdInvInit, IdInvNext, PTL DEF IdSpec

\* Every variable of the generator and of the pools keeps its type.
THEOREM IdTypeCorrect == IdSpec => []IdTypeOK
<1>1. IdInv => IdTypeOK
  BY DEF IdInv
<1> QED
  BY <1>1, IdInvariant, PTL

\* askIds, giveIds and allocID give each identifier to one object, whatever restarts.
THEOREM EachHasOneOwner == IdSpec => []OneOwner
<1>1. IdInv => OneOwner
  BY DEF IdInv
<1> QED
  BY <1>1, IdInvariant, PTL

\* Identifiers in the pools differ from each other and from those in use, in the bits
\* that generateId leaves of them, within a TimeSpan.
THEOREM PoolsDiffer ==
  ASSUME IdAssumption
  PROVE  IdSpec => []ValuesDiffer
<1>1. IdInv => ValuesDiffer
  BY LooksDifferent DEF IdInv, IdTypeOK, ValuesDiffer, Kept
<1> QED
  BY <1>1, IdInvariant, PTL

\* allocID never returns the bits of another object's identifier, within a TimeSpan.
THEOREM ObjectsDiffer ==
  ASSUME IdAssumption
  PROVE  IdSpec => NoValueTwice
<1>1. ASSUME IdInv, IdNext,
             NEW n \in Node, NEW m \in Node, NEW i \in used'[n] \ used[n], NEW j \in used[m],
             Near(i, j)
      PROVE  Value(i) # Value(j)
  <2>1. AllocID(n)
    BY <1>1 DEF IdNext, OnTime, GiveIds, AllocID, AskIds, Break, NodeRestarts, InitStatics,
                GenerateId, SendIds, Tick, MasterRestarts, IdInv, IdTypeOK
  <2>2. i \in pool[n]
    BY <1>1, <2>1 DEF AllocID, IdInv, IdTypeOK
  <2>3. i \in Id /\ j \in Id
    BY <1>1, <2>2 DEF IdInv, IdTypeOK
  <2>4. i # j
    BY <1>1, <2>2 DEF IdInv, OneOwner, Kept
  <2> QED
    BY <1>1, <2>3, <2>4, LooksDifferent
<1>2. IdInv /\ [IdNext]_idVars
        => [\A n, m \in Node : \A i \in used'[n] \ used[n], j \in used[m] :
              Near(i, j) => Value(i) # Value(j)]_idVars
  BY <1>1
<1> QED
  BY <1>2, IdInvariant, PTL DEF IdSpec, NoValueTwice
=============================================================================
