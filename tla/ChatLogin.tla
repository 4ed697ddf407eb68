------------------------------ MODULE ChatLogin ------------------------------
(***************************************************************************)
(* How clients log in to the chat servers: the channel (logic/channel)     *)
(* gives a token for a ticket, to the client and to the auth server        *)
(* (logic/auth); the client presents it to a gate (logic/gate with         *)
(* logic/agent), which asks the auth server.  A new token turns out those  *)
(* who were let in with the old one.                                       *)
(*                                                                         *)
(* The nodes have one FIFO connection each with the auth server, which may *)
(* die and start again without its tokens.  Agent::onClose erases the      *)
(* session of an agent and then calls getType() through the empty entry    *)
(* that _sessions[id] creates: the gate dies with every connection that    *)
(* ends, whether the client leaves, is silent for too long or is kicked.   *)
(* So "kick" is the death of the gate here; its slave starts it again.     *)
(*                                                                         *)
(* Channel::_clientNodeMap, which is never read, is left out.              *)
(***************************************************************************)
EXTENDS Integers, Sequences

CONSTANTS Gate, Agent, \* gates, and the ids their agents get
          Ticket,      \* an application's id and a user's
          Token,
          None,
          MaxTokens,   \* bound: how many tokens the channel gives
          MaxDeaths    \* bound: how often the auth server dies

ASSUME LoginAssumption == /\ None \notin Agent \union Token
                          /\ MaxTokens \in Nat /\ MaxDeaths \in Nat

VARIABLES up,          \* the gates that run
          player,      \* gate -> agent -> its _players entry
          ticketIDMap, \* gate -> ticket -> the agent
          tokenMap,    \* the auth server: ticket -> token
          told,        \* the auth server has been told of the gates, which it dials
          linked,      \* the gates that are connected to the auth server
          toAuth,      \* gate -> VERIFY_TOKEN messages to the auth server
          fromAuth,    \* gate -> SYNC_TOKEN and VERIFY_TOKEN_RES messages from it
          syncing,     \* SYNC_TOKEN messages from the channel to the auth server
          cut,         \* (history) gates that have missed a message since they started
          tokens, deaths \* counters

gateVars == <<up, player, ticketIDMap>>
links    == <<told, linked, toAuth, fromAuth, cut>>
bounds   == <<tokens, deaths>>
vars     == <<gateVars, tokenMap, links, syncing, bounds>>

Closed == [state |-> "CLOSED", ticket |-> None, token |-> None]

NoTickets == [t \in Ticket |-> None]

Init == /\ up = Gate
        /\ player = [g \in Gate |-> [a \in Agent |-> Closed]]
        /\ ticketIDMap = [g \in Gate |-> NoTickets]
        /\ tokenMap = NoTickets
        /\ told = TRUE /\ linked = Gate /\ cut = {}
        /\ toAuth = [g \in Gate |-> <<>>]
        /\ fromAuth = [g \in Gate |-> <<>>]
        /\ syncing = <<>>
        /\ tokens = 0 /\ deaths = 0

-----------------------------------------------------------------------------
\* The gate.

\* Agent::onClose.  What the gate has sent arrives, up to some point.
Die(g) ==
    /\ up' = up \ {g}
    /\ player' = [player EXCEPT ![g] = [a \in Agent |-> Closed]]
    /\ ticketIDMap' = [ticketIDMap EXCEPT ![g] = NoTickets]
    /\ \E n \in 0..Len(toAuth[g]) : toAuth' = [toAuth EXCEPT ![g] = SubSeq(@, 1, n)]
    /\ fromAuth' = [fromAuth EXCEPT ![g] = <<>>]
    /\ linked' = linked \ {g} /\ cut' = cut \ {g}
    /\ UNCHANGED told

\* The client leaves, or onGateTimer kicks it because no heartbeat came.
AgentClose(g, a) == /\ player[g][a].state # "CLOSED"
                    /\ Die(g)
                    /\ UNCHANGED <<tokenMap, syncing, bounds>>

AgentOpen(g, a) ==
    /\ g \in up /\ player[g][a].state = "CLOSED"
    /\ player' = [player EXCEPT ![g][a].state = "DISABLE"]
    /\ UNCHANGED <<up, ticketIDMap, tokenMap, links, syncing, bounds>>

\* The record of the agent is overwritten, the ticket is its own unless another agent
\* has it (_ticketIDMap.insert), and the auth server is asked, if the gate is connected.
Verify(g, a, t, k) ==
    /\ player' = [player EXCEPT ![g][a] = [state |-> "VERIFYING", ticket |-> t, token |-> k]]
    /\ ticketIDMap' = [ticketIDMap EXCEPT ![g][t] = IF @ = None THEN a ELSE @]
    /\ IF g \in linked
       THEN toAuth' = [toAuth EXCEPT ![g] = Append(@, [ticket |-> t, token |-> k])]
            /\ UNCHANGED cut
       ELSE cut' = cut \union {g} /\ UNCHANGED toAuth
    /\ UNCHANGED <<up, told, linked, fromAuth>>

\* Mistake: it does not matter that another agent has the ticket.
ClientVerifyTokenAnyway(g, a, t, k) ==
    /\ player[g][a].state # "CLOSED" /\ ticketIDMap[g][t] # a
    /\ Verify(g, a, t, k)
    /\ UNCHANGED <<tokenMap, syncing, bounds>>

\* A client may present several tickets, one after the other.  One that it has presented
\* changes nothing.  Where another agent has the ticket, one of the two is kicked: the
\* newcomer while the other is being verified or if its token differs, else the other.
\* (The remaining cases of the switch are those that OneAgentPerTicket rules out.)
ClientVerifyToken(g, a, t, k) ==
    /\ player[g][a].state # "CLOSED" /\ ticketIDMap[g][t] # a
    /\ IF ticketIDMap[g][t] = None THEN Verify(g, a, t, k) ELSE Die(g)
    /\ UNCHANGED <<tokenMap, syncing, bounds>>

Receive(g) == fromAuth' = [fromAuth EXCEPT ![g] = Tail(@)]

\* Mistake: only the client is told.
OnAuthSyncTokenTelling(g) == /\ fromAuth[g] # <<>> /\ Head(fromAuth[g]).id = "SYNC_TOKEN"
                             /\ Receive(g)
                             /\ UNCHANGED <<gateVars, told, linked, toAuth, cut>>

OnAuthSyncToken(g) ==
    /\ fromAuth[g] # <<>> /\ Head(fromAuth[g]).id = "SYNC_TOKEN"
    /\ IF ticketIDMap[g][Head(fromAuth[g]).ticket] # None
       THEN Die(g)
       ELSE Receive(g) /\ UNCHANGED <<gateVars, told, linked, toAuth, cut>>

OnAuthVerifyToken(g) ==
    /\ fromAuth[g] # <<>> /\ Head(fromAuth[g]).id = "VERIFY_TOKEN_RES"
    /\ LET res == Head(fromAuth[g])
           a   == ticketIDMap[g][res.ticket]
       IN IF a = None
          THEN Receive(g) /\ UNCHANGED <<gateVars, told, linked, toAuth, cut>>
          ELSE IF ~res.ok
          THEN Die(g)
          ELSE /\ player' = [player EXCEPT ![g][a].state = "VERIFED"]
               /\ Receive(g)
               /\ UNCHANGED <<up, ticketIDMap, told, linked, toAuth, cut>>

GateReceive(g) == /\ OnAuthSyncToken(g) \/ OnAuthVerifyToken(g)
                  /\ UNCHANGED <<tokenMap, syncing, bounds>>

\* The slave starts the gate; it opens for clients before it is connected.
GateStart(g) == /\ g \notin up
                /\ up' = up \union {g}
                /\ UNCHANGED <<player, ticketIDMap, tokenMap, links, syncing, bounds>>

\* Both ends have seen the close of the old connection, and the auth server dials.
Connect(g) == /\ told /\ g \in up \ linked
              /\ toAuth[g] = <<>> /\ fromAuth[g] = <<>>
              /\ linked' = linked \union {g}
              /\ UNCHANGED <<gateVars, tokenMap, told, toAuth, fromAuth, cut, syncing, bounds>>

\* The master is restarted: all nodes report to the new one, and the auth server is told of
\* the gates again.  (The old one refuses an auth server that was restarted.)
MasterRestart == /\ ~told /\ told' = TRUE
                 /\ UNCHANGED <<gateVars, tokenMap, linked, toAuth, fromAuth, cut, syncing, bounds>>

-----------------------------------------------------------------------------
\* The channel and the auth server.

\* OnMsgRgsListener: a token, which may be one that was given before (it is made from an
\* address and the ticket).  The client has it at once.  SYNC_TOKEN is lost if the channel
\* is not connected.
OnMsgRgsListener(t, k) ==
    /\ tokens < MaxTokens
    /\ tokens' = tokens + 1
    /\ syncing' \in {syncing, Append(syncing, [ticket |-> t, token |-> k])}
    /\ UNCHANGED <<gateVars, tokenMap, links, deaths>>

\* Gates that are not connected miss what the auth server sends.
Send(to, msg, missedBy) ==
    /\ fromAuth' = [g \in Gate |-> IF g \in to \intersect linked
                                   THEN Append(fromAuth[g], msg) ELSE fromAuth[g]]
    /\ cut' = cut \union (missedBy \ linked)

OnChannelSyncToken ==
    /\ syncing # <<>>
    /\ LET ticket == Head(syncing) IN
       /\ tokenMap' = [tokenMap EXCEPT ![ticket.ticket] = ticket.token]
       /\ Send(Gate, [id |-> "SYNC_TOKEN", ticket |-> ticket.ticket, ok |-> TRUE],
               {g \in up : ticketIDMap[g][ticket.ticket] # None})
    /\ syncing' = Tail(syncing)
    /\ UNCHANGED <<gateVars, told, linked, toAuth, bounds>>

\* Mistake: no answer if there is no token for the ticket.
OnGateVerifyTokenKnown(g) ==
    /\ toAuth[g] # <<>>
    /\ LET ticket == Head(toAuth[g]) IN
       IF tokenMap[ticket.ticket] = None
       THEN UNCHANGED <<fromAuth, cut>>
       ELSE Send({g}, [id |-> "VERIFY_TOKEN_RES", ticket |-> ticket.ticket,
                       ok |-> tokenMap[ticket.ticket] = ticket.token], {})
    /\ toAuth' = [toAuth EXCEPT ![g] = Tail(@)]
    /\ UNCHANGED <<gateVars, tokenMap, told, linked, syncing, bounds>>

\* What comes from a gate that is not connected was sent before it died.
OnGateVerifyToken(g) ==
    /\ toAuth[g] # <<>>
    /\ LET ticket == Head(toAuth[g]) IN
       Send({g}, [id |-> "VERIFY_TOKEN_RES", ticket |-> ticket.ticket,
                  ok |-> tokenMap[ticket.ticket] = ticket.token], {})
    /\ toAuth' = [toAuth EXCEPT ![g] = Tail(@)]
    /\ UNCHANGED <<gateVars, tokenMap, told, linked, syncing, bounds>>

\* The auth server dies and is started again: what was sent to it is lost, and so is, at
\* some gates, what it sent.
AuthDeath ==
    /\ deaths < MaxDeaths
    /\ deaths' = deaths + 1
    /\ tokenMap' = NoTickets
    /\ told' = FALSE /\ linked' = {}
    /\ syncing' = <<>>
    /\ toAuth' = [g \in Gate |-> <<>>]
    /\ \E lost \in SUBSET {g \in Gate : fromAuth[g] # <<>>} :
          /\ fromAuth' = [g \in Gate |-> IF g \in lost THEN <<>> ELSE fromAuth[g]]
          /\ cut' = cut \union lost \union {g \in up : toAuth[g] # <<>>}
    /\ UNCHANGED <<gateVars, tokens>>

Next == \/ \E g \in Gate :
              \/ \E a \in Agent : \/ AgentOpen(g, a) \/ AgentClose(g, a)
                                  \/ \E t \in Ticket, k \in Token : ClientVerifyToken(g, a, t, k)
              \/ GateReceive(g) \/ GateStart(g) \/ Connect(g) \/ OnGateVerifyToken(g)
        \/ \E t \in Ticket, k \in Token : OnMsgRgsListener(t, k)
        \/ OnChannelSyncToken \/ AuthDeath \/ MasterRestart

Spec == Init /\ [][Next]_vars

\* The nodes read what arrives, and the auth server dials the gates it knows of.  Clients,
\* the channel and faults do as they like; nothing is asked of the slaves or of those who
\* may restart the master.
FairSpec == /\ Spec
            /\ \A g \in Gate : /\ WF_vars(GateReceive(g)) /\ WF_vars(OnGateVerifyToken(g))
                               /\ WF_vars(Connect(g))
            /\ WF_vars(OnChannelSyncToken)

-----------------------------------------------------------------------------
Message == [ticket : Ticket, token : Token]

TypeOK ==
    /\ told \in BOOLEAN /\ up \subseteq Gate /\ linked \subseteq up /\ cut \subseteq up
    /\ player \in [Gate -> [Agent -> [state : {"CLOSED", "DISABLE", "VERIFYING", "VERIFED"},
                                      ticket : Ticket \union {None},
                                      token : Token \union {None}]]]
    /\ ticketIDMap \in [Gate -> [Ticket -> Agent \union {None}]]
    /\ tokenMap \in [Ticket -> Token \union {None}]
    /\ toAuth \in [Gate -> Seq(Message)] /\ syncing \in Seq(Message)
    /\ fromAuth \in [Gate -> Seq([id : {"SYNC_TOKEN", "VERIFY_TOKEN_RES"},
                                  ticket : Ticket, ok : BOOLEAN])]
    /\ tokens \in 0..MaxTokens /\ deaths \in 0..MaxDeaths

Asking(g, a) == player[g][a].state \in {"VERIFYING", "VERIFED"}

\* At a gate, _ticketIDMap has the agent of the ticket in each record that is being verified
\* or let in, and no other agent has that ticket in its record; and an entry never refers to
\* an agent that is gone or has not asked, so that an answer finds one to let in (the
\* SLASSERTs of clientVerifyToken, and _players[itor->second] in onAuthVerifyToken, which
\* would create an agent).
OneAgentPerTicket ==
    \A g \in Gate, a \in Agent :
        /\ Asking(g, a) => ticketIDMap[g][player[g][a].ticket] = a
        /\ \A t \in Ticket : ticketIDMap[g][t] = a => Asking(g, a)

SyncOnItsWay(g, t) == \E i \in DOMAIN fromAuth[g] :
                          fromAuth[g][i].id = "SYNC_TOKEN" /\ fromAuth[g][i].ticket = t

\* The gate's request for a ticket, or its refusal, is on its way.
RefusalOnItsWay(g, t) == \E i \in DOMAIN fromAuth[g] :
                             /\ fromAuth[g][i].id = "VERIFY_TOKEN_RES"
                             /\ fromAuth[g][i].ticket = t /\ ~fromAuth[g][i].ok
Undecided(g, t, k) == \/ g \in linked /\ \E i \in DOMAIN toAuth[g] :
                                             toAuth[g][i] = [ticket |-> t, token |-> k]
                      \/ RefusalOnItsWay(g, t)

\* Whoever was let in has the token the auth server has for the ticket, or the message
\* that turns him out is on its way, unless the auth server died and has forgotten the
\* token, or the gate was not connected when it was told (Gate::onAuthVerifyToken,
\* Gate::onAuthSyncToken, Auth::onChannelSyncToken).  Only who has presented another ticket
\* before is let in by the answer to that one, until his last one is decided as well.
VerifiedHoldCurrentToken ==
    \A g \in Gate \ cut, a \in Agent :
        LET p == player[g][a] IN
        p.state = "VERIFED" =>
           \/ tokenMap[p.ticket] \in {p.token, None} \/ SyncOnItsWay(g, p.ticket)
           \/ /\ Undecided(g, p.ticket, p.token)
              /\ \E t \in Ticket \ {p.ticket} : ticketIDMap[g][t] = a

\* A client that asked to be let in is let in or turned out, unless its gate missed a
\* message (clientVerifyToken gives up no request, and waits for ever).
RequestsAnswered ==
    \A g \in Gate, a \in Agent :
        player[g][a].state = "VERIFYING" ~> player[g][a].state # "VERIFYING" \/ g \in cut
=============================================================================
