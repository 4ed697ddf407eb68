--------------------------- MODULE ClusterFormation ---------------------------
(***************************************************************************)
(* How the processes of a cluster find each other.  Every node connects to *)
(* the master (logic/cluster/Cluster.cpp) and reports itself; the master   *)
(* (logic/master/Master.cpp) tells all nodes of each other; of two nodes   *)
(* one dials the other (Cluster::newNodeComing) and keeps a NodeSession    *)
(* that reconnects for ever (logic/harbor/NodeSession.cpp); a slave        *)
(* restarts the processes that die (Slave::CheckNodeTimer::onTime).        *)
(*                                                                         *)
(* An end of a connection notices that the other end is gone before a new  *)
(* connection of the same peer is accepted: a process is restarted half a  *)
(* second after its exit at the earliest, a session redials after one      *)
(* second.  What TCP had not delivered when a connection broke is lost.    *)
(***************************************************************************)
EXTENDS Naturals, FiniteSets

CONSTANTS
  Node,              \* every process but the master
  TypeOf, IdOf,      \* Node -> node type, node id
  Exposed,           \* the nodes whose type is not "hidden" in server_conf.xml
  MaxFaults          \* how many processes, the master included, die and connections
                     \* break

ASSUME FormationAssumption ==
  /\ TypeOf \in [Node -> Nat] /\ IdOf \in [Node -> Nat]
  /\ \A n, m \in Node : TypeOf[n] = TypeOf[m] /\ IdOf[n] = IdOf[m] => n = m
  /\ Exposed \subseteq Node
  /\ MaxFaults \in Nat

Pair == {p \in Node \X Node : p[1] # p[2]}

VARIABLES
  \* the master
  masterUp,
  nodes,      \* Master::_nodes
  refused,    \* the nodes whose report Master::onOpen dropped (history)
  linked,     \* the nodes connected to the master
  inbox,      \* node -> nodes announced to it by messages it has not read
  \* the nodes
  up,         \* the processes that run
  openNodes,  \* node -> Cluster::_openNodes
  sessions,   \* <<n, m>> -> how many NodeSessions n has created to dial m
  dial,       \* <<n, m>> -> state of n's session to m: "none", "retry", "wait"
              \*   until m's report arrives, "ready"
  acc,        \* <<n, m>> -> state of m's session for n's connection
  alive,      \* the connections <<n, m>> that are intact
  faults      \* bound

masterVars == <<masterUp, nodes, refused, linked, inbox>>
meshVars   == <<openNodes, sessions, dial, acc, alive>>
vars       == <<masterVars, up, meshVars, faults>>

Init == /\ masterUp = TRUE /\ nodes = {} /\ refused = {} /\ linked = {}
        /\ inbox = [n \in Node |-> {}]
        /\ up = Node
        /\ openNodes = [n \in Node |-> {}]
        /\ sessions = [p \in Pair |-> 0]
        /\ dial = [p \in Pair |-> "none"]
        /\ acc = [p \in Pair |-> "none"]
        /\ alive = {}
        /\ faults = 0

-----------------------------------------------------------------------------
\* The master.

\* Mistake: the new node is not told about the nodes that are there.
AnnounceNewOnly(n) ==
  [m \in Node |-> IF m \in nodes \cap linked THEN inbox[m] \cup {n} ELSE inbox[m]]

\* The messages under way once n has been announced to every node in _nodes and
\* they to n.  Harbor::send drops the message to a node that is not connected.
Announce(n) ==
  [m \in Node |-> IF m = n THEN inbox[m] \cup nodes
                  ELSE IF m \in nodes \cap linked THEN inbox[m] \cup {n} ELSE inbox[m]]

\* The report of n arrives: Master::onOpen.  A node that is in _nodes already
\* trips SLASSERT(false); the release build drops it.
OnOpen(n) ==
  /\ masterUp
  /\ n \in up \ linked
  /\ linked' = linked \cup {n}
  /\ \/ /\ n \notin Exposed
        /\ UNCHANGED <<nodes, refused, inbox>>
     \/ /\ n \in Exposed \cap nodes
        /\ refused' = refused \cup {n}
        /\ UNCHANGED <<nodes, inbox>>
     \/ /\ n \in Exposed \ nodes
        /\ nodes' = nodes \cup {n}
        /\ inbox' = Announce(n)
        /\ UNCHANGED refused
  /\ UNCHANGED <<masterUp, up, meshVars, faults>>

\* The connection between n and the master breaks; Master::onClose does nothing.
MasterReset(n) ==
  /\ n \in linked /\ faults < MaxFaults
  /\ faults' = faults + 1
  /\ linked' = linked \ {n}
  /\ inbox' = [inbox EXCEPT ![n] = {}]
  /\ UNCHANGED <<masterUp, nodes, refused, up, meshVars>>

\* The master dies and, whenever the operator likes, is started again.
MasterCrash ==
  /\ masterUp /\ faults < MaxFaults
  /\ faults' = faults + 1
  /\ masterUp' = FALSE
  /\ nodes' = {} /\ refused' = {} /\ linked' = {}
  /\ inbox' \in {inbox, [n \in Node |-> {}]}
  /\ UNCHANGED <<up, meshVars>>

MasterRestart ==
  /\ ~masterUp
  /\ masterUp' = TRUE
  /\ UNCHANGED <<nodes, refused, linked, inbox, up, meshVars, faults>>

-----------------------------------------------------------------------------
\* The nodes.

\* Mistake: nodes of one type dial each other both ways.
DialsAllOfType(n, m) == n # m /\ TypeOf[n] >= TypeOf[m]

\* newNodeComing: does n dial m?
Dials(n, m) == \/ TypeOf[n] > TypeOf[m]
               \/ TypeOf[n] = TypeOf[m] /\ IdOf[n] < IdOf[m]

\* Cluster::newNodeComing and Harbor::connect.  The session's first attempt and
\* its later ones are alike, so it starts in "retry".
NewNodeComing(n, m) ==
  /\ n \in up /\ m \in inbox[n]
  /\ inbox' = [inbox EXCEPT ![n] = @ \ {m}]
  /\ IF m \notin openNodes[n] /\ Dials(n, m)
     THEN /\ openNodes' = [openNodes EXCEPT ![n] = @ \cup {m}]
          /\ sessions' = [sessions EXCEPT ![<<n, m>>] = @ + 1]
          /\ dial' = [dial EXCEPT ![<<n, m>>] = "retry"]
     ELSE UNCHANGED <<openNodes, sessions, dial>>
  /\ UNCHANGED <<masterUp, nodes, refused, linked, up, acc, alive, faults>>

\* NodeSession::onTime, or Harbor::connect, reaches the peer; NodeSession::
\* onConnected sends the report of either end.
Connect(p) ==
  /\ p[1] \in up /\ p[2] \in up
  /\ dial[p] = "retry" /\ acc[p] = "none"
  /\ dial' = [dial EXCEPT ![p] = "wait"]
  /\ acc' = [acc EXCEPT ![p] = "wait"]
  /\ alive' = alive \cup {p}
  /\ UNCHANGED <<masterVars, up, openNodes, sessions, faults>>

\* NodeSession::onRecv: the other end's report makes the session ready and
\* Harbor::onNodeOpen enters it into _allNode.
DialReady(p) ==
  /\ dial[p] = "wait"
  /\ dial' = [dial EXCEPT ![p] = "ready"]
  /\ UNCHANGED <<masterVars, up, openNodes, sessions, acc, alive, faults>>

AccReady(p) ==
  /\ acc[p] = "wait"
  /\ acc' = [acc EXCEPT ![p] = "ready"]
  /\ UNCHANGED <<masterVars, up, openNodes, sessions, dial, alive, faults>>

\* NodeSession::onDisconnect in the end that dialled: the reconnect timer starts.
DialClose(p) ==
  /\ dial[p] \in {"wait", "ready"} /\ p \notin alive
  /\ dial' = [dial EXCEPT ![p] = "retry"]
  /\ UNCHANGED <<masterVars, up, openNodes, sessions, acc, alive, faults>>

\* NodeSession::onDisconnect in the end that accepted: the session is released.
AccClose(p) ==
  /\ acc[p] \in {"wait", "ready"} /\ p \notin alive
  /\ acc' = [acc EXCEPT ![p] = "none"]
  /\ UNCHANGED <<masterVars, up, openNodes, sessions, dial, alive, faults>>

Reset(p) ==
  /\ p \in alive /\ faults < MaxFaults
  /\ faults' = faults + 1
  /\ alive' = alive \ {p}
  /\ UNCHANGED <<masterVars, up, openNodes, sessions, dial, acc>>

\* A process dies with all it knew.
Crash(n) ==
  /\ n \in up /\ faults < MaxFaults
  /\ faults' = faults + 1
  /\ up' = up \ {n}
  /\ linked' = linked \ {n}
  /\ inbox' = [inbox EXCEPT ![n] = {}]
  /\ openNodes' = [openNodes EXCEPT ![n] = {}]
  /\ sessions' = [p \in Pair |-> IF p[1] = n THEN 0 ELSE sessions[p]]
  /\ dial' = [p \in Pair |-> IF p[1] = n THEN "none" ELSE dial[p]]
  /\ acc' = [p \in Pair |-> IF p[2] = n THEN "none" ELSE acc[p]]
  /\ alive' = {p \in alive : n \notin {p[1], p[2]}}
  /\ UNCHANGED <<masterUp, nodes, refused>>

\* Slave::CheckNodeTimer::onTime.
Restart(n) ==
  /\ n \notin up
  /\ up' = up \cup {n}
  /\ UNCHANGED <<masterVars, meshVars, faults>>

-----------------------------------------------------------------------------
Next == \/ MasterCrash \/ MasterRestart
        \/ \E n \in Node : \/ OnOpen(n) \/ MasterReset(n) \/ Crash(n) \/ Restart(n)
                           \/ \E m \in Node : NewNodeComing(n, m)
        \/ \E p \in Pair : \/ Connect(p) \/ DialReady(p) \/ AccReady(p)
                           \/ DialClose(p) \/ AccClose(p) \/ Reset(p)

Spec == Init /\ [][Next]_vars

\* Messages arrive, timers fire and slaves restart what died.
FairSpec ==
  /\ Spec
  /\ \A n \in Node : /\ WF_vars(OnOpen(n)) /\ WF_vars(Restart(n))
                     /\ \A m \in Node : WF_vars(NewNodeComing(n, m))
  /\ \A p \in Pair : /\ WF_vars(Connect(p)) /\ WF_vars(DialReady(p)) /\ WF_vars(AccReady(p))
                     /\ WF_vars(DialClose(p)) /\ WF_vars(AccClose(p))

-----------------------------------------------------------------------------
TypeOK ==
  /\ masterUp \in BOOLEAN
  /\ nodes \subseteq Exposed /\ refused \subseteq nodes /\ linked \subseteq up
  /\ inbox \in [Node -> SUBSET Exposed]
  /\ \A n \in Node : n \notin inbox[n]
  /\ up \subseteq Node
  /\ openNodes \in [Node -> SUBSET Exposed]
  /\ sessions \in [Pair -> Nat]
  /\ dial \in [Pair -> {"none", "retry", "wait", "ready"}]
  /\ acc \in [Pair -> {"none", "wait", "ready"}]
  /\ alive \subseteq Pair
  /\ faults \in 0 .. MaxFaults

\* Two processes never have more than one NodeSession between them that dials,
\* whoever was told first, however often they are told (the master repeats
\* itself after a restart), and whatever crashed: _allNode has one session per
\* peer, and a second one would be lost there.
OneSessionPerPair ==
  \A p \in Pair : sessions[p] + sessions[<<p[2], p[1]>>] <= 1

\* A node the master knows and has not refused has been told about every node it
\* has to dial, or the message is on its way.
ToldOrOnTheWay ==
  \A d, a \in nodes :
     Dials(d, a) /\ d \in linked \ refused => a \in openNodes[d] \cup inbox[d]

Connected(p) == p \in alive /\ dial[p] = "ready" /\ acc[p] = "ready"

\* Unless the master stays away, every two nodes end up connected, after crashes,
\* broken connections and a master that starts anew - except where the node that
\* has to dial lost its connection to the master once and was refused when it
\* reported again.
MeshForms ==
  <>[]masterUp =>
     \A d, a \in Exposed : Dials(d, a) => <>[](Connected(<<d, a>>) \/ d \in refused)
=============================================================================
