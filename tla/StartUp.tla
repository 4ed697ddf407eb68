------------------------------- MODULE StartUp -------------------------------
(***************************************************************************)
(* How the processes of a cluster are started.  The master's Starter       *)
(* (logic/starter/Starter.cpp) waits for a slave, then for the delay of    *)
(* each type of node, and tells slaves to open the nodes; later it opens   *)
(* further nodes of a type that reports too much load.  The nodes that     *)
(* open decide when it takes the cluster for started.  A slave             *)
(* (logic/slave/Slave.cpp) forks the processes and looks after them with a *)
(* timer each, until Starter::preShutDown makes it stop.                   *)
(*                                                                         *)
(* A connection is a FIFO queue from the master to the slave.  A slave     *)
(* reads what a lost connection has delivered before it connects anew.     *)
(***************************************************************************)
EXTENDS Naturals, Sequences, FiniteSets

Sets == INSTANCE FiniteSetsExt

CONSTANTS
  Type,        \* the types of <starter> in server_conf.xml (Starter::_executes)
  Min, Max,    \* Type -> how many nodes to start at once, and at most
  Rate,        \* Type -> load per node from which on another one is started
  Load,        \* the loads that nodes report, as whole numbers
  Slave,       \* the slaves, one per machine
  Forced,      \* Type -> the slave its "forcenode" names, or NoSlave
  NoSlave,
  Ports,       \* how many nodes the port range of a slave serves
  MaxFaults    \* bound: processes that die, connections that break, forks that fail

ASSUME StartUpAssumption ==
  /\ Min \in [Type -> Nat] /\ Max \in [Type -> Nat] /\ Rate \in [Type -> Nat]
  /\ \A t \in Type : Min[t] <= Max[t]
  /\ Load \subseteq Nat
  /\ NoSlave \notin Slave /\ IsFiniteSet(Slave)
  /\ Forced \in [Type -> Slave \cup {NoSlave}]
  /\ Ports \in Nat /\ MaxFaults \in Nat

\* A node is a type and an id.
Node == UNION {{t} \X (1 .. Max[t]) : t \in Type}

VARIABLES
  \* the master
  masterUp,
  status,      \* _status: "notStart", "starting" or "started"
  timer,       \* type -> its StartNodeTimer: "idle", "delayed", "running", "gone"
  group,       \* type -> _nodes[type].max, 0 when there is no entry or a new one
  online,      \* the nodes whose entry in _nodes says online
  slaves,      \* StartNodeStrategy::_slaves
  load,        \* CapacitySubscriber::_allNodeLoad, 0 when there is no entry
  \* the connections
  linked,      \* the slaves in Harbor::_allNode
  toSlave,     \* slave -> messages on their way to it
  \* the machines
  slaveUp,     \* the slaves that run
  child,       \* slave -> node -> its entry in _cmds: "none", or what the process
               \*   it refers to is: "runs", "exited", "failed" when fork failed
  timers,      \* slave -> nodes that have a CheckNodeTimer
  stray,       \* slave -> node -> running processes no entry of _cmds refers to
  ports,       \* slave -> nodes its port range still serves
  \* history and bounds
  asked,       \* the master was asked to shut down
  early,       \* ... before the first slave had connected
  stopped,     \* the slaves that have read MASTER_MSG_STOP_NODES
  lost,        \* nodes whose MASTER_MSG_START_NODE, or whose slave, was lost
  masters,     \* masters that have died
  faults

master   == <<masterUp, status, timer, group, online, slaves, load>>
wire     == <<linked, toSlave>>
machines == <<slaveUp, child, timers, stray, ports>>
history  == <<asked, early, stopped, lost, masters, faults>>
vars     == <<master, wire, machines, history>>

\* The start messages that one callback sends to a slave are one batch, which the
\* slave reads one by one in any order.
Start(batch) == [type |-> "start", nodes |-> batch]
Stop == [type |-> "stop", nodes |-> {}]
Message == {Start(batch) : batch \in (SUBSET Node) \ {{}}} \cup {Stop}

NoChild == [n \in Node |-> "none"]

Init == /\ masterUp = TRUE /\ status = "notStart"
        /\ timer = [t \in Type |-> "idle"]
        /\ group = [t \in Type |-> 0]
        /\ online = {}
        /\ slaves = {}
        /\ load = [n \in Node |-> 0]
        /\ linked = {} /\ toSlave = [s \in Slave |-> <<>>]
        /\ slaveUp = Slave
        /\ child = [s \in Slave |-> NoChild]
        /\ timers = [s \in Slave |-> {}]
        /\ stray = [s \in Slave |-> [n \in Node |-> 0]]
        /\ ports = [s \in Slave |-> Ports]
        /\ asked = FALSE /\ early = FALSE /\ stopped = {} /\ lost = {}
        /\ masters = 0 /\ faults = 0

Fault == faults < MaxFaults /\ faults' = faults + 1

-----------------------------------------------------------------------------
\* The master.

\* Starter::onOpen for a slave, StartNodeStrategy::addSlave and
\* Starter::startServer.  A slave that is in _slaves trips SLASSERT(false) there.
SlaveOpen(s) ==
  /\ masterUp
  /\ s \in slaveUp \ linked /\ toSlave[s] = <<>>
  /\ linked' = linked \cup {s}
  /\ slaves' = slaves \cup {s}
  /\ IF status = "notStart"
     THEN /\ status' = "starting"
          /\ timer' = [t \in Type |-> "delayed"]
     ELSE UNCHANGED <<status, timer>>
  /\ UNCHANGED <<masterUp, group, online, load, toSlave, machines, history>>

\* StartNodeStrategy::choose: the slave a type is bound to, or else the one with
\* the lowest score; which one that is is left open.
Choices(t) == IF Forced[t] # NoSlave THEN {Forced[t]} ELSE slaves

\* Starter::startNode for the nodes of type t with some ids, each on a slave that
\* is chosen for it.  choose enters a slave that the type is bound to into _slaves
\* whether it is connected or not; Harbor::send drops what is for one that is not.
StartNodes(t, ids) ==
  \E pick \in [ids -> Choices(t)] :
    LET batch(s) == {<<t, i>> : i \in {j \in ids : pick[j] = s}}
    IN  /\ slaves' = slaves \cup {pick[i] : i \in ids}
        /\ toSlave' = [s \in Slave |-> IF s \in linked /\ batch(s) # {}
                                       THEN Append(toSlave[s], Start(batch(s)))
                                       ELSE toSlave[s]]
        /\ lost' = lost \cup UNION {batch(s) : s \in Slave \ linked}

\* Starter::onNodeTimerStart: the delay of the type is over.
NodeTimerStart(t) ==
  /\ masterUp /\ timer[t] = "delayed"
  /\ timer' = [timer EXCEPT ![t] = "running"]
  /\ group' = [group EXCEPT ![t] = Min[t]]
  /\ StartNodes(t, 1 .. Min[t])
  /\ UNCHANGED <<masterUp, status, online, load, linked, machines, asked, early, stopped, masters,
                 faults>>

\* CapacitySubscriber::checkOverLoad.
CheckOverLoad(t, overload) ==
  Sets!MapThenSumSet(LAMBDA i : load[<<t, i>>], 1 .. Max[t]) > overload

\* Mistake: the node that was started is not counted.
NodeTimerUncounted(t) ==
  /\ masterUp /\ timer[t] = "running"
  /\ group[t] < Max[t] /\ CheckOverLoad(t, Rate[t] * group[t])
  /\ StartNodes(t, {group[t] + 1})
  /\ UNCHANGED <<masterUp, status, timer, group, online, load, linked, machines, asked, early,
                 stopped, masters, faults>>

\* Starter::onNodeTimer: the interval of the timer is over.
NodeTimer(t) ==
  /\ masterUp /\ timer[t] = "running"
  /\ group[t] < Max[t] /\ CheckOverLoad(t, Rate[t] * group[t])
  /\ group' = [group EXCEPT ![t] = @ + 1]
  /\ StartNodes(t, {group[t] + 1})
  /\ UNCHANGED <<masterUp, status, timer, online, load, linked, machines, asked, early, stopped,
                 masters, faults>>

\* The processes of node n that run on the machine of slave s, and everywhere.
Running(s, n) == stray[s][n] + (IF child[s][n] = "runs" THEN 1 ELSE 0)
Copies(n) == Sets!MapThenSumSet(LAMBDA s : Running(s, n), Slave)
Runs(n)   == \E s \in Slave : child[s][n] = "runs" \/ stray[s][n] > 0

\* CapacitySubscriber::nodeLoadReport.  The entry stays when the node dies.  Only
\* the loads of types that may grow are ever compared.
NodeLoadReport(n, l) ==
  /\ n \in online /\ Max[n[1]] > Min[n[1]]
  /\ load' = [load EXCEPT ![n] = l]
  /\ UNCHANGED <<masterUp, status, timer, group, online, slaves, wire, machines, history>>

\* Starter::testStarted: the last node of each type is not looked at.
TestStarted(nodes) ==
  \A t \in Type : \A i \in 1 .. Max[t] : i < group[t] => <<t, i>> \in nodes

\* Starter::onOpen for a node that is no slave.
NodeOpen(n) ==
  /\ masterUp
  /\ n \notin online /\ Runs(n)
  /\ online' = online \cup {n}
  /\ status' = (IF TestStarted(online') THEN "started" ELSE status)
  /\ UNCHANGED <<masterUp, timer, group, slaves, load, wire, machines, history>>

\* Starter::onClose: the node is gone, or its connection breaks.
NodeClose(n) ==
  /\ n \in online
  /\ online' = online \ {n}
  /\ UNCHANGED <<masterUp, status, timer, group, slaves, load, wire, machines, history>>

Broadcast == [s \in Slave |-> IF s \in linked THEN Append(toSlave[s], Stop) ELSE toSlave[s]]

\* Mistake: only the slaves are told, the master's own timers go on.
PreShutDownSlavesOnly ==
  /\ masterUp /\ ~asked
  /\ asked' = TRUE /\ early' = (status = "notStart")
  /\ toSlave' = Broadcast
  /\ UNCHANGED <<master, linked, machines, stopped, lost, masters, faults>>

\* Starter::preShutDown.  killTimer does nothing to a timer that was not started,
\* onNodeTimerEnd releases the others.
PreShutDown ==
  /\ masterUp /\ ~asked
  /\ asked' = TRUE /\ early' = (status = "notStart")
  /\ timer' = [t \in Type |-> IF timer[t] = "idle" THEN "idle" ELSE "gone"]
  /\ toSlave' = Broadcast
  /\ UNCHANGED <<masterUp, status, group, online, slaves, load, linked, machines, stopped, lost,
                 masters, faults>>

-----------------------------------------------------------------------------
\* The slaves.

\* Slave::openNewNode and Slave::startNewNode.  For a node that is in _cmds another
\* process is started and forgotten; a new one takes its ports, is started and gets
\* a timer, or is given up when there are no ports left.
OpenNewNode(s, n) ==
  \/ /\ child[s][n] # "none"
     /\ \/ stray' = [stray EXCEPT ![s][n] = @ + 1] /\ UNCHANGED faults
        \/ Fault /\ UNCHANGED stray
     /\ UNCHANGED <<child, timers, ports, lost>>
  \/ /\ child[s][n] = "none" /\ ports[s] = 0
     /\ lost' = lost \cup {n}
     /\ UNCHANGED <<child, timers, stray, ports, faults>>
  \/ /\ child[s][n] = "none" /\ ports[s] > 0
     /\ ports' = [ports EXCEPT ![s] = @ - 1]
     /\ timers' = [timers EXCEPT ![s] = @ \cup {n}]
     /\ \/ child' = [child EXCEPT ![s][n] = "runs"] /\ UNCHANGED faults
        \/ child' = [child EXCEPT ![s][n] = "failed"] /\ Fault
     /\ UNCHANGED <<stray, lost>>

\* A message of the batch at the head of the queue is read.
ReadStart(s) ==
  /\ toSlave[s] # <<>> /\ Head(toSlave[s]) # Stop
  /\ \E n \in Head(toSlave[s]).nodes :
       LET rest == Head(toSlave[s]).nodes \ {n}
       IN  /\ toSlave' = [toSlave EXCEPT ![s] = IF rest = {} THEN Tail(@)
                                                ELSE <<Start(rest)>> \o Tail(@)]
           /\ OpenNewNode(s, n)
  /\ UNCHANGED <<master, linked, slaveUp, asked, early, stopped, masters>>

\* Slave::stopNodes.
ReadStop(s) ==
  /\ toSlave[s] # <<>> /\ Head(toSlave[s]) = Stop
  /\ toSlave' = [toSlave EXCEPT ![s] = Tail(@)]
  /\ timers' = [timers EXCEPT ![s] = {}]
  /\ stopped' = stopped \cup {s}
  /\ UNCHANGED <<master, linked, slaveUp, child, stray, ports, asked, early, lost, masters,
                 faults>>

\* Mistake: a process that could not be forked is not tried again.
CheckNodeExited(s, n) ==
  /\ n \in timers[s] /\ child[s][n] = "exited"
  /\ \/ child' = [child EXCEPT ![s][n] = "runs"] /\ UNCHANGED faults
     \/ child' = [child EXCEPT ![s][n] = "failed"] /\ Fault
  /\ UNCHANGED <<master, wire, slaveUp, timers, stray, ports, asked, early, stopped, lost,
                 masters>>

\* CheckNodeTimer::onTime: waitpid finds the process gone, or there is none.
CheckNode(s, n) ==
  /\ n \in timers[s] /\ child[s][n] \in {"exited", "failed"}
  /\ \/ child' = [child EXCEPT ![s][n] = "runs"] /\ UNCHANGED faults
     \/ child' = [child EXCEPT ![s][n] = "failed"] /\ Fault
  /\ UNCHANGED <<master, wire, slaveUp, timers, stray, ports, asked, early, stopped, lost,
                 masters>>

-----------------------------------------------------------------------------
\* What goes wrong.

\* A node's process dies.
ChildExit(s, n) ==
  /\ Fault
  /\ \/ child[s][n] = "runs" /\ child' = [child EXCEPT ![s][n] = "exited"]
        /\ UNCHANGED stray
     \/ stray[s][n] > 0 /\ stray' = [stray EXCEPT ![s][n] = @ - 1]
        /\ UNCHANGED child
  /\ UNCHANGED <<master, wire, slaveUp, timers, ports, asked, early, stopped, lost, masters>>

Ordered(s) == UNION {toSlave[s][i].nodes : i \in DOMAIN toSlave[s]}

\* The connection of a slave breaks, with what was on its way.
Reset(s) ==
  /\ Fault
  /\ s \in linked
  /\ linked' = linked \ {s}
  /\ toSlave' = [toSlave EXCEPT ![s] = <<>>]
  /\ lost' = lost \cup Ordered(s)
  /\ UNCHANGED <<master, machines, asked, early, stopped, masters>>

\* A slave dies; its children go on without it.
SlaveCrash(s) ==
  /\ Fault
  /\ s \in slaveUp
  /\ slaveUp' = slaveUp \ {s}
  /\ linked' = linked \ {s}
  /\ toSlave' = [toSlave EXCEPT ![s] = <<>>]
  /\ lost' = lost \cup Ordered(s) \cup {n \in Node : child[s][n] # "none"}
  /\ stray' = [stray EXCEPT ![s] = [n \in Node |-> Running(s, n)]]
  /\ child' = [child EXCEPT ![s] = NoChild]
  /\ timers' = [timers EXCEPT ![s] = {}]
  /\ ports' = [ports EXCEPT ![s] = Ports]
  /\ stopped' = stopped \ {s}
  /\ UNCHANGED <<master, asked, early, masters>>

SlaveRestart(s) ==
  /\ s \notin slaveUp
  /\ slaveUp' = slaveUp \cup {s}
  /\ UNCHANGED <<master, wire, child, timers, stray, ports, history>>

\* The master dies.  What it had sent is lost or still arrives.
MasterCrash ==
  /\ Fault
  /\ masterUp
  /\ masterUp' = FALSE /\ status' = "notStart"
  /\ timer' = [t \in Type |-> "idle"]
  /\ group' = [t \in Type |-> 0]
  /\ online' = {} /\ slaves' = {}
  /\ load' = [n \in Node |-> 0]
  /\ linked' = {}
  /\ toSlave' \in {toSlave, [s \in Slave |-> <<>>]}
  /\ lost' = {}
  /\ masters' = masters + 1
  /\ UNCHANGED <<machines, asked, early, stopped>>

\* The operator starts it again.  It orders everything anew, unless a node that still
\* runs opens before any slave does: then it takes the cluster for started.
MasterRestart ==
  /\ ~masterUp
  /\ masterUp' = TRUE
  /\ UNCHANGED <<status, timer, group, online, slaves, load, wire, machines, history>>

-----------------------------------------------------------------------------
Next == \/ PreShutDown \/ MasterCrash \/ MasterRestart
        \/ \E t \in Type : NodeTimerStart(t) \/ NodeTimer(t)
        \/ \E n \in Node : \/ NodeOpen(n) \/ NodeClose(n)
                           \/ \E l \in Load : NodeLoadReport(n, l)
        \/ \E s \in Slave : \/ SlaveOpen(s) \/ ReadStart(s) \/ ReadStop(s)
                            \/ Reset(s) \/ SlaveCrash(s) \/ SlaveRestart(s)
                            \/ \E n \in Node : CheckNode(s, n) \/ ChildExit(s, n)

Spec == Init /\ [][Next]_vars

\* Slaves connect, messages arrive and timers fire.  Nobody has to restart a master or
\* a slave, and no node has to connect.
FairSpec ==
  /\ Spec
  /\ \A t \in Type : WF_vars(NodeTimerStart(t) \/ NodeTimer(t))
  /\ \A s \in Slave : /\ WF_vars(SlaveOpen(s) \/ ReadStart(s) \/ ReadStop(s))
                      /\ \A n \in Node : WF_vars(CheckNode(s, n))

-----------------------------------------------------------------------------
TypeOK ==
  /\ masterUp \in BOOLEAN
  /\ status \in {"notStart", "starting", "started"}
  /\ timer \in [Type -> {"idle", "delayed", "running", "gone"}]
  /\ \A t \in Type : /\ status = "notStart" => timer[t] = "idle"
                     /\ status = "starting" => timer[t] # "idle"
  /\ group \in [Type -> Nat] /\ \A t \in Type : group[t] <= Max[t]
  /\ online \subseteq Node /\ slaves \subseteq Slave
  /\ load \in [Node -> Nat]
  /\ linked \subseteq slaveUp /\ slaveUp \subseteq Slave
  /\ toSlave \in [Slave -> Seq(Message)]
  /\ \A s \in Slave \ slaveUp : toSlave[s] = <<>>
  /\ child \in [Slave -> [Node -> {"none", "runs", "exited", "failed"}]]
  /\ timers \in [Slave -> SUBSET Node]
  /\ \A s \in Slave : \A n \in timers[s] : child[s][n] # "none"
  /\ stray \in [Slave -> [Node -> Nat]]
  /\ ports \in [Slave -> 0 .. Ports]
  /\ asked \in BOOLEAN /\ early \in BOOLEAN
  /\ stopped \subseteq slaveUp /\ lost \subseteq Node
  /\ faults \in 0 .. MaxFaults /\ masters \in 0 .. faults

\* A node never has two processes at a time, whatever dies and is restarted, unless
\* the master was: a new one orders every node again, and a slave that knows the
\* node starts a second process (Slave::openNewNode).
OneProcess == \A n \in Node : Copies(n) <= 1 + masters

\* A slave that has read MASTER_MSG_STOP_NODES starts no process any more, neither
\* by a timer of its own nor by a message that came later - unless the shutdown was
\* asked for before the first slave connected, when Starter::preShutDown finds no
\* timer to kill, or a new master came that knows nothing of it.
NothingAfterStop ==
  [][\A s \in stopped, n \in Node :
        early \/ masters > 0 \/ s \notin slaveUp' \/ Running(s, n)' <= Running(s, n)]_vars

\* A new master was reached by a node before any slave: Starter::onOpen has set
\* STAT_STARTED, and no slave that opens later makes it call startServer.
NeverOrders == status = "started" /\ \A t \in Type : timer[t] = "idle"

\* As long as the master and the slaves run, or come back, and no shutdown is asked
\* for, every node of the minimum runs in the end and is brought back whenever it
\* dies - except those whose start message found no connection, was lost with one,
\* or found no ports, those whose slave died, and those that no slave looks after
\* when a new master takes the cluster for started.
WantedNodesRun ==
  <>[]masterUp /\ <>[](slaveUp = Slave) =>
     \A t \in Type : \A i \in 1 .. Min[t] :
        <>[](\/ asked \/ <<t, i>> \in lost \/ Runs(<<t, i>>)
             \/ NeverOrders /\ \A s \in Slave : <<t, i>> \notin timers[s])
=============================================================================
