--------------------------- MODULE ClusterShutdown ---------------------------
(***************************************************************************)
(* The stepwise shutdown of a cluster.  The master's ShutDown module       *)
(* (src/src/logic/monitor/ShutDown.cpp) walks through the <shutdown> steps *)
(* of server_conf.xml: a NOTIFY step asks nodes to finish some work and    *)
(* waits for their acknowledgements, a CLOSE step asks nodes to exit and   *)
(* waits for their connections to close.  Before the first step            *)
(* Starter::preShutDown tells the slaves to stop restarting processes;     *)
(* until that message arrives, a slave restarts whatever exits             *)
(* (Slave::CheckNodeTimer::onTime).                                        *)
(*                                                                         *)
(* Every node has one TCP connection to the master: a FIFO queue each way, *)
(* and a close the master sees after everything the node sent.  The peer   *)
(* sees a process' connection close before a restarted process connects    *)
(* (the restart comes NODE_CHECK_INTERVAL and a connect delay later).      *)
(***************************************************************************)
EXTENDS Naturals, Sequences, FiniteSets

CONSTANTS
  Node,         \* every process but the master
  NodeType,     \* their types
  TypeOf,       \* Node -> NodeType
  SlaveType,    \* the type of the slaves
  Home,         \* node that is no slave -> the slave that started it
  Steps,        \* _allSteps: [close, all, random], the last two sets of types
  MaxRequests,  \* how often an operator asks for the shutdown
  MaxCrashes    \* how many processes die by themselves

Slaves == {n \in Node : TypeOf[n] = SlaveType}

ASSUME ShutdownAssumption ==
  /\ TypeOf \in [Node -> NodeType]
  /\ SlaveType \in NodeType
  /\ Home \in [Node \ Slaves -> Slaves]
  /\ Steps # <<>>
  /\ Steps \in Seq([close : BOOLEAN, all : SUBSET NodeType, random : SUBSET NodeType])
  /\ \A i \in DOMAIN Steps : Steps[i].all \cap Steps[i].random = {}
  /\ MaxRequests \in Nat /\ MaxCrashes \in Nat

VARIABLES
  \* the master
  kernel,        \* "running", "stopping" after IKernel::shutdown, "gone"
  shutdowning,   \* _shutdowning
  currStep,      \* _currStep + 1: 0 before the first step
  allNodes,      \* _allNodes: the nodes whose sessions are open
  currOptNodes,  \* _currOptNodes: the nodes the current step waits for
  \* the connections to the master
  link,          \* node -> "none", "open", or "fin" once the process is gone
  toNode,        \* node -> messages on their way to it
  toMaster,      \* node -> acknowledged steps on their way to the master
  \* the nodes
  up,            \* the processes that run
  quit,          \* those whose kernel is shutting down
  work,          \* node -> notified steps whose work is unfinished
  stopped,       \* the slaves whose CheckNodeTimers were killed
  \* history and bounds
  asked,         \* running node -> steps it was asked to take part in
  acked,         \* running node -> notified steps it finished
  late,          \* a process was not connected when the shutdown was asked for, or
                 \* was restarted while MASTER_MSG_STOP_NODES was on its way
  requests, crashes

master  == <<kernel, shutdowning, currStep, allNodes, currOptNodes>>
wire    == <<link, toNode, toMaster>>
procs   == <<up, quit, work, stopped>>
history == <<asked, acked, late, requests, crashes>>
vars    == <<master, wire, procs, history>>

Ask(s) == [type |-> "ask", step |-> s]
StopNodes == [type |-> "stopNodes"]

Init == /\ kernel = "running" /\ shutdowning = FALSE /\ currStep = 0
        /\ allNodes = {} /\ currOptNodes = {}
        /\ link = [n \in Node |-> "none"]
        /\ toNode = [n \in Node |-> <<>>]
        /\ toMaster = [n \in Node |-> <<>>]
        /\ up = Node /\ quit = {} /\ stopped = {}
        /\ work = [n \in Node |-> {}]
        /\ asked = [n \in Node |-> {}]
        /\ acked = [n \in Node |-> {}]
        /\ late = FALSE /\ requests = 0 /\ crashes = 0

-----------------------------------------------------------------------------
\* The master's steps.

OfTypes(types, nodes) == {n \in nodes : TypeOf[n] \in types}

\* The node sets startNewStep may fill in for step s: the connected nodes of the
\* "all" types replace what was there, a random node of each "random" type is
\* added.
Selections(s, opt, nodes) ==
  {(opt \ OfTypes(Steps[s].all, opt)) \cup OfTypes(Steps[s].all, nodes) \cup picks :
     picks \in {p \in SUBSET OfTypes(Steps[s].random, nodes) :
                  \A t \in Steps[s].random :
                     Cardinality(OfTypes({t}, p))
                       = (IF OfTypes({t}, nodes) = {} THEN 0 ELSE 1)}}

\* The first step after s that finds a node to ask; checkNextStep passes over
\* the others at once.
FirstBusy(s, nodes) ==
  LET busy == {i \in s + 1 .. Len(Steps) :
                 OfTypes(Steps[i].all \cup Steps[i].random, nodes) # {}}
  IN  IF busy = {} THEN Len(Steps) + 1 ELSE CHOOSE i \in busy : \A k \in busy : i <= k

\* sendNewStep: every node of the step is asked, those left over included.
\* messages is what the nodes' queues hold already.
EnterStep(s, opt, messages) ==
  /\ currStep' = s
  /\ currOptNodes' = opt
  /\ toNode' = [n \in Node |-> IF n \in opt /\ link[n] = "open"
                               THEN Append(messages[n], Ask(s)) ELSE messages[n]]
  /\ asked' = [n \in Node |-> IF n \in opt /\ link[n] = "open"
                              THEN asked[n] \cup {s} ELSE asked[n]]
  /\ UNCHANGED kernel

\* Mistake: the step is counted up before it is compared with the last one.
FinishStepsCounted(s, opt, messages) ==
  /\ currStep' = s + 1
  /\ currOptNodes' = opt
  /\ kernel' = "stopping"
  /\ toNode' = messages
  /\ UNCHANGED asked

\* startNewStep past the last step.
FinishSteps(s, opt, messages) ==
  /\ currStep' = s
  /\ currOptNodes' = opt
  /\ kernel' = "stopping"
  /\ toNode' = messages
  /\ UNCHANGED asked

\* startNewStep after step s with opt left to wait for, and the steps that
\* checkNextStep starts in turn while nobody is to be waited for.
StartNewStep(s, opt, nodes, messages) ==
  IF s = Len(Steps)
  THEN FinishSteps(s, opt, messages)
  ELSE \E sel \in Selections(s + 1, opt, nodes) :
         IF sel # {}
         THEN EnterStep(s + 1, sel, messages)
         ELSE LET next == FirstBusy(s + 1, nodes)
              IN  IF next > Len(Steps)
                  THEN FinishSteps(Len(Steps), {}, messages)
                  ELSE \E sel2 \in Selections(next, {}, nodes) :
                         EnterStep(next, sel2, messages)

\* Mistake: any acknowledgement or close completes the step.
CheckNextStepAnyway(opt, nodes) == StartNewStep(currStep, opt, nodes, toNode)

\* checkNextStep with opt left to wait for.
CheckNextStep(opt, nodes) ==
  IF opt = {}
  THEN StartNewStep(currStep, opt, nodes, toNode)
  ELSE /\ currOptNodes' = opt
       /\ UNCHANGED <<kernel, currStep, toNode, asked>>

MasterRuns == kernel # "gone"

\* ShutDown::onOpen: the node's report has arrived.
OnOpen(n) ==
  /\ MasterRuns
  /\ n \in up \ quit /\ link[n] = "none"
  /\ allNodes' = allNodes \cup {n}
  /\ link' = [link EXCEPT ![n] = "open"]
  /\ UNCHANGED <<kernel, shutdowning, currStep, currOptNodes, toNode, toMaster, procs,
                 history>>

\* Mistake: a closed node does not complete its step.
OnCloseUnchecked(n) ==
  /\ MasterRuns
  /\ link[n] = "fin" /\ toMaster[n] = <<>>
  /\ link' = [link EXCEPT ![n] = "none"]
  /\ allNodes' = allNodes \ {n}
  /\ currOptNodes' = currOptNodes \ {n}
  /\ UNCHANGED <<kernel, shutdowning, currStep, toNode, toMaster, procs, history>>

\* ShutDown::onClose: the connection of a process that is gone closes.
OnClose(n) ==
  /\ MasterRuns
  /\ link[n] = "fin" /\ toMaster[n] = <<>>
  /\ link' = [link EXCEPT ![n] = "none"]
  /\ allNodes' = allNodes \ {n}
  /\ IF shutdowning /\ Steps[currStep].close
     THEN CheckNextStep(currOptNodes \ {n}, allNodes \ {n})
     ELSE UNCHANGED <<kernel, currStep, currOptNodes, toNode, asked>>
  /\ UNCHANGED <<shutdowning, toMaster, procs, acked, late, requests, crashes>>

\* Mistake: the slaves are not told to stop restarting what exits.
TerminateOnly ==
  /\ MasterRuns /\ requests < MaxRequests
  /\ requests' = requests + 1
  /\ shutdowning' = TRUE
  /\ late' = (late \/ \E n \in up : link[n] # "open")
  /\ StartNewStep(currStep, currOptNodes, allNodes, toNode)
  /\ UNCHANGED <<allNodes, link, toMaster, procs, acked, crashes>>

\* ShutDown::terminate, asked for by a monitor client: EVENT_PRE_SHUTDOWN makes
\* Starter::preShutDown broadcast MASTER_MSG_STOP_NODES, then the first step
\* starts.  Nothing but an assertion keeps a second request out.
Terminate ==
  /\ MasterRuns /\ requests < MaxRequests
  /\ requests' = requests + 1
  /\ shutdowning' = TRUE
  /\ late' = (late \/ \E n \in up : link[n] # "open")
  /\ StartNewStep(currStep, currOptNodes, allNodes,
                  [n \in Node |-> IF n \in Slaves /\ link[n] = "open"
                                  THEN Append(toNode[n], StopNodes) ELSE toNode[n]])
  /\ UNCHANGED <<allNodes, link, toMaster, procs, acked, crashes>>

\* ShutDown::onClusterShutdownAck.
OnClusterShutdownAck(n) ==
  /\ MasterRuns
  /\ toMaster[n] # <<>>
  /\ toMaster' = [toMaster EXCEPT ![n] = Tail(@)]
  /\ IF shutdowning /\ Head(toMaster[n]) = currStep /\ ~Steps[currStep].close
     THEN CheckNextStep(currOptNodes \ {n}, allNodes)
     ELSE UNCHANGED <<kernel, currStep, currOptNodes, toNode, asked>>
  /\ UNCHANGED <<shutdowning, allNodes, link, procs, acked, late, requests, crashes>>

\* Kernel::loop ends, the master's process exits.
MasterExit == /\ kernel = "stopping"
              /\ kernel' = "gone"
              /\ UNCHANGED <<shutdowning, currStep, allNodes, currOptNodes, wire, procs,
                             history>>

-----------------------------------------------------------------------------
\* The nodes.

\* ShutDown::onMasterAskShutdown; in a slave also Slave::stopNodes.
OnMessage(n) ==
  /\ n \in up \ quit
  /\ toNode[n] # <<>>
  /\ toNode' = [toNode EXCEPT ![n] = Tail(@)]
  /\ LET m == Head(toNode[n])
     IN  \/ /\ m.type = "ask" /\ Steps[m.step].close
            /\ quit' = quit \cup {n}
            /\ UNCHANGED <<work, stopped>>
         \/ /\ m.type = "ask" /\ ~Steps[m.step].close
            /\ work' = [work EXCEPT ![n] = @ \cup {m.step}]
            /\ UNCHANGED <<quit, stopped>>
         \/ /\ m.type = "stopNodes"
            /\ stopped' = stopped \cup {n}
            /\ UNCHANGED <<quit, work>>
  /\ UNCHANGED <<master, link, toMaster, up, history>>

\* A module of the node finished what EVENT_SHUTDOWN_NOTIFY asked it for and raises
\* EVENT_SHUTDOWN_COMPLETE: ShutDown::onClusterShutdownComplete.  The modules in
\* logic never do: this action is what the event is there for.
OnClusterShutdownComplete(n, s) ==
  /\ n \in up \ quit
  /\ s \in work[n]
  /\ work' = [work EXCEPT ![n] = @ \ {s}]
  /\ acked' = [acked EXCEPT ![n] = @ \cup {s}]
  /\ toMaster' = [toMaster EXCEPT ![n] =
                    IF link[n] = "open" THEN Append(@, s) ELSE @]
  /\ UNCHANGED <<master, link, toNode, up, quit, stopped, asked, late, requests, crashes>>

\* The process of n is gone, and with it what it had not read.
Gone(n) == /\ up' = up \ {n}
           /\ quit' = quit \ {n}
           /\ link' = [link EXCEPT ![n] = IF @ = "open" THEN "fin" ELSE @]
           /\ toNode' = [toNode EXCEPT ![n] = <<>>]
           /\ work' = [work EXCEPT ![n] = {}]
           /\ asked' = [asked EXCEPT ![n] = {}]
           /\ acked' = [acked EXCEPT ![n] = {}]
           /\ UNCHANGED <<master, stopped, late, requests>>

Exit(n) == /\ n \in quit
           /\ Gone(n)
           /\ UNCHANGED <<toMaster, crashes>>

\* A process dies; what it sent last may be lost with it.
Crash(n) == /\ n \in up /\ crashes < MaxCrashes
            /\ crashes' = crashes + 1
            /\ Gone(n)
            /\ toMaster' \in {toMaster, [toMaster EXCEPT ![n] = <<>>]}

\* Slave::CheckNodeTimer::onTime finds the process gone and starts it again.
Restart(n) ==
  /\ n \in Node \ (Slaves \cup up)
  /\ Home[n] \in up \ stopped
  /\ up' = up \cup {n}
  /\ late' = (late \/ \E i \in DOMAIN toNode[Home[n]] : toNode[Home[n]][i] = StopNodes)
  /\ UNCHANGED <<master, wire, quit, work, stopped, asked, acked, requests, crashes>>

-----------------------------------------------------------------------------
Next == \/ Terminate \/ MasterExit
        \/ \E n \in Node : \/ OnOpen(n) \/ OnClose(n) \/ OnClusterShutdownAck(n)
                           \/ OnMessage(n) \/ Exit(n) \/ Crash(n) \/ Restart(n)
                           \/ \E s \in DOMAIN Steps : OnClusterShutdownComplete(n, s)

Spec == Init /\ [][Next]_vars

\* TCP delivers, event loops run, and a kernel told to shut down exits.  Nobody has
\* to ask for the shutdown or to finish the work of a NOTIFY step, and nothing has
\* to crash.
FairSpec ==
  /\ Spec
  /\ \A n \in Node :
       /\ WF_vars(OnOpen(n)) /\ WF_vars(OnClose(n)) /\ WF_vars(OnClusterShutdownAck(n))
       /\ WF_vars(OnMessage(n)) /\ WF_vars(Exit(n)) /\ WF_vars(Restart(n))

-----------------------------------------------------------------------------
TypeOK ==
  /\ kernel \in {"running", "stopping", "gone"}
  /\ shutdowning \in BOOLEAN /\ late \in BOOLEAN
  /\ currStep \in 0 .. Len(Steps)
  /\ allNodes \subseteq Node /\ currOptNodes \subseteq Node
  /\ link \in [Node -> {"none", "open", "fin"}]
  /\ toNode \in [Node -> Seq({StopNodes} \cup {Ask(s) : s \in DOMAIN Steps})]
  /\ toMaster \in [Node -> Seq(DOMAIN Steps)]
  /\ up \subseteq Node /\ quit \subseteq up /\ stopped \subseteq Slaves
  /\ work \in [Node -> SUBSET DOMAIN Steps]
  /\ asked \in [Node -> SUBSET DOMAIN Steps]
  /\ acked \in [Node -> SUBSET DOMAIN Steps]
  /\ requests \in 0 .. MaxRequests /\ crashes \in 0 .. MaxCrashes

\* The order of the steps is kept across the cluster: when the master is at a
\* later step, every node that was asked to close in an earlier one is gone and
\* every node that was notified in an earlier one has finished its work.  This and
\* ShutdownCompletes need MaxRequests = 1: a second request starts the next step,
\* whatever is open (ShutDown::terminate only asserts that there is none).
StepBarrier ==
  \A n \in Node : \A s \in asked[n] :
     s < currStep \/ kernel # "running" => ~Steps[s].close /\ s \in acked[n]

\* If no process started or connected late, and every slave had read the
\* MASTER_MSG_STOP_NODES before one of its processes exited, then a finished shutdown leaves no
\* process of a type that some step closes.
NothingLeftBehind ==
  kernel # "running" /\ ~late =>
     \A n \in up : \A s \in DOMAIN Steps :
        Steps[s].close => TypeOf[n] \notin Steps[s].all

\* A NOTIFY step waits for a node that cannot answer: the process that was asked
\* is gone, and onClose strikes off nodes in CLOSE steps only.
Notifying == shutdowning /\ currStep > 0 /\ ~Steps[currStep].close
Stalled   == Notifying /\ \E n \in currOptNodes : currStep \notin asked[n]

\* It waits for a node that was notified and whose modules have not finished.
Unfinished == Notifying /\ \E n \in currOptNodes : currStep \in work[n]

\* Once asked for, the shutdown comes to its end, or it waits for good at a NOTIFY
\* step for a node that was notified and has gone away or never raises
\* EVENT_SHUTDOWN_COMPLETE: nothing else keeps it, neither a node that closes or dies,
\* whenever that is, nor messages that cross.
ShutdownCompletes ==
  <>shutdowning => <>(kernel # "running") \/ <>[](Stalled \/ Unfinished)
=============================================================================
