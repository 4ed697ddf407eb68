---------------------------- MODULE StartUp_proofs ----------------------------
(***************************************************************************)
(* Proofs about StartUp: its types, that a slave that has read the stop    *)
(* message starts nothing any more, and that a node gets at most one       *)
(* process for each master there has been, for any number of types, nodes, *)
(* slaves and faults.                                                      *)
(***************************************************************************)
EXTENDS StartUp, FiniteSetTheorems, WellFoundedInduction, TLAPS

\* The first master has been told to stop in time and still runs.
InTime == masters = 0 /\ ~early

\* What the master of an InTime shutdown has done: it has no timer left that
\* starts nodes, and the stop message is the last one it sent to each slave.  A
\* slave that has read it has no message left and no timer.
StopIsLast ==
  InTime =>
    /\ asked => status # "notStart" /\ \A t \in Type : timer[t] \in {"idle", "gone"}
    /\ \A s \in stopped : asked /\ timers[s] = {} /\ toSlave[s] = <<>>
    /\ \A s \in Slave : \A i \in DOMAIN toSlave[s] :
          toSlave[s][i] = Stop => asked /\ i = Len(toSlave[s])

\* The inductive invariant.
IInv == TypeOK /\ (early => asked) /\ StopIsLast

-----------------------------------------------------------------------------
LEMMA NodeElement ==
  \A t \in Type : \A i \in 1 .. Max[t] : <<t, i>> \in Node
BY DEF Node

\* A message is the stop message exactly if it is of type "stop", and a batch is
\* a set of nodes.
LEMMA Messages ==
  /\ Stop \in Message
  /\ \A batch \in (SUBSET Node) \ {{}} : Start(batch) \in Message /\ Start(batch) # Stop
  /\ \A m \in Message : m.nodes \in SUBSET Node /\ (m # Stop => m.nodes # {})
BY DEF Message, Start, Stop

\* Starting nodes keeps the types of what it changes.
LEMMA StartNodesType ==
  ASSUME TypeOK, NEW t \in Type, NEW ids \in SUBSET (1 .. Max[t]), StartNodes(t, ids)
  PROVE  /\ slaves' \subseteq Slave
         /\ toSlave' \in [Slave -> Seq(Message)]
         /\ \A s \in Slave \ slaveUp : toSlave'[s] = <<>>
         /\ lost' \subseteq Node
<1>1. PICK pick \in [ids -> Choices(t)] :
        LET batch(s) == {<<t, i>> : i \in {j \in ids : pick[j] = s}}
        IN  /\ slaves' = slaves \cup {pick[i] : i \in ids}
            /\ toSlave' = [s \in Slave |-> IF s \in linked /\ batch(s) # {}
                                           THEN Append(toSlave[s], Start(batch(s)))
                                           ELSE toSlave[s]]
            /\ lost' = lost \cup UNION {batch(s) : s \in Slave \ linked}
  BY DEF StartNodes
<1> DEFINE batch(s) == {<<t, i>> : i \in {j \in ids : pick[j] = s}}
<1>2. Choices(t) \subseteq Slave
  BY StartUpAssumption DEF Choices, TypeOK
<1>3. \A s \in Slave : batch(s) \in SUBSET Node
  BY NodeElement
<1>4. slaves' \subseteq Slave
  BY <1>1, <1>2 DEF TypeOK
<1>5. lost' \subseteq Node
  BY <1>1, <1>3 DEF TypeOK
<1>6. \A s \in Slave : batch(s) # {} => Start(batch(s)) \in Message
  BY <1>3, Messages
<1>7. toSlave' \in [Slave -> Seq(Message)]
  <2> HIDE DEF batch
  <2>1. toSlave' = [s \in Slave |-> IF s \in linked /\ batch(s) # {}
                                    THEN Append(toSlave[s], Start(batch(s)))
                                    ELSE toSlave[s]]
    BY <1>1 DEF batch
  <2>2. \A s \in Slave : toSlave[s] \in Seq(Message)
    BY DEF TypeOK
  <2> QED
    BY <2>1, <2>2, <1>6
<1>8. \A s \in Slave \ slaveUp : toSlave'[s] = <<>>
  BY <1>1 DEF TypeOK
<1> QED
  BY <1>4, <1>5, <1>7, <1>8

\* What the assignment of one entry of a two-dimensional function changes.
LEMMA SetEntry ==
  ASSUME NEW A, NEW B, NEW V, NEW f \in [A -> [B -> V]], NEW a \in A, NEW b \in B,
         NEW v \in V, NEW g, g = [f EXCEPT ![a][b] = v]
  PROVE  /\ g \in [A -> [B -> V]]
         /\ \A x \in A, y \in B : g[x][y] = IF x = a /\ y = b THEN v ELSE f[x][y]
<1>1. g = [f EXCEPT ![a] = [f[a] EXCEPT ![b] = v]]
  OBVIOUS
<1>2. [f[a] EXCEPT ![b] = v] \in [B -> V]
  OBVIOUS
<1>3. g \in [A -> [B -> V]]
  BY <1>1, <1>2
<1>4. \A x \in A, y \in B : g[x][y] = IF x = a /\ y = b THEN v ELSE f[x][y]
  BY <1>1
<1> QED
  BY <1>3, <1>4

ChildState == {"none", "runs", "exited", "failed"}

-----------------------------------------------------------------------------
LEMMA TypeInit == Init => TypeOK
<1> SUFFICES ASSUME Init PROVE TypeOK
  OBVIOUS
<1>1. toSlave \in [Slave -> Seq(Message)]
  BY DEF Init
<1>4. /\ stray \in [Slave -> [Node -> Nat]] /\ timers \in [Slave -> SUBSET Node]
      /\ \A s \in Slave : \A n \in timers[s] : child[s][n] # "none"
  BY DEF Init
<1>2. child \in [Slave -> [Node -> {"none", "runs", "exited", "failed"}]]
  BY DEF Init, NoChild
<1>3. 0 \in 0 .. MaxFaults /\ Ports \in 0 .. Ports /\ 0 \in 0 .. 0
  BY StartUpAssumption
<1>5. /\ timer \in [Type -> {"idle", "delayed", "running", "gone"}]
      /\ \A t \in Type : /\ status = "notStart" => timer[t] = "idle"
                         /\ status = "starting" => timer[t] # "idle"
      /\ status \in {"notStart", "starting", "started"}
  BY DEF Init
<1>6. /\ group \in [Type -> Nat] /\ \A t \in Type : group[t] <= Max[t]
      /\ load \in [Node -> Nat]
  BY StartUpAssumption DEF Init
<1>7. ports \in [Slave -> 0 .. Ports] /\ \A s \in Slave \ slaveUp : toSlave[s] = <<>>
  BY <1>3 DEF Init
<1>8. /\ faults \in 0 .. MaxFaults /\ masters \in 0 .. faults
      /\ masterUp \in BOOLEAN /\ asked \in BOOLEAN /\ early \in BOOLEAN
      /\ online \subseteq Node
      /\ slaves \subseteq Slave /\ linked \subseteq slaveUp /\ slaveUp \subseteq Slave
      /\ stopped \subseteq slaveUp /\ lost \subseteq Node
  BY <1>3 DEF Init
<1> QED
  BY <1>1, <1>2, <1>4, <1>5, <1>6, <1>7, <1>8 DEF TypeOK

\* Every step keeps the types.
LEMMA TypeStep == TypeOK /\ [Next]_vars => TypeOK'
<1> SUFFICES ASSUME TypeOK, [Next]_vars PROVE TypeOK'
  OBVIOUS
<1> USE StartUpAssumption
<1>1. ASSUME NEW s \in Slave, SlaveOpen(s) PROVE TypeOK'
  BY <1>1 DEF SlaveOpen, machines, history, TypeOK
<1>2. ASSUME NEW t \in Type, NodeTimerStart(t) PROVE TypeOK'
  <2>1. 1 .. Min[t] \in SUBSET (1 .. Max[t])
    OBVIOUS
  <2>2. StartNodes(t, 1 .. Min[t])
    BY <1>2 DEF NodeTimerStart
  <2>3. /\ slaves' \subseteq Slave /\ lost' \subseteq Node
        /\ toSlave' \in [Slave -> Seq(Message)]
        /\ \A s \in Slave \ slaveUp : toSlave'[s] = <<>>
    BY <2>1, <2>2, StartNodesType
  <2> QED
    BY <1>2, <2>3 DEF NodeTimerStart, machines, TypeOK
<1>3. ASSUME NEW t \in Type, NodeTimer(t) PROVE TypeOK'
  <2>1. {group[t] + 1} \in SUBSET (1 .. Max[t])
    BY <1>3 DEF NodeTimer, TypeOK
  <2>2. StartNodes(t, {group[t] + 1})
    BY <1>3 DEF NodeTimer
  <2>3. /\ slaves' \subseteq Slave /\ lost' \subseteq Node
        /\ toSlave' \in [Slave -> Seq(Message)]
        /\ \A s \in Slave \ slaveUp : toSlave'[s] = <<>>
    BY <2>1, <2>2, StartNodesType
  <2> QED
    BY <1>3, <2>1, <2>3 DEF NodeTimer, machines, TypeOK
<1>4. ASSUME NEW n \in Node, NEW l \in Load, NodeLoadReport(n, l) PROVE TypeOK'
  BY <1>4 DEF NodeLoadReport, wire, machines, history, TypeOK
<1>17. ASSUME NEW n \in Node, NodeOpen(n) PROVE TypeOK'
  <2>1. /\ status' \in {status, "started"} /\ online' = online \cup {n}
        /\ UNCHANGED <<masterUp, timer, group, slaves, load, wire, machines, history>>
    BY <1>17 DEF NodeOpen
  <2> QED
    BY <2>1 DEF wire, machines, history, TypeOK
<1>18. ASSUME NEW n \in Node, NodeClose(n) PROVE TypeOK'
  BY <1>18 DEF NodeClose, wire, machines, history, TypeOK
<1>5. CASE PreShutDown
  <2>1. toSlave' \in [Slave -> Seq(Message)] /\ \A s \in Slave \ slaveUp : toSlave'[s] = <<>>
    BY <1>5, Messages DEF PreShutDown, Broadcast, TypeOK
  <2> QED
    BY <1>5, <2>1 DEF PreShutDown, machines, TypeOK
<1>6. ASSUME NEW s \in Slave, ReadStart(s) PROVE TypeOK'
  <2>1. PICK n \in Head(toSlave[s]).nodes :
          LET rest == Head(toSlave[s]).nodes \ {n}
          IN  /\ toSlave' = [toSlave EXCEPT ![s] = IF rest = {} THEN Tail(@)
                                                   ELSE <<Start(rest)>> \o Tail(@)]
              /\ OpenNewNode(s, n)
    BY <1>6 DEF ReadStart
  <2> DEFINE rest == Head(toSlave[s]).nodes \ {n}
  <2>2. toSlave[s] \in Seq(Message) /\ toSlave[s] # <<>>
    BY <1>6 DEF ReadStart, TypeOK
  <2>3. Head(toSlave[s]) \in Message /\ Tail(toSlave[s]) \in Seq(Message)
    BY <2>2
  <2>4. n \in Node /\ rest \in SUBSET Node
    BY <2>1, <2>3, Messages
  <2>5. ASSUME rest # {} PROVE <<Start(rest)>> \o Tail(toSlave[s]) \in Seq(Message)
    <3> HIDE DEF rest
    <3>1. Start(rest) \in Message
      BY <2>4, <2>5, Messages
    <3> QED
      BY <2>3, <3>1
  <2>6. toSlave' \in [Slave -> Seq(Message)] /\ \A x \in Slave \ slaveUp : toSlave'[x] = <<>>
    BY <2>1, <2>2, <2>3, <2>5 DEF TypeOK
  <2>7. OpenNewNode(s, n)
    BY <2>1
  <2>8. /\ child' \in [Slave -> [Node -> {"none", "runs", "exited", "failed"}]]
        /\ timers' \in [Slave -> SUBSET Node]
        /\ \A x \in Slave : \A m \in timers'[x] : child'[x][m] # "none"
        /\ stray' \in [Slave -> [Node -> Nat]]
        /\ ports' \in [Slave -> 0 .. Ports]
        /\ lost' \subseteq Node
        /\ faults' \in 0 .. MaxFaults /\ faults' >= faults
    <3>1. CASE /\ child[s][n] # "none"
               /\ \/ stray' = [stray EXCEPT ![s][n] = @ + 1] /\ UNCHANGED faults
                  \/ Fault /\ UNCHANGED stray
               /\ UNCHANGED <<child, timers, ports, lost>>
      <4>1. stray' \in [Slave -> [Node -> Nat]]
        <5>1. CASE stray' = [stray EXCEPT ![s][n] = @ + 1]
          <6>1. stray[s][n] + 1 \in Nat /\ stray \in [Slave -> [Node -> Nat]]
            BY <2>4 DEF TypeOK
          <6>2. stray' = [stray EXCEPT ![s][n] = stray[s][n] + 1]
            BY <5>1
          <6> QED
            BY <2>4, <6>1, <6>2, SetEntry
        <5>2. CASE UNCHANGED stray
          BY <5>2 DEF TypeOK
        <5> QED
          BY <3>1, <5>1, <5>2
      <4>2. faults' \in 0 .. MaxFaults /\ faults' >= faults
        BY <3>1 DEF Fault, TypeOK
      <4> QED
        BY <3>1, <4>1, <4>2 DEF TypeOK
    <3>2. CASE /\ child[s][n] = "none" /\ ports[s] = 0
               /\ lost' = lost \cup {n}
               /\ UNCHANGED <<child, timers, stray, ports, faults>>
      BY <2>4, <3>2 DEF TypeOK
    <3>3. CASE /\ child[s][n] = "none" /\ ports[s] > 0
               /\ ports' = [ports EXCEPT ![s] = @ - 1]
               /\ timers' = [timers EXCEPT ![s] = @ \cup {n}]
               /\ \/ child' = [child EXCEPT ![s][n] = "runs"] /\ UNCHANGED faults
                  \/ child' = [child EXCEPT ![s][n] = "failed"] /\ Fault
               /\ UNCHANGED <<stray, lost>>
      <4>1. ports' \in [Slave -> 0 .. Ports]
        BY <3>3 DEF TypeOK
      <4>2. /\ child' \in [Slave -> [Node -> ChildState]]
            /\ child'[s][n] # "none"
            /\ \A x \in Slave, m \in Node :
                  ~(x = s /\ m = n) => child'[x][m] = child[x][m]
        <5>1. PICK v \in {"runs", "failed"} : child' = [child EXCEPT ![s][n] = v]
          BY <3>3
        <5>2. child \in [Slave -> [Node -> ChildState]] /\ v \in ChildState
          BY DEF TypeOK, ChildState
        <5>3. /\ child' \in [Slave -> [Node -> ChildState]]
              /\ \A x \in Slave, m \in Node :
                    child'[x][m] = IF x = s /\ m = n THEN v ELSE child[x][m]
          BY <2>4, <5>1, <5>2, SetEntry
        <5> QED
          BY <2>4, <5>3
      <4>3. timers' = [timers EXCEPT ![s] = @ \cup {n}] /\ timers \in [Slave -> SUBSET Node]
        BY <3>3 DEF TypeOK
      <4>6. /\ timers' \in [Slave -> SUBSET Node]
            /\ \A x \in Slave : \A m \in timers'[x] : m \in timers[x] \/ (x = s /\ m = n)
        BY <2>4, <4>3
      <4>4. faults' \in 0 .. MaxFaults /\ faults' >= faults
        BY <3>3 DEF Fault, TypeOK
      <4>7. /\ timers \in [Slave -> SUBSET Node]
            /\ \A x \in Slave : \A m \in timers[x] : child[x][m] # "none"
        BY DEF TypeOK
      <4>5. ASSUME NEW x \in Slave, NEW m \in timers'[x] PROVE child'[x][m] # "none"
        <5>1. CASE x = s /\ m = n
          BY <4>2, <5>1
        <5>2. CASE ~(x = s /\ m = n)
          <6>1. m \in timers[x] /\ m \in Node
            BY <4>6, <4>7, <5>2
          <6> QED
            BY <4>2, <4>7, <5>2, <6>1
        <5> QED
          BY <5>1, <5>2
      <4> QED
        BY <3>3, <4>1, <4>2, <4>4, <4>5, <4>6 DEF TypeOK, ChildState
    <3> QED
      BY <2>7, <3>1, <3>2, <3>3 DEF OpenNewNode
  <2> QED
    BY <1>6, <2>6, <2>8 DEF ReadStart, master, TypeOK
<1>7. ASSUME NEW s \in Slave, ReadStop(s) PROVE TypeOK'
  BY <1>7 DEF ReadStop, master, TypeOK
<1>8. ASSUME NEW s \in Slave, NEW n \in Node, CheckNode(s, n) PROVE TypeOK'
  <2>1. PICK v \in {"runs", "failed"} : child' = [child EXCEPT ![s][n] = v]
    BY <1>8 DEF CheckNode
  <2>2. child \in [Slave -> [Node -> ChildState]] /\ v \in ChildState
    BY DEF TypeOK, ChildState
  <2>3. /\ child' \in [Slave -> [Node -> ChildState]]
        /\ \A x \in Slave, m \in Node :
              child'[x][m] = IF x = s /\ m = n THEN v ELSE child[x][m]
    BY <2>1, <2>2, SetEntry
  <2>4. faults' \in 0 .. MaxFaults /\ faults' >= faults
    BY <1>8 DEF CheckNode, Fault, TypeOK
  <2>5. \A x \in Slave : \A m \in timers[x] : child'[x][m] # "none"
    BY <2>3 DEF TypeOK
  <2> QED
    BY <1>8, <2>3, <2>4, <2>5 DEF CheckNode, master, wire, TypeOK, ChildState
<1>9. ASSUME NEW s \in Slave, NEW n \in Node, ChildExit(s, n) PROVE TypeOK'
  <2>1. faults' \in 0 .. MaxFaults /\ faults' >= faults
    BY <1>9 DEF ChildExit, Fault, TypeOK
  <2>2. CASE child' = [child EXCEPT ![s][n] = "exited"] /\ UNCHANGED stray
    <3>1. child \in [Slave -> [Node -> ChildState]] /\ "exited" \in ChildState
      BY DEF TypeOK, ChildState
    <3>2. /\ child' \in [Slave -> [Node -> ChildState]]
          /\ \A x \in Slave, m \in Node :
                child'[x][m] = IF x = s /\ m = n THEN "exited" ELSE child[x][m]
      BY <2>2, <3>1, SetEntry
    <3>3. \A x \in Slave : \A m \in timers[x] : child'[x][m] # "none"
      BY <3>2 DEF TypeOK
    <3> QED
      BY <1>9, <2>1, <2>2, <3>2, <3>3 DEF ChildExit, master, wire, TypeOK, ChildState
  <2>3. CASE /\ stray[s][n] > 0 /\ stray' = [stray EXCEPT ![s][n] = @ - 1]
             /\ UNCHANGED child
    <3>1. stray[s][n] - 1 \in Nat /\ stray \in [Slave -> [Node -> Nat]]
      BY <2>3 DEF TypeOK
    <3>2. stray' = [stray EXCEPT ![s][n] = stray[s][n] - 1]
      BY <2>3
    <3>3. stray' \in [Slave -> [Node -> Nat]]
      BY <3>1, <3>2, SetEntry
    <3> QED
      BY <1>9, <2>1, <2>3, <3>3 DEF ChildExit, master, wire, TypeOK
  <2> QED
    BY <1>9, <2>2, <2>3 DEF ChildExit
<1>10. \A s \in Slave : Ordered(s) \subseteq Node
  BY Messages DEF Ordered, TypeOK
<1>11. ASSUME NEW s \in Slave, Reset(s) PROVE TypeOK'
  BY <1>10, <1>11 DEF Reset, Fault, master, machines, TypeOK
<1>12. ASSUME NEW s \in Slave, SlaveCrash(s) PROVE TypeOK'
  <2>1. \A n \in Node : Running(s, n) \in Nat
    BY DEF Running, TypeOK
  <2> QED
    BY <1>10, <1>12, <2>1 DEF SlaveCrash, Fault, master, NoChild, TypeOK
<1>13. ASSUME NEW s \in Slave, SlaveRestart(s) PROVE TypeOK'
  BY <1>13 DEF SlaveRestart, master, wire, history, TypeOK
<1>14. CASE MasterCrash
  <2>1. toSlave' \in [Slave -> Seq(Message)] /\ \A s \in Slave \ slaveUp : toSlave'[s] = <<>>
    <3>1. CASE toSlave' = toSlave
      BY <3>1 DEF TypeOK
    <3>2. CASE toSlave' = [s \in Slave |-> <<>>]
      BY <3>2
    <3> QED
      BY <1>14, <3>1, <3>2 DEF MasterCrash
  <2>2. faults' \in 0 .. MaxFaults /\ masters' \in 0 .. faults'
    BY <1>14 DEF MasterCrash, Fault, TypeOK
  <2>3. /\ timer' = [t \in Type |-> "idle"] /\ status' = "notStart"
        /\ group' = [t \in Type |-> 0] /\ load' = [n \in Node |-> 0]
        /\ masterUp' = FALSE /\ slaves' = {} /\ linked' = {} /\ lost' = {} /\ online' = {}
        /\ UNCHANGED <<machines, asked, early, stopped>>
    BY <1>14 DEF MasterCrash
  <2>4. /\ timer' \in [Type -> {"idle", "delayed", "running", "gone"}]
        /\ \A t \in Type : timer'[t] = "idle"
        /\ group' \in [Type -> Nat] /\ \A t \in Type : group'[t] <= Max[t]
        /\ load' \in [Node -> Nat]
    BY <2>3
  <2> QED
    BY <2>1, <2>2, <2>3, <2>4 DEF machines, TypeOK
<1>15. CASE MasterRestart
  BY <1>15 DEF MasterRestart, wire, machines, history, TypeOK
<1>16. CASE UNCHANGED vars
  BY <1>16 DEF vars, master, wire, machines, history, TypeOK
<1> QED
  BY <1>1, <1>2, <1>3, <1>4, <1>5, <1>6, <1>7, <1>8, <1>9, <1>11, <1>12, <1>13, <1>14, <1>15,
     <1>16, <1>17, <1>18 DEF Next

-----------------------------------------------------------------------------
LEMMA StopInit == Init => StopIsLast
BY DEF Init, StopIsLast

\* While the first master has not been told to stop, or not in time, nothing is
\* claimed about it but that it has sent no stop message.
LEMMA StartNodesStop ==
  ASSUME IInv, InTime, NEW t \in Type, timer[t] \in {"delayed", "running"},
         NEW ids \in SUBSET (1 .. Max[t]), StartNodes(t, ids)
  PROVE  /\ ~asked /\ stopped = {}
         /\ \A s \in Slave : \A i \in DOMAIN toSlave'[s] : toSlave'[s][i] # Stop
<1>1. ~asked /\ stopped = {}
  BY DEF IInv, StopIsLast
<1> DEFINE batch(pick, s) == {<<t, i>> : i \in {j \in ids : pick[j] = s}}
<1>2. PICK pick \in [ids -> Choices(t)] :
        toSlave' = [s \in Slave |-> IF s \in linked /\ batch(pick, s) # {}
                                     THEN Append(toSlave[s], Start(batch(pick, s)))
                                     ELSE toSlave[s]]
  BY DEF StartNodes
<1>3. \A s \in Slave : batch(pick, s) \in SUBSET Node
  BY NodeElement
<1> HIDE DEF batch
<1>4. ASSUME NEW s \in Slave, NEW i \in DOMAIN toSlave'[s] PROVE toSlave'[s][i] # Stop
  <2>1. toSlave[s] \in Seq(Message) /\ \A j \in DOMAIN toSlave[s] : toSlave[s][j] # Stop
    BY <1>1 DEF IInv, TypeOK, StopIsLast
  <2>2. CASE s \in linked /\ batch(pick, s) # {}
    <3>1. Start(batch(pick, s)) \in Message /\ Start(batch(pick, s)) # Stop
      BY <1>3, <2>2, Messages
    <3>2. toSlave'[s] = Append(toSlave[s], Start(batch(pick, s)))
      BY <1>2, <2>2
    <3> QED
      BY <1>4, <2>1, <3>1, <3>2
  <2>3. CASE ~(s \in linked /\ batch(pick, s) # {})
    BY <1>2, <1>4, <2>1, <2>3
  <2> QED
    BY <2>2, <2>3
<1> QED
  BY <1>1, <1>4

\* Every step keeps the stop message last.
LEMMA StopStep == IInv /\ [Next]_vars => StopIsLast'
<1> SUFFICES ASSUME IInv, [Next]_vars, InTime' PROVE StopIsLast'
  BY DEF StopIsLast
<1> USE DEF IInv
<1>0. InTime \/ MasterCrash \/ PreShutDown
  BY DEF Next, vars, InTime, SlaveOpen, NodeTimerStart, NodeTimer, NodeLoadReport, NodeOpen,
         NodeClose, ReadStart,
         ReadStop, CheckNode, ChildExit, Reset, SlaveCrash, SlaveRestart, MasterRestart,
         history
<1>1. ASSUME NEW s \in Slave, SlaveOpen(s) PROVE StopIsLast'
  BY <1>1 DEF SlaveOpen, machines, history, TypeOK, StopIsLast, InTime
<1>2. ASSUME NEW t \in Type, NodeTimerStart(t) PROVE StopIsLast'
  <2>1. /\ timer[t] = "delayed" /\ StartNodes(t, 1 .. Min[t]) /\ InTime
        /\ UNCHANGED <<asked, early, stopped, masters>>
    BY <1>2 DEF NodeTimerStart, InTime
  <2>2. 1 .. Min[t] \in SUBSET (1 .. Max[t])
    BY StartUpAssumption
  <2>3. /\ ~asked /\ stopped = {}
        /\ \A s \in Slave : \A i \in DOMAIN toSlave'[s] : toSlave'[s][i] # Stop
    BY <2>1, <2>2, StartNodesStop
  <2> QED
    BY <2>1, <2>3 DEF StopIsLast
<1>3. ASSUME NEW t \in Type, NodeTimer(t) PROVE StopIsLast'
  <2>1. /\ timer[t] = "running" /\ StartNodes(t, {group[t] + 1}) /\ InTime
        /\ UNCHANGED <<asked, early, stopped, masters>>
    BY <1>3 DEF NodeTimer, InTime
  <2>2. {group[t] + 1} \in SUBSET (1 .. Max[t])
    <3>1. group[t] \in Nat /\ Max[t] \in Nat /\ group[t] < Max[t]
      BY <1>3, StartUpAssumption DEF NodeTimer, TypeOK
    <3> QED
      BY <3>1
  <2>3. /\ ~asked /\ stopped = {}
        /\ \A s \in Slave : \A i \in DOMAIN toSlave'[s] : toSlave'[s][i] # Stop
    BY <2>1, <2>2, StartNodesStop
  <2> QED
    BY <2>1, <2>3 DEF StopIsLast
<1>4. ASSUME NEW n \in Node, NEW l \in Load, NodeLoadReport(n, l) PROVE StopIsLast'
  BY <1>4 DEF NodeLoadReport, wire, machines, history, StopIsLast, InTime
<1>16. ASSUME NEW n \in Node, NodeOpen(n) PROVE StopIsLast'
  <2>1. /\ status' \in {status, "started"}
        /\ UNCHANGED <<timer, toSlave, timers, asked, early, stopped, masters>>
    BY <1>16 DEF NodeOpen, wire, machines, history
  <2> QED
    BY <2>1 DEF StopIsLast, InTime
<1>17. ASSUME NEW n \in Node, NodeClose(n) PROVE StopIsLast'
  BY <1>17 DEF NodeClose, wire, machines, history, StopIsLast, InTime
<1>5. CASE PreShutDown
  <2>1. /\ ~asked /\ asked' /\ stopped' = stopped /\ timers' = timers
        /\ status # "notStart" /\ toSlave' = Broadcast
        /\ timer' = [t \in Type |-> IF timer[t] = "idle" THEN "idle" ELSE "gone"]
    BY <1>5 DEF PreShutDown, InTime, machines
  <2>2. status' # "notStart" /\ \A t \in Type : timer'[t] \in {"idle", "gone"}
    BY <1>5, <2>1 DEF PreShutDown, TypeOK
  <2>3. InTime
    BY <1>5, <2>1 DEF PreShutDown, InTime
  <2>4. stopped = {} /\ \A s \in Slave : \A i \in DOMAIN toSlave[s] : toSlave[s][i] # Stop
    BY <2>1, <2>3 DEF StopIsLast
  <2>5. ASSUME NEW s \in Slave, NEW i \in DOMAIN toSlave'[s], toSlave'[s][i] = Stop
        PROVE  i = Len(toSlave'[s])
    <3>1. toSlave[s] \in Seq(Message)
      BY DEF TypeOK
    <3>2. toSlave'[s] = toSlave[s] \/ toSlave'[s] = Append(toSlave[s], Stop)
      BY <2>1 DEF Broadcast
    <3> QED
      BY <2>4, <2>5, <3>1, <3>2
  <2> QED
    BY <2>1, <2>2, <2>4, <2>5 DEF StopIsLast
<1>6. ASSUME NEW s \in Slave, ReadStart(s) PROVE StopIsLast'
  <2>1. PICK n \in Head(toSlave[s]).nodes :
          LET rest == Head(toSlave[s]).nodes \ {n}
          IN  toSlave' = [toSlave EXCEPT ![s] = IF rest = {} THEN Tail(@)
                                                ELSE <<Start(rest)>> \o Tail(@)]
    BY <1>6 DEF ReadStart
  <2> DEFINE rest == Head(toSlave[s]).nodes \ {n}
  <2>2. toSlave[s] \in Seq(Message) /\ toSlave[s] # <<>> /\ s \notin stopped /\ InTime
    BY <1>6, <1>0 DEF ReadStart, TypeOK, StopIsLast, InTime
  <2>3. UNCHANGED <<status, timer, asked, stopped>> /\ \A x \in Slave \ {s} : timers'[x] = timers[x]
    BY <1>6 DEF ReadStart, OpenNewNode, master, TypeOK
  <2>4. Start(rest) # Stop
    BY DEF Start, Stop
  <2> HIDE DEF rest
  <2>5. ASSUME NEW i \in DOMAIN toSlave'[s], toSlave'[s][i] = Stop
        PROVE  asked /\ i = Len(toSlave'[s])
    <3>1. CASE toSlave'[s] = Tail(toSlave[s])
      <4>1. i + 1 \in DOMAIN toSlave[s] /\ toSlave[s][i + 1] = Stop
        BY <2>2, <2>5, <3>1
      <4>2. asked /\ i + 1 = Len(toSlave[s])
        BY <2>2, <4>1 DEF StopIsLast
      <4> QED
        BY <2>2, <2>5, <3>1, <4>2
    <3>2. CASE toSlave'[s] = <<Start(rest)>> \o Tail(toSlave[s])
      <4>1. i # 1
        BY <2>2, <2>4, <2>5, <3>2
      <4>2. i \in DOMAIN toSlave[s] /\ toSlave[s][i] = Stop
        BY <2>2, <2>5, <3>2, <4>1
      <4>3. asked /\ i = Len(toSlave[s])
        BY <2>2, <4>2 DEF StopIsLast
      <4> QED
        BY <2>2, <3>2, <4>3
    <3> QED
      BY <2>1, <3>1, <3>2 DEF rest, TypeOK
  <2>6. \A x \in Slave \ {s} : toSlave'[x] = toSlave[x]
    BY <2>1 DEF TypeOK
  <2> QED
    BY <2>2, <2>3, <2>5, <2>6 DEF StopIsLast, TypeOK
<1>7. ASSUME NEW s \in Slave, ReadStop(s) PROVE StopIsLast'
  <2>1. /\ toSlave[s] \in Seq(Message) /\ toSlave[s] # <<>> /\ toSlave[s][1] = Stop
        /\ toSlave' = [toSlave EXCEPT ![s] = Tail(@)] /\ timers' = [timers EXCEPT ![s] = {}]
        /\ stopped' = stopped \cup {s} /\ InTime /\ UNCHANGED <<status, timer, asked>>
    BY <1>7, <1>0 DEF ReadStop, TypeOK, InTime, master
  <2>5. 1 \in DOMAIN toSlave[s] /\ Len(toSlave[s]) \in Nat
    BY <2>1
  <2>2. asked /\ Len(toSlave[s]) = 1
    BY <2>1, <2>5 DEF StopIsLast
  <2>3. toSlave'[s] = <<>> /\ timers'[s] = {}
    BY <2>1, <2>2 DEF TypeOK
  <2>4. \A x \in Slave \ {s} : toSlave'[x] = toSlave[x] /\ timers'[x] = timers[x]
    BY <2>1 DEF TypeOK
  <2> QED
    BY <2>1, <2>2, <2>3, <2>4 DEF StopIsLast, TypeOK
<1>8. ASSUME NEW s \in Slave, NEW n \in Node, CheckNode(s, n) PROVE StopIsLast'
  BY <1>8 DEF CheckNode, master, wire, StopIsLast, InTime
<1>9. ASSUME NEW s \in Slave, NEW n \in Node, ChildExit(s, n) PROVE StopIsLast'
  BY <1>9 DEF ChildExit, master, wire, StopIsLast, InTime
<1>10. ASSUME NEW s \in Slave, Reset(s) PROVE StopIsLast'
  BY <1>10 DEF Reset, master, machines, StopIsLast, InTime, TypeOK
<1>11. ASSUME NEW s \in Slave, SlaveCrash(s) PROVE StopIsLast'
  BY <1>11 DEF SlaveCrash, master, StopIsLast, InTime, TypeOK
<1>12. ASSUME NEW s \in Slave, SlaveRestart(s) PROVE StopIsLast'
  BY <1>12 DEF SlaveRestart, master, wire, history, StopIsLast, InTime
<1>13. CASE MasterCrash
  BY <1>13 DEF MasterCrash, InTime, TypeOK
<1>14. CASE MasterRestart
  BY <1>14 DEF MasterRestart, wire, machines, history, StopIsLast, InTime
<1>15. CASE UNCHANGED vars
  BY <1>15 DEF vars, master, wire, machines, history, StopIsLast, InTime
<1> QED
  BY <1>1, <1>2, <1>3, <1>4, <1>5, <1>6, <1>7, <1>8, <1>9, <1>10, <1>11, <1>12, <1>13,
     <1>14, <1>15, <1>16, <1>17 DEF Next

LEMMA EarlyStep == (early => asked) /\ [Next]_vars => (early' => asked')
BY DEF Next, vars, SlaveOpen, NodeTimerStart, NodeTimer, NodeLoadReport, NodeOpen, NodeClose,
       PreShutDown, ReadStart,
       ReadStop, CheckNode, ChildExit, Reset, SlaveCrash, SlaveRestart, MasterCrash,
       MasterRestart, history

\* IInv holds in every reachable state.
THEOREM InductiveInvariant == Spec => []IInv
<1>1. Init => IInv
  BY TypeInit, StopInit DEF Init, IInv
<1>2. IInv /\ [Next]_vars => IInv'
  BY TypeStep, StopStep, EarlyStep DEF IInv
<1> QED
  BY <1>1, <1>2, PTL DEF Spec

\* Starter, the strategy and the slaves keep their types; in particular a type never
\* has more nodes than its maximum, and a slave looks after nodes it has started.
THEOREM TypeCorrect == Spec => []TypeOK
<1>1. IInv => TypeOK
  BY DEF IInv
<1> QED
  BY <1>1, InductiveInvariant, PTL

\* The stop message keeps its word: a slave that has read it neither restarts what
\* dies nor starts what an earlier message asked for.
THEOREM StopsForGood == Spec => NothingAfterStop
<1> DEFINE Step == \A s \in stopped, n \in Node :
                      early \/ masters > 0 \/ s \notin slaveUp' \/ Running(s, n)' <= Running(s, n)
<1>1. IInv /\ [Next]_vars => Step
  <2> SUFFICES ASSUME IInv, [Next]_vars, NEW s \in stopped, NEW n \in Node,
                      ~early, ~(masters > 0), s \in slaveUp'
               PROVE  Running(s, n)' <= Running(s, n)
    OBVIOUS
  <2>1. /\ s \in Slave /\ toSlave[s] = <<>> /\ timers[s] = {}
        /\ stray[s][n] \in Nat
    BY DEF IInv, StopIsLast, InTime, TypeOK
  <2>2. stray \in [Slave -> [Node -> Nat]] /\ child \in [Slave -> [Node -> ChildState]]
    BY DEF IInv, TypeOK, ChildState
  <2>3. CASE UNCHANGED <<child, stray>>
    BY <2>1, <2>3 DEF Running
  <2>4. ASSUME NEW x \in Slave, ReadStart(x) PROVE Running(s, n)' <= Running(s, n)
    <3>1. x # s
      BY <2>1, <2>4 DEF ReadStart
    <3>2. child'[s] = child[s] /\ stray'[s] = stray[s]
      BY <2>1, <2>2, <2>4, <3>1 DEF ReadStart, OpenNewNode
    <3> QED
      BY <2>1, <3>2 DEF Running
  <2>5. ASSUME NEW x \in Slave, NEW m \in Node, CheckNode(x, m)
        PROVE  Running(s, n)' <= Running(s, n)
    <3>1. x # s
      BY <2>1, <2>5 DEF CheckNode
    <3>2. child'[s] = child[s] /\ stray'[s] = stray[s]
      BY <2>1, <2>2, <2>5, <3>1 DEF CheckNode
    <3> QED
      BY <2>1, <3>2 DEF Running
  <2>6. ASSUME NEW x \in Slave, NEW m \in Node, ChildExit(x, m)
        PROVE  Running(s, n)' <= Running(s, n)
    <3>1. CASE child[x][m] = "runs" /\ child' = [child EXCEPT ![x][m] = "exited"]
               /\ UNCHANGED stray
      <4>1. "exited" \in ChildState
        BY DEF ChildState
      <4>2. child'[s][n] = IF s = x /\ n = m THEN "exited" ELSE child[s][n]
        BY <2>1, <2>2, <3>1, <4>1, SetEntry
      <4> QED
        BY <2>1, <3>1, <4>2 DEF Running
    <3>2. CASE stray[x][m] > 0 /\ stray' = [stray EXCEPT ![x][m] = @ - 1] /\ UNCHANGED child
      <4>1. stray[x][m] - 1 \in Nat /\ stray' = [stray EXCEPT ![x][m] = stray[x][m] - 1]
        BY <2>2, <3>2
      <4>2. stray'[s][n] = IF s = x /\ n = m THEN stray[x][m] - 1 ELSE stray[s][n]
        BY <2>1, <2>2, <4>1, SetEntry
      <4> QED
        BY <2>1, <3>2, <4>2 DEF Running
    <3> QED
      BY <2>6, <3>1, <3>2 DEF ChildExit
  <2>7. ASSUME NEW x \in Slave, SlaveCrash(x) PROVE Running(s, n)' <= Running(s, n)
    <3>1. x # s
      BY <2>7 DEF SlaveCrash
    <3>2. child'[s] = child[s] /\ stray'[s] = stray[s]
      BY <2>1, <2>2, <2>7, <3>1 DEF SlaveCrash
    <3> QED
      BY <2>1, <3>2 DEF Running
  <2>8. \/ UNCHANGED <<child, stray>>
        \/ \E x \in Slave : \/ ReadStart(x) \/ SlaveCrash(x)
                            \/ \E m \in Node : CheckNode(x, m) \/ ChildExit(x, m)
    BY DEF Next, vars, machines, SlaveOpen, NodeTimerStart, NodeTimer, NodeLoadReport,
           NodeOpen, NodeClose, PreShutDown, ReadStop, Reset, SlaveRestart, MasterCrash, MasterRestart
  <2> QED
    BY <2>3, <2>4, <2>5, <2>6, <2>7, <2>8
<1>2. Spec => [][IInv /\ Next]_vars
  BY InductiveInvariant, PTL DEF Spec
<1>3. IInv /\ Next => Step
  BY <1>1
<1> QED
  BY <1>2, <1>3, PTL DEF NothingAfterStop

-----------------------------------------------------------------------------
\* What holds of 0 and passes from each number to the next one holds of all.
LEMMA FromBelow ==
  ASSUME NEW S \in SUBSET Nat, 0 \in S, \A n \in Nat : n \in S => n + 1 \in S
  PROVE  S = Nat
<1> DEFINE smaller == {p \in Nat \X Nat : p[1] < p[2]}
<1>1. IsWellFoundedOn(smaller, Nat)
  BY NatLessThanWellFounded DEF OpToRel
<1>2. \A x, y \in Nat : <<y, x>> \in smaller <=> y < x
  OBVIOUS
<1> HIDE DEF smaller
<1> SUFFICES ASSUME Nat \ S # {} PROVE FALSE
  OBVIOUS
<1>3. PICK x \in Nat \ S : \A y \in Nat \ S : ~(<<y, x>> \in smaller)
  BY <1>1, WFMin
<1>4. x - 1 \in Nat /\ x - 1 < x /\ (x - 1) + 1 = x
  <2>1. x # 0
    BY <1>3
  <2> QED
    BY <2>1
<1>5. x - 1 \in S
  BY <1>2, <1>3, <1>4
<1> QED
  BY <1>3, <1>4, <1>5

\* Sums over the slaves, as the fold that counts Copies builds them: element by element in
\* some order.
SomeSlaves == SUBSET Slave

First(S) == CHOOSE x \in S : TRUE

SumsUpTo(it, f, k) ==
  /\ it \in [SomeSlaves -> Nat]
  /\ \A S \in SomeSlaves : Cardinality(S) <= k =>
        it[S] = IF S = {} THEN 0 ELSE f[First(S)] + it[S \ {First(S)}]

Sums(it, f) ==
  /\ it \in [SomeSlaves -> Nat]
  /\ \A S \in SomeSlaves : it[S] = IF S = {} THEN 0 ELSE f[First(S)] + it[S \ {First(S)}]

Total(f) == (CHOOSE it : Sums(it, f))[Slave]

\* A part of the slaves, and what is left when the first of them is taken out.
LEMMA WholeAndNone ==
  /\ Slave \in SomeSlaves /\ {} \in SomeSlaves
  /\ Cardinality(Slave) \in Nat /\ Cardinality({}) = 0 /\ IsFiniteSet(Slave)
BY StartUpAssumption, FS_CardinalityType, FS_EmptySet DEF SomeSlaves

LEMMA Sizes ==
  ASSUME NEW S \in SomeSlaves
  PROVE  /\ IsFiniteSet(S) /\ Cardinality(S) \in Nat
         /\ Cardinality(S) <= Cardinality(Slave)
         /\ Cardinality(S) = 0 <=> S = {}
<1>1. S \subseteq Slave
  BY DEF SomeSlaves
<1>2. IsFiniteSet(S) /\ Cardinality(S) <= Cardinality(Slave)
  BY <1>1, WholeAndNone, FS_Subset
<1>3. Cardinality(S) \in Nat
  BY <1>2, FS_CardinalityType
<1>4. Cardinality(S) = 0 <=> S = {}
  BY <1>2, FS_EmptySet
<1> QED
  BY <1>2, <1>3, <1>4

LEMMA Parts ==
  ASSUME NEW S \in SomeSlaves, S # {}
  PROVE  /\ First(S) \in S /\ First(S) \in Slave /\ S \ {First(S)} \in SomeSlaves
         /\ Cardinality(S \ {First(S)}) = Cardinality(S) - 1
<1>1. First(S) \in S /\ S \subseteq Slave
  BY DEF First, SomeSlaves
<1>3. IsFiniteSet(S)
  BY Sizes
<1>2. Cardinality(S \ {First(S)}) = Cardinality(S) - 1
  BY <1>1, <1>3, FS_RemoveElement
<1> QED
  BY <1>1, <1>2 DEF SomeSlaves

\* Every function of the slaves has its sums.
LEMMA SumsExist ==
  ASSUME NEW f \in [Slave -> Nat]
  PROVE  \E it : Sums(it, f)
<1> DEFINE solved == {k \in Nat : \E it : SumsUpTo(it, f, k)}
<1>1. 0 \in solved
  <2> DEFINE it == [S \in SomeSlaves |-> 0]
  <2>1. it \in [SomeSlaves -> Nat] /\ \A S \in SomeSlaves : it[S] = 0
    OBVIOUS
  <2> HIDE DEF it
  <2>2. ASSUME NEW S \in SomeSlaves, Cardinality(S) <= 0
        PROVE  it[S] = IF S = {} THEN 0 ELSE f[First(S)] + it[S \ {First(S)}]
    <3>1. S = {}
      <4>1. Cardinality(S) \in Nat /\ (Cardinality(S) = 0 <=> S = {})
        BY Sizes
      <4> QED
        BY <2>2, <4>1
    <3> QED
      BY <2>1, <3>1
  <2>3. SumsUpTo(it, f, 0)
    BY <2>1, <2>2 DEF SumsUpTo
  <2> QED
    BY <2>3
<1>2. ASSUME NEW k \in Nat, k \in solved PROVE k + 1 \in solved
  <2>1. PICK it : SumsUpTo(it, f, k)
    BY <1>2
  <2> DEFINE more == [S \in SomeSlaves |-> IF Cardinality(S) = k + 1
                                             THEN f[First(S)] + it[S \ {First(S)}] ELSE it[S]]
  <2>2. ASSUME NEW S \in SomeSlaves, S # {}
        PROVE  f[First(S)] + it[S \ {First(S)}] \in Nat
    <3>1. First(S) \in Slave /\ S \ {First(S)} \in SomeSlaves
      BY <2>2, Parts
    <3>2. f[First(S)] \in Nat /\ it[S \ {First(S)}] \in Nat
      BY <2>1, <3>1 DEF SumsUpTo
    <3> QED
      BY <3>2
  <2>3. ASSUME NEW S \in SomeSlaves
        PROVE  /\ more[S] = IF Cardinality(S) = k + 1 THEN f[First(S)] + it[S \ {First(S)}]
                                                      ELSE it[S]
               /\ more[S] \in Nat
    <3>1. Cardinality(S) = k + 1 => S # {}
      BY Sizes
    <3> QED
      BY <2>1, <2>2, <3>1 DEF SumsUpTo
  <2>4. more \in [SomeSlaves -> Nat]
    BY <2>3
  <2> HIDE DEF more
  <2>5. ASSUME NEW S \in SomeSlaves, Cardinality(S) <= k + 1
        PROVE  more[S] = IF S = {} THEN 0 ELSE f[First(S)] + more[S \ {First(S)}]
    <3>1. CASE S = {}
      <4>1. Cardinality(S) = 0 /\ 0 # k + 1 /\ 0 <= k
        BY <3>1, Sizes
      <4>2. it[S] = 0
        BY <2>1, <3>1, <4>1 DEF SumsUpTo
      <4> QED
        BY <2>3, <3>1, <4>1, <4>2
    <3>2. CASE S # {}
      <4>1. PICK R \in SomeSlaves : R = S \ {First(S)}
        BY <3>2, Parts
      <4>2. Cardinality(R) = Cardinality(S) - 1 /\ Cardinality(S) \in Nat
        BY <3>2, <4>1, Sizes, Parts
      <4>3. more[R] = it[R]
        <5>1. Cardinality(R) # k + 1
          BY <2>5, <4>2
        <5> QED
          BY <2>3, <5>1
      <4>4. more[S] = f[First(S)] + it[R]
        <5>1. CASE Cardinality(S) = k + 1
          BY <2>3, <4>1, <5>1
        <5>2. CASE Cardinality(S) # k + 1
          <6>1. Cardinality(S) <= k
            BY <2>5, <4>2, <5>2
          <6> QED
            BY <2>1, <2>3, <3>2, <4>1, <5>2, <6>1 DEF SumsUpTo
        <5> QED
          BY <5>1, <5>2
      <4> QED
        BY <3>2, <4>1, <4>3, <4>4
    <3> QED
      BY <3>1, <3>2
  <2>6. SumsUpTo(more, f, k + 1)
    BY <2>4, <2>5 DEF SumsUpTo
  <2> QED
    BY <2>6
<1>3. Cardinality(Slave) \in solved
  <2> HIDE DEF solved
  <2>1. solved = Nat
    BY <1>1, <1>2, FromBelow DEF solved
  <2> QED
    BY <2>1, WholeAndNone
<1>4. PICK it : SumsUpTo(it, f, Cardinality(Slave))
  BY <1>3
<1>5. ASSUME NEW S \in SomeSlaves
      PROVE  it[S] = IF S = {} THEN 0 ELSE f[First(S)] + it[S \ {First(S)}]
  <2>1. Cardinality(S) <= Cardinality(Slave)
    BY Sizes
  <2> QED
    BY <1>4, <2>1 DEF SumsUpTo
<1>6. Sums(it, f)
  BY <1>4, <1>5 DEF SumsUpTo, Sums
<1> QED
  BY <1>6

\* A sum grows by no more than the one summand that grows.
LEMMA SumsCompare ==
  ASSUME NEW f \in [Slave -> Nat], NEW g \in [Slave -> Nat], NEW x, NEW d \in Nat,
         \A y \in Slave : g[y] <= f[y] + (IF y = x THEN d ELSE 0),
         NEW it, Sums(it, f), NEW jt, Sums(jt, g)
  PROVE  jt[Slave] <= it[Slave] + d
<1> DEFINE at(S) == IF x \in S THEN d ELSE 0
           good == {k \in Nat : \A S \in SomeSlaves : Cardinality(S) = k => jt[S] <= it[S] + at(S)}
<1>1. 0 \in good
  <2> SUFFICES ASSUME NEW S \in SomeSlaves, Cardinality(S) = 0 PROVE jt[S] <= it[S] + at(S)
    OBVIOUS
  <2>1. S = {}
    BY Sizes
  <2>2. jt[S] = 0 /\ it[S] = 0
    BY <2>1 DEF Sums
  <2> QED
    BY <2>1, <2>2
<1>2. ASSUME NEW k \in Nat, k \in good PROVE k + 1 \in good
  <2> SUFFICES ASSUME NEW S \in SomeSlaves, Cardinality(S) = k + 1
               PROVE  jt[S] <= it[S] + at(S)
    OBVIOUS
  <2>1. S # {} /\ Cardinality(S) = k + 1 /\ (k + 1) - 1 = k
    BY Sizes
  <2>2. PICK y \in S, R \in SomeSlaves : y = First(S) /\ R = S \ {y} /\ Cardinality(R) = k
    <3>1. Cardinality(S \ {First(S)}) = k /\ First(S) \in S /\ S \ {First(S)} \in SomeSlaves
      BY <2>1, Parts
    <3> QED
      BY <3>1
  <2>3. jt[S] = g[y] + jt[R] /\ it[S] = f[y] + it[R]
    BY <2>1, <2>2 DEF Sums
  <2>4. jt[R] <= it[R] + at(R)
    BY <1>2, <2>2
  <2>5. g[y] <= f[y] + (IF y = x THEN d ELSE 0) /\ g[y] \in Nat /\ f[y] \in Nat
    BY <2>2 DEF SomeSlaves
  <2>6. jt[R] \in Nat /\ it[R] \in Nat
    BY DEF Sums
  <2>7. at(S) = at(R) + (IF y = x THEN d ELSE 0) /\ at(R) \in Int
    BY <2>2
  <2> HIDE DEF at
  <2> QED
    BY <2>3, <2>4, <2>5, <2>6, <2>7
<1>3. Cardinality(Slave) \in good
  <2> HIDE DEF good
  <2>1. good = Nat
    BY <1>1, <1>2, FromBelow DEF good
  <2> QED
    BY <2>1, WholeAndNone
<1>4. jt[Slave] <= it[Slave] + at(Slave) /\ it[Slave] \in Nat /\ jt[Slave] \in Nat
  BY <1>3, WholeAndNone DEF Sums
<1> QED
  BY <1>4

LEMMA TotalSums ==
  ASSUME NEW f \in [Slave -> Nat]
  PROVE  \E it : Sums(it, f) /\ Total(f) = it[Slave] /\ Total(f) \in Nat
<1> DEFINE P(it) == Sums(it, f)
<1>1. \E it : P(it)
  BY SumsExist
<1>2. Total(f) = (CHOOSE it : P(it))[Slave]
  BY DEF Total
<1>3. P(CHOOSE it : P(it))
  <2> HIDE DEF P
  <2> QED
    BY <1>1
<1>4. PICK it : it = CHOOSE jt : P(jt)
  OBVIOUS
<1>5. Sums(it, f) /\ Total(f) = it[Slave]
  BY <1>2, <1>3, <1>4
<1>6. it[Slave] \in Nat
  BY <1>5, WholeAndNone DEF Sums
<1> QED
  BY <1>5, <1>6

LEMMA TotalCompare ==
  ASSUME NEW f \in [Slave -> Nat], NEW g \in [Slave -> Nat], NEW x, NEW d \in Nat,
         \A y \in Slave : g[y] <= f[y] + (IF y = x THEN d ELSE 0)
  PROVE  Total(g) <= Total(f) + d
BY TotalSums, SumsCompare

\* The sum of nothing.
LEMMA TotalOfNothing ==
  ASSUME NEW f \in [Slave -> Nat], \A s \in Slave : f[s] = 0
  PROVE  Total(f) = 0
<1>1. PICK z : z = [S \in SomeSlaves |-> 0]
  OBVIOUS
<1>2. z \in [SomeSlaves -> Nat] /\ \A S \in SomeSlaves : z[S] = 0
  BY <1>1
<1>3. ASSUME NEW S \in SomeSlaves
      PROVE  z[S] = IF S = {} THEN 0 ELSE f[First(S)] + z[S \ {First(S)}]
  <2>1. CASE S = {}
    BY <1>2, <2>1
  <2>2. CASE S # {}
    <3>1. First(S) \in Slave /\ S \ {First(S)} \in SomeSlaves
      BY <2>2, Parts
    <3> QED
      BY <1>2, <2>2, <3>1
  <2> QED
    BY <2>1, <2>2
<1>4. Sums(z, f)
  BY <1>2, <1>3 DEF Sums
<1>5. PICK it : Sums(it, f) /\ Total(f) = it[Slave] /\ Total(f) \in Nat
  BY TotalSums
<1>6. \A y \in Slave : f[y] <= f[y] + (IF y = 0 THEN 0 ELSE 0)
  OBVIOUS
<1>7. it[Slave] <= z[Slave] + 0
  BY <1>4, <1>5, <1>6, SumsCompare
<1> QED
  BY <1>2, <1>5, <1>7, WholeAndNone

\* The fold of Copies is such a sum.
LEMMA CopiesTotal ==
  ASSUME TypeOK, NEW n \in Node
  PROVE  \E it : Sums(it, [s \in Slave |-> Running(s, n)]) /\ Copies(n) = it[Slave]
<1> DEFINE f == [s \in Slave |-> Running(s, n)]
           P(it) == it = [S \in SomeSlaves |->
                            IF S = {} THEN 0
                            ELSE Running(CHOOSE x \in S : TRUE, n) + it[S \ {CHOOSE x \in S : TRUE}]]
<1>1. Copies(n) = (CHOOSE it : P(it))[Slave]
  BY DEF Copies, Sets!MapThenSumSet, Sets!MapThenFoldSet, SomeSlaves
<1>2. f \in [Slave -> Nat]
  BY DEF Running, TypeOK
<1>3. PICK it : Sums(it, f)
  BY <1>2, SumsExist
<1>4. P(it)
  <2>1. ASSUME NEW S \in SomeSlaves
        PROVE  it[S] = IF S = {} THEN 0
                       ELSE Running(CHOOSE x \in S : TRUE, n) + it[S \ {CHOOSE x \in S : TRUE}]
    BY <1>3, Parts DEF Sums, First
  <2>2. it = [S \in SomeSlaves |-> it[S]]
    BY <1>3 DEF Sums
  <2> QED
    BY <2>1, <2>2
<1>5. P(CHOOSE jt : P(jt))
  <2> HIDE DEF P
  <2> QED
    BY <1>4
<1>6. PICK jt : jt = CHOOSE kt : P(kt)
  OBVIOUS
<1>7. P(jt) /\ Copies(n) = jt[Slave]
  BY <1>1, <1>5, <1>6
<1>8. ASSUME NEW S \in SomeSlaves, S # {}
      PROVE  jt[S] = f[First(S)] + jt[S \ {First(S)}]
  <2>1. jt[S] = Running(First(S), n) + jt[S \ {First(S)}]
    BY <1>7, <1>8 DEF First
  <2> QED
    BY <1>8, <2>1, Parts
<1>9. jt[Slave] = it[Slave]
  <2> DEFINE same == {k \in Nat : \A S \in SomeSlaves : Cardinality(S) = k => jt[S] = it[S]}
  <2>1. 0 \in same
    <3> SUFFICES ASSUME NEW S \in SomeSlaves, Cardinality(S) = 0 PROVE jt[S] = it[S]
      OBVIOUS
    <3>1. S = {}
      BY Sizes
    <3>2. jt[S] = 0
      BY <1>7, <3>1
    <3>3. it[S] = 0
      BY <1>3, <3>1 DEF Sums
    <3> QED
      BY <3>2, <3>3
  <2>2. ASSUME NEW k \in Nat, k \in same PROVE k + 1 \in same
    <3> SUFFICES ASSUME NEW S \in SomeSlaves, Cardinality(S) = k + 1 PROVE jt[S] = it[S]
      OBVIOUS
    <3>1. S # {} /\ (k + 1) - 1 = k
      BY Sizes
    <3>2. PICK R \in SomeSlaves : R = S \ {First(S)} /\ Cardinality(R) = k
      BY <3>1, Parts
    <3>3. jt[R] = it[R]
      BY <2>2, <3>2
    <3>4. it[S] = f[First(S)] + it[R]
      BY <1>3, <3>1, <3>2 DEF Sums
    <3>5. jt[S] = f[First(S)] + jt[R]
      BY <1>8, <3>1, <3>2
    <3> QED
      BY <3>3, <3>4, <3>5
  <2> HIDE DEF same
  <2>3. same = Nat
    BY <2>1, <2>2, FromBelow DEF same
  <2>4. Cardinality(Slave) \in same
    BY <2>3, WholeAndNone
  <2> QED
    BY <2>4, WholeAndNone DEF same
<1> QED
  BY <1>3, <1>7, <1>9

-----------------------------------------------------------------------------
(* How many processes a node gets. *)

\* Node n is in the i-th message to slave s, or in some message to it.
Sent(s, i, n) == i \in DOMAIN toSlave[s] /\ n \in toSlave[s][i].nodes
OnTheWay(s, n) == \E i \in Nat : Sent(s, i, n)

\* How many processes of a node slave s has, or will have if no master orders it again: an
\* entry of _cmds may be started anew, whatever it refers to.
Weight(s, n) == (IF OnTheWay(s, n) THEN 1 ELSE 0) + stray[s][n]
                + (IF child[s][n] # "none" THEN 1 ELSE 0)
TotalWeight(n) == Total([s \in Slave |-> Weight(s, n)])

\* Whether the present master has ordered the node.
Counted(n) == IF n[2] <= group[n[1]] THEN 1 ELSE 0

\* Each master orders a node once.
Bounded == \A n \in Node : TotalWeight(n) <= masters + Counted(n)

\* One message to a slave names the node.
QueuedOnce == \A s \in Slave, n \in Node :
                 \A i, j \in Nat : Sent(s, i, n) /\ Sent(s, j, n) => i = j

\* A connected slave is sent no node that the master has not counted; what an earlier
\* master ordered was read before the slave connected.
UncountedUnsent == \A s \in linked, n \in Node : Counted(n) = 0 => ~OnTheWay(s, n)

CountedFromDelay == \A t \in Type : timer[t] \in {"idle", "delayed"} => group[t] = 0

OnceInv == Bounded /\ QueuedOnce /\ UncountedUnsent /\ CountedFromDelay

LEMMA NodeParts ==
  \A n \in Node : n = <<n[1], n[2]>> /\ n[1] \in Type /\ n[2] \in 1 .. Max[n[1]]
BY DEF Node

LEMMA WeightType ==
  ASSUME TypeOK, NEW n \in Node
  PROVE  [s \in Slave |-> Weight(s, n)] \in [Slave -> Nat]
<1>1. ASSUME NEW s \in Slave PROVE Weight(s, n) \in Nat
  <2>1. stray[s][n] \in Nat
    BY DEF TypeOK
  <2> QED
    BY <2>1 DEF Weight
<1> QED
  BY <1>1

\* The total grows by no more than the weight at one slave does.
LEMMA TotalWeightGrows ==
  ASSUME TypeOK, TypeOK', NEW n \in Node, NEW x, NEW d \in Nat,
         \A s \in Slave : Weight(s, n)' <= Weight(s, n) + (IF s = x THEN d ELSE 0)
  PROVE  /\ TotalWeight(n)' <= TotalWeight(n) + d
         /\ TotalWeight(n) \in Nat /\ TotalWeight(n)' \in Nat
<1>1. PICK f : f = [s \in Slave |-> Weight(s, n)]
  OBVIOUS
<1>2. PICK g : g = [s \in Slave |-> Weight(s, n)']
  OBVIOUS
<1>3. f \in [Slave -> Nat]
  BY <1>1, WeightType
<1>4. g \in [Slave -> Nat]
  <2>1. ASSUME NEW s \in Slave PROVE Weight(s, n)' \in Nat
    <3>1. stray'[s][n] \in Nat
      BY DEF TypeOK
    <3> QED
      BY <3>1 DEF Weight
  <2> QED
    BY <1>2, <2>1
<1>5. TotalWeight(n) = Total(f) /\ TotalWeight(n)' = Total(g)
  BY <1>1, <1>2 DEF TotalWeight
<1>6. \A s \in Slave : g[s] <= f[s] + (IF s = x THEN d ELSE 0)
  BY <1>1, <1>2
<1>7. Total(g) <= Total(f) + d
  BY <1>3, <1>4, <1>6, TotalCompare
<1>8. Total(f) \in Nat /\ Total(g) \in Nat
  BY <1>3, <1>4, TotalSums
<1> QED
  BY <1>5, <1>7, <1>8

\* A step that adds no weight.
LEMMA BoundedStep ==
  ASSUME TypeOK, TypeOK', Bounded,
         \A n \in Node : masters + Counted(n) <= masters' + Counted(n)',
         \A s \in Slave, n \in Node : Weight(s, n)' <= Weight(s, n)
  PROVE  Bounded'
<1> SUFFICES ASSUME NEW n \in Node PROVE TotalWeight(n)' <= masters' + Counted(n)'
  BY DEF Bounded
<1>1. \A s \in Slave : Weight(s, n) \in Nat /\ Weight(s, n)' \in Nat
  <2>1. \A s \in Slave : stray[s][n] \in Nat /\ stray'[s][n] \in Nat
    BY DEF TypeOK
  <2> QED
    BY <2>1 DEF Weight
<1>2. \A s \in Slave : Weight(s, n)' <= Weight(s, n) + (IF s = n THEN 0 ELSE 0)
  BY <1>1
<1>3. TotalWeight(n)' <= TotalWeight(n) + 0 /\ TotalWeight(n) \in Nat /\ TotalWeight(n)' \in Nat
  BY <1>2, TotalWeightGrows
<1>4. masters \in Nat /\ masters' \in Nat /\ Counted(n) \in Nat /\ Counted(n)' \in Nat
  BY StartUpAssumption DEF TypeOK, Counted
<1>5. TotalWeight(n) <= masters + Counted(n) /\ masters + Counted(n) <= masters' + Counted(n)'
  BY DEF Bounded
<1> QED
  BY <1>3, <1>4, <1>5

\* A step that takes messages away, the first d[s] messages to slave s among them.
LEMMA QueuesShrink ==
  ASSUME NEW d \in [Slave -> Nat],
         \A s \in Slave : \A i \in Nat : \A n \in Node : Sent(s, i, n)' => Sent(s, i + d[s], n)
  PROVE  /\ QueuedOnce => QueuedOnce'
         /\ \A s \in Slave, n \in Node : OnTheWay(s, n)' => OnTheWay(s, n)
<1>1. \A s \in Slave : \A i, j \in Nat : i + d[s] \in Nat /\ (i + d[s] = j + d[s] => i = j)
  OBVIOUS
<1>2. ASSUME QueuedOnce PROVE QueuedOnce'
  <2> SUFFICES ASSUME NEW s \in Slave, NEW n \in Node, NEW i \in Nat, NEW j \in Nat,
                      Sent(s, i, n)', Sent(s, j, n)'
               PROVE  i = j
    BY DEF QueuedOnce
  <2>1. /\ Sent(s, i + d[s], n) /\ Sent(s, j + d[s], n)
        /\ i + d[s] \in Nat /\ j + d[s] \in Nat
    BY <1>1
  <2>2. i + d[s] = j + d[s]
    BY <1>2, <2>1 DEF QueuedOnce
  <2> QED
    BY <1>1, <2>2
<1>3. ASSUME NEW s \in Slave, NEW n \in Node, OnTheWay(s, n)' PROVE OnTheWay(s, n)
  <2>1. PICK i \in Nat : Sent(s, i, n)'
    BY <1>3 DEF OnTheWay
  <2>2. Sent(s, i + d[s], n) /\ i + d[s] \in Nat
    BY <1>1, <2>1
  <2> QED
    BY <2>2 DEF OnTheWay
<1> QED
  BY <1>2, <1>3

LEMMA LighterStep ==
  ASSUME TypeOK, TypeOK', OnceInv, UNCHANGED <<masters, group>>, NEW d \in [Slave -> Nat],
         \A t \in Type : timer'[t] \in {"idle", "delayed"} => timer[t] \in {"idle", "delayed"},
         \A s \in linked' : s \in linked \/ \A n \in Node : ~OnTheWay(s, n)',
         \A s \in Slave : \A i \in Nat : \A n \in Node : Sent(s, i, n)' => Sent(s, i + d[s], n),
         \A s \in Slave, n \in Node : Weight(s, n)' <= Weight(s, n)
  PROVE  OnceInv'
<1>1. \A n \in Node : Counted(n)' = Counted(n)
  BY DEF Counted
<1>2. masters \in Nat /\ \A n \in Node : Counted(n) \in Nat
  BY StartUpAssumption DEF TypeOK, Counted
<1>3. \A n \in Node : masters + Counted(n) <= masters' + Counted(n)'
  BY <1>1, <1>2
<1>4. Bounded'
  BY <1>3, BoundedStep DEF OnceInv
<1>5. QueuedOnce' /\ \A s \in Slave, n \in Node : OnTheWay(s, n)' => OnTheWay(s, n)
  BY QueuesShrink DEF OnceInv
<1>6. UncountedUnsent'
  <2>1. linked \subseteq Slave /\ linked' \subseteq Slave
    BY DEF TypeOK
  <2>2. ASSUME NEW s \in linked', NEW n \in Node, Counted(n)' = 0 PROVE ~OnTheWay(s, n)'
    <3>1. CASE s \in linked
      <4>1. ~OnTheWay(s, n)
        BY <1>1, <2>2, <3>1 DEF OnceInv, UncountedUnsent
      <4> QED
        BY <1>5, <2>1, <3>1, <4>1
    <3> QED
      BY <3>1
  <2> QED
    BY <2>2 DEF UncountedUnsent
<1>7. CountedFromDelay'
  BY DEF OnceInv, CountedFromDelay
<1> QED
  BY <1>4, <1>5, <1>6, <1>7 DEF OnceInv

LEMMA OnceInit == Init => OnceInv
<1> SUFFICES ASSUME Init PROVE OnceInv
  OBVIOUS
<1>1. TypeOK
  BY TypeInit
<1>2. \A s \in Slave : \A i \in Nat : \A n \in Node : ~Sent(s, i, n)
  BY DEF Init, Sent
<1>3. \A s \in Slave, n \in Node : Weight(s, n) = 0
  <2> TAKE s \in Slave, n \in Node
  <2>1. stray[s][n] = 0 /\ child[s][n] = "none" /\ ~OnTheWay(s, n)
    BY <1>2 DEF Init, NoChild, OnTheWay
  <2> QED
    BY <2>1 DEF Weight
<1>4. ASSUME NEW n \in Node PROVE TotalWeight(n) <= masters + Counted(n)
  <2>1. PICK f : f = [s \in Slave |-> Weight(s, n)]
    OBVIOUS
  <2>2. f \in [Slave -> Nat] /\ \A s \in Slave : f[s] = 0
    BY <1>3, <2>1
  <2>3. Total(f) = 0
    BY <2>2, TotalOfNothing
  <2>4. TotalWeight(n) = 0
    BY <2>1, <2>3 DEF TotalWeight
  <2>5. masters = 0 /\ Counted(n) \in Nat
    BY DEF Init, Counted
  <2> QED
    BY <2>4, <2>5
<1>5. QueuedOnce /\ UncountedUnsent
  BY <1>2 DEF QueuedOnce, UncountedUnsent, Init
<1>6. CountedFromDelay
  BY DEF CountedFromDelay, Init
<1> QED
  BY <1>4, <1>5, <1>6 DEF OnceInv, Bounded

\* Starter orders nodes that it has not counted, each from one slave.
LEMMA StartNodesOnce ==
  ASSUME TypeOK, TypeOK', OnceInv, UNCHANGED <<child, stray, linked, masters>>,
         NEW t \in Type, NEW top \in Nat, group[t] <= top, top <= Max[t],
         StartNodes(t, (group[t] + 1) .. top), group' = [group EXCEPT ![t] = top]
  PROVE  Bounded' /\ QueuedOnce' /\ UncountedUnsent'
<1> DEFINE ids == (group[t] + 1) .. top
           batch(pick, s) == {<<t, i>> : i \in {j \in ids : pick[j] = s}}
<1>1. PICK pick \in [ids -> Choices(t)] :
        toSlave' = [s \in Slave |-> IF s \in linked /\ batch(pick, s) # {}
                                     THEN Append(toSlave[s], Start(batch(pick, s)))
                                     ELSE toSlave[s]]
  BY DEF StartNodes
<1>n. group \in [Type -> Nat] /\ group[t] \in Nat /\ Max[t] \in Nat
  BY StartUpAssumption DEF TypeOK
<1>2. ASSUME NEW s \in Slave, NEW n \in batch(pick, s)
      PROVE  n[1] = t /\ n[2] \in ids /\ pick[n[2]] = s
  OBVIOUS
<1>3. ASSUME NEW n \in Node, n[1] = t, n[2] \in ids PROVE Counted(n) = 0 /\ Counted(n)' = 1
  <2>1. n[2] \in Nat /\ group[t] < n[2] /\ n[2] <= top
    BY <1>3, <1>n
  <2>2. group'[t] = top
    BY <1>n
  <2> QED
    BY <1>n, <1>3, <2>1, <2>2 DEF Counted
<1>4. ASSUME NEW n \in Node, ~(n[1] = t /\ n[2] \in ids) PROVE Counted(n)' = Counted(n)
  <2>1. n[1] \in Type /\ n[2] \in Nat
    BY NodeParts, StartUpAssumption
  <2>2. CASE n[1] = t
    <3>1. group'[t] = top /\ (n[2] <= group[t] <=> n[2] <= top)
      BY <1>n, <1>4, <2>1, <2>2
    <3> QED
      BY <2>2, <3>1 DEF Counted
  <2>3. CASE n[1] # t
    BY <1>n, <2>1, <2>3 DEF Counted
  <2> QED
    BY <2>2, <2>3
<1> HIDE DEF batch, ids
<1>5. ASSUME NEW s \in Slave, NEW i \in Nat, NEW n
      PROVE  Sent(s, i, n)' <=> \/ Sent(s, i, n)
                                \/ s \in linked /\ n \in batch(pick, s) /\ i = Len(toSlave[s]) + 1
  <2>1. toSlave[s] \in Seq(Message)
    BY DEF TypeOK
  <2>2. CASE s \in linked /\ batch(pick, s) # {}
    <3>1. toSlave'[s] = Append(toSlave[s], Start(batch(pick, s)))
      BY <1>1, <2>2
    <3> DEFINE x == Start(batch(pick, s))
    <3>2. x.nodes = batch(pick, s)
      BY DEF Start
    <3> HIDE DEF x
    <3>3. /\ DOMAIN toSlave'[s] = DOMAIN toSlave[s] \cup {Len(toSlave[s]) + 1}
          /\ Len(toSlave[s]) + 1 \notin DOMAIN toSlave[s]
          /\ toSlave'[s][Len(toSlave[s]) + 1] = x
          /\ \A j \in DOMAIN toSlave[s] : toSlave'[s][j] = toSlave[s][j]
      BY <2>1, <3>1 DEF x
    <3> QED
      BY <2>2, <3>2, <3>3 DEF Sent
  <2>3. CASE ~(s \in linked /\ batch(pick, s) # {})
    BY <1>1, <2>3 DEF Sent
  <2> QED
    BY <2>2, <2>3
<1>6. ASSUME NEW s \in Slave, NEW n \in Node, s \in linked, n \in batch(pick, s)
      PROVE  ~OnTheWay(s, n) /\ Counted(n) = 0 /\ Counted(n)' = 1 /\ pick[n[2]] = s
  <2>1. n[1] = t /\ n[2] \in ids /\ pick[n[2]] = s
    BY <1>2, <1>6
  <2>2. Counted(n) = 0 /\ Counted(n)' = 1
    BY <1>3, <2>1
  <2> QED
    BY <1>6, <2>1, <2>2 DEF OnceInv, UncountedUnsent
<1>7. ASSUME NEW s \in Slave, NEW n \in Node, ~(s \in linked /\ n \in batch(pick, s))
      PROVE  OnTheWay(s, n)' <=> OnTheWay(s, n)
  BY <1>5, <1>7 DEF OnTheWay
<1>8. ASSUME NEW n \in Node PROVE TotalWeight(n)' <= masters' + Counted(n)'
  <2>n. masters \in Nat /\ Counted(n) \in Nat
    BY StartUpAssumption DEF TypeOK, Counted
  <2>w. \A s \in Slave : stray[s][n] \in Nat /\ stray' = stray /\ child' = child
    BY DEF TypeOK
  <2>0. TotalWeight(n) <= masters + Counted(n)
    BY DEF OnceInv, Bounded
  <2>1. CASE n[1] = t /\ n[2] \in ids
    <3>1. Counted(n) = 0 /\ Counted(n)' = 1
      BY <1>3, <2>1
    <3>2. PICK x : x = pick[n[2]]
      OBVIOUS
    <3>3. ASSUME NEW s \in Slave
          PROVE  Weight(s, n)' <= Weight(s, n) + (IF s = x THEN 1 ELSE 0)
      <4>1. CASE s \in linked /\ n \in batch(pick, s)
        <5>1. s = x /\ ~OnTheWay(s, n)
          BY <1>6, <3>2, <4>1
        <5> QED
          BY <2>w, <5>1 DEF Weight
      <4>2. CASE ~(s \in linked /\ n \in batch(pick, s))
        <5>1. OnTheWay(s, n)' <=> OnTheWay(s, n)
          BY <1>7, <4>2
        <5> QED
          BY <2>w, <5>1 DEF Weight
      <4> QED
        BY <4>1, <4>2
    <3>4. TotalWeight(n)' <= TotalWeight(n) + 1 /\ TotalWeight(n) \in Nat /\ TotalWeight(n)' \in Nat
      BY <3>3, TotalWeightGrows
    <3> QED
      BY <2>n, <2>0, <3>1, <3>4
  <2>2. CASE ~(n[1] = t /\ n[2] \in ids)
    <3>1. Counted(n)' = Counted(n)
      BY <1>4, <2>2
    <3>2. ASSUME NEW s \in Slave
          PROVE  Weight(s, n)' <= Weight(s, n) + (IF s = n THEN 0 ELSE 0)
      <4>1. n \notin batch(pick, s)
        BY <1>2, <2>2
      <4>2. OnTheWay(s, n)' <=> OnTheWay(s, n)
        BY <1>7, <4>1
      <4> QED
        BY <2>w, <4>2 DEF Weight
    <3>3. TotalWeight(n)' <= TotalWeight(n) + 0 /\ TotalWeight(n) \in Nat /\ TotalWeight(n)' \in Nat
      BY <3>2, TotalWeightGrows
    <3> QED
      BY <2>n, <2>0, <3>1, <3>3
  <2> QED
    BY <2>1, <2>2
<1>9. QueuedOnce'
  <2> SUFFICES ASSUME NEW s \in Slave, NEW n \in Node, NEW i \in Nat, NEW j \in Nat,
                      Sent(s, i, n)', Sent(s, j, n)'
               PROVE  i = j
    BY DEF QueuedOnce
  <2>1. CASE s \in linked /\ n \in batch(pick, s)
    <3>1. ~Sent(s, i, n) /\ ~Sent(s, j, n)
      BY <1>6, <2>1 DEF OnTheWay
    <3> QED
      BY <1>5, <3>1
  <2>2. CASE ~(s \in linked /\ n \in batch(pick, s))
    <3>1. Sent(s, i, n) /\ Sent(s, j, n)
      BY <1>5, <2>2
    <3> QED
      BY <3>1 DEF OnceInv, QueuedOnce
  <2> QED
    BY <2>1, <2>2
<1>10. ASSUME NEW s \in linked', NEW n \in Node, Counted(n)' = 0 PROVE ~OnTheWay(s, n)'
  <2>1. s \in linked /\ s \in Slave
    BY DEF TypeOK
  <2>2. n \notin batch(pick, s)
    BY <1>6, <1>10, <2>1
  <2>3. Counted(n) = 0
    <3>1. ~(n[1] = t /\ n[2] \in ids)
      BY <1>3, <1>10
    <3> QED
      BY <1>4, <1>10, <3>1
  <2>4. ~OnTheWay(s, n)
    BY <2>1, <2>3 DEF OnceInv, UncountedUnsent
  <2> QED
    BY <1>7, <2>1, <2>2, <2>4
<1> QED
  BY <1>8, <1>9, <1>10 DEF Bounded, UncountedUnsent

\* A slave starts a process of a node that its message names, or starts it no more.
LEMMA ReadStartOnce ==
  ASSUME TypeOK, TypeOK', OnceInv, NEW s \in Slave, ReadStart(s)
  PROVE  OnceInv'
<1>1. PICK n \in Head(toSlave[s]).nodes :
        LET rest == Head(toSlave[s]).nodes \ {n}
        IN  /\ toSlave' = [toSlave EXCEPT ![s] = IF rest = {} THEN Tail(@)
                                                 ELSE <<Start(rest)>> \o Tail(@)]
            /\ OpenNewNode(s, n)
  BY DEF ReadStart
<1> DEFINE rest == Head(toSlave[s]).nodes \ {n}
           d == [x \in Slave |-> IF x = s /\ rest = {} THEN 1 ELSE 0]
<1>2. /\ toSlave \in [Slave -> Seq(Message)] /\ toSlave[s] # <<>>
      /\ UNCHANGED <<group, timer, masters, linked>>
  BY DEF ReadStart, TypeOK, master
<1>3. Head(toSlave[s]) = toSlave[s][1] /\ 1 \in DOMAIN toSlave[s] /\ toSlave[s][1] \in Message
  BY <1>2
<1>4. n \in Node /\ Sent(s, 1, n)
  BY <1>1, <1>3, Messages DEF Sent
<1>5. \A i \in Nat : Sent(s, i, n) => i = 1
  BY <1>4 DEF OnceInv, QueuedOnce
<1>7. d \in [Slave -> Nat]
  OBVIOUS
<1>8. ASSUME NEW r \in Slave, NEW i \in Nat, NEW m, Sent(r, i, m)'
      PROVE  Sent(r, i + d[r], m) /\ ~(r = s /\ m = n /\ i + d[r] = 1)
  <2>1. CASE r # s
    <3>1. toSlave'[r] = toSlave[r] /\ i + d[r] = i
      BY <1>1, <1>2, <2>1
    <3> QED
      BY <1>8, <2>1, <3>1 DEF Sent
  <2>2. CASE r = s /\ rest = {}
    <3>1. toSlave'[s] = Tail(toSlave[s]) /\ d[s] = 1
      BY <1>1, <1>2, <2>2
    <3>2. i \in DOMAIN Tail(toSlave[s]) /\ m \in Tail(toSlave[s])[i].nodes
      BY <1>8, <2>2, <3>1 DEF Sent
    <3>3. i + 1 \in DOMAIN toSlave[s] /\ Tail(toSlave[s])[i] = toSlave[s][i + 1] /\ i + 1 # 1
      BY <1>2, <3>2
    <3> QED
      BY <2>2, <3>1, <3>2, <3>3 DEF Sent
  <2>3. CASE r = s /\ rest # {}
    <3> DEFINE x == Start(rest)
    <3>1. toSlave'[s] = <<x>> \o Tail(toSlave[s]) /\ d[s] = 0 /\ x.nodes = rest
      BY <1>1, <1>2, <2>3 DEF Start
    <3> HIDE DEF x, d
    <3>2. i \in DOMAIN (<<x>> \o Tail(toSlave[s])) /\ m \in (<<x>> \o Tail(toSlave[s]))[i].nodes
      BY <1>8, <2>3, <3>1 DEF Sent
    <3>3. /\ i \in DOMAIN toSlave[s]
          /\ i = 1 => (<<x>> \o Tail(toSlave[s]))[i] = x
          /\ i # 1 => (<<x>> \o Tail(toSlave[s]))[i] = toSlave[s][i]
      BY <1>2, <3>2
    <3>4. i + d[r] = i
      BY <2>3, <3>1
    <3>5. CASE i = 1
      BY <1>3, <2>3, <3>1, <3>2, <3>3, <3>4, <3>5 DEF Sent
    <3>6. CASE i # 1
      BY <2>3, <3>2, <3>3, <3>4, <3>6 DEF Sent
    <3> QED
      BY <3>5, <3>6
  <2> QED
    BY <2>1, <2>2, <2>3
<1> HIDE DEF d, rest
<1>9. OnTheWay(s, n) /\ ~OnTheWay(s, n)'
  <2>1. OnTheWay(s, n)
    BY <1>4 DEF OnTheWay
  <2>2. ASSUME NEW i \in Nat, Sent(s, i, n)' PROVE FALSE
    <3>1. Sent(s, i + d[s], n) /\ i + d[s] # 1 /\ i + d[s] \in Nat
      BY <1>7, <1>8, <2>2
    <3> QED
      BY <1>5, <3>1
  <2> QED
    BY <2>1, <2>2 DEF OnTheWay
<1>10. \A r \in Slave, m \in Node : OnTheWay(r, m)' => OnTheWay(r, m)
  BY <1>7, <1>8, QueuesShrink
<1>11. OpenNewNode(s, n)
  BY <1>1
<1>12. /\ \A r \in Slave, m \in Node : ~(r = s /\ m = n) => /\ child'[r][m] = child[r][m]
                                                           /\ stray'[r][m] = stray[r][m]
       /\ \/ stray'[s][n] = stray[s][n]
          \/ child[s][n] # "none" /\ child' = child /\ stray'[s][n] = stray[s][n] + 1
       /\ child[s][n] # "none" => child' = child
  <2>1. child \in [Slave -> [Node -> ChildState]] /\ stray \in [Slave -> [Node -> Nat]]
    BY DEF TypeOK, ChildState
  <2>2. CASE child[s][n] # "none" /\ stray' = [stray EXCEPT ![s][n] = @ + 1] /\ child' = child
    <3>1. stray[s][n] + 1 \in Nat /\ stray' = [stray EXCEPT ![s][n] = stray[s][n] + 1]
      BY <1>4, <2>1, <2>2
    <3>2. \A r \in Slave, m \in Node :
             stray'[r][m] = IF r = s /\ m = n THEN stray[s][n] + 1 ELSE stray[r][m]
      BY <1>4, <2>1, <3>1, SetEntry
    <3> QED
      BY <1>4, <2>2, <3>2
  <2>3. CASE /\ child[s][n] = "none" /\ stray' = stray
             /\ \E v \in ChildState : child' = [child EXCEPT ![s][n] = v]
    <3>1. PICK v \in ChildState : child' = [child EXCEPT ![s][n] = v]
      BY <2>3
    <3>2. \A r \in Slave, m \in Node :
             child'[r][m] = IF r = s /\ m = n THEN v ELSE child[r][m]
      BY <1>4, <2>1, <3>1, SetEntry
    <3> QED
      BY <2>3, <3>2
  <2>4. CASE child' = child /\ stray' = stray
    BY <2>4
  <2> QED
    BY <1>11, <2>2, <2>3, <2>4 DEF OpenNewNode, ChildState
<1>13. ASSUME NEW r \in Slave, NEW m \in Node PROVE Weight(r, m)' <= Weight(r, m)
  <2>1. stray[r][m] \in Nat /\ stray'[r][m] \in Nat
    BY DEF TypeOK
  <2>2. CASE r = s /\ m = n
    <3>1. Weight(s, n)' = 0 + stray'[s][n] + (IF child'[s][n] # "none" THEN 1 ELSE 0)
      BY <1>9 DEF Weight
    <3>2. Weight(s, n) = 1 + stray[s][n] + (IF child[s][n] # "none" THEN 1 ELSE 0)
      BY <1>9 DEF Weight
    <3> QED
      BY <1>12, <2>1, <2>2, <3>1, <3>2
  <2>3. CASE ~(r = s /\ m = n)
    <3>1. OnTheWay(r, m)' => OnTheWay(r, m)
      BY <1>10
    <3>2. child'[r][m] = child[r][m] /\ stray'[r][m] = stray[r][m]
      BY <1>12, <2>3
    <3> QED
      BY <2>1, <3>1, <3>2 DEF Weight
  <2> QED
    BY <2>2, <2>3
<1> QED
  BY <1>2, <1>7, <1>8, <1>13, LighterStep

\* A step of the processes changes the weight if it changes one of its three parts.
LEMMA WeightParts ==
  ASSUME TypeOK, TypeOK', NEW s \in Slave, NEW n \in Node,
         OnTheWay(s, n)' => OnTheWay(s, n),
         stray'[s][n] <= stray[s][n], child'[s][n] # "none" => child[s][n] # "none"
  PROVE  Weight(s, n)' <= Weight(s, n)
<1>1. stray[s][n] \in Nat /\ stray'[s][n] \in Nat
  BY DEF TypeOK
<1> QED
  BY <1>1 DEF Weight

LEMMA OnceStep == TypeOK /\ TypeOK' /\ OnceInv /\ [Next]_vars => OnceInv'
<1> SUFFICES ASSUME TypeOK, TypeOK', OnceInv, [Next]_vars PROVE OnceInv'
  OBVIOUS
<1> DEFINE none == [s \in Slave |-> 0]
<1>3. none \in [Slave -> Nat] /\ \A s \in Slave : \A i \in Nat : i + none[s] = i
  OBVIOUS
<1> HIDE DEF none
<1>t. \A s \in Slave, n \in Node : stray[s][n] \in Nat /\ stray'[s][n] \in Nat
  BY DEF TypeOK
<1>1. CASE MasterCrash
  <2>1. /\ group' = [t \in Type |-> 0] /\ linked' = {} /\ masters' = masters + 1
        /\ UNCHANGED <<child, stray>>
        /\ toSlave' \in {toSlave, [s \in Slave |-> <<>>]}
    BY <1>1 DEF MasterCrash, machines
  <2>2. \A s \in Slave : \A i \in Nat : \A n \in Node : Sent(s, i, n)' => Sent(s, i, n)
    <3>1. CASE toSlave' = toSlave
      BY <3>1 DEF Sent
    <3>2. CASE toSlave' = [s \in Slave |-> <<>>]
      BY <3>2 DEF Sent
    <3> QED
      BY <2>1, <3>1, <3>2
  <2>3. \A s \in Slave : \A i \in Nat : \A n \in Node : Sent(s, i, n)' => Sent(s, i + none[s], n)
    BY <1>3, <2>2
  <2>4. QueuedOnce' /\ \A s \in Slave, n \in Node : OnTheWay(s, n)' => OnTheWay(s, n)
    BY <1>3, <2>3, QueuesShrink DEF OnceInv
  <2>5. \A s \in Slave, n \in Node : Weight(s, n)' <= Weight(s, n)
    <3> TAKE s \in Slave, n \in Node
    <3>1. stray'[s][n] <= stray[s][n] /\ child'[s][n] = child[s][n]
      BY <1>t, <2>1
    <3> QED
      BY <2>4, <3>1, WeightParts
  <2>6. \A n \in Node : masters + Counted(n) <= masters' + Counted(n)'
    BY <2>1, StartUpAssumption DEF TypeOK, Counted
  <2>7. Bounded'
    BY <2>5, <2>6, BoundedStep DEF OnceInv
  <2>8. UncountedUnsent' /\ CountedFromDelay'
    BY <2>1 DEF UncountedUnsent, CountedFromDelay
  <2> QED
    BY <2>4, <2>7, <2>8 DEF OnceInv
<1>5. CASE \/ \E s \in Slave : SlaveOpen(s) \/ SlaveRestart(s) \/ Reset(s)
           \/ \E n \in Node : NodeOpen(n) \/ NodeClose(n) \/ \E l \in Load : NodeLoadReport(n, l)
           \/ PreShutDown \/ MasterRestart \/ UNCHANGED vars
  <2>1. /\ UNCHANGED <<child, stray, group, masters>>
        /\ \A t \in Type : timer'[t] \in {"idle", "delayed"} => timer[t] \in {"idle", "delayed"}
    BY <1>5 DEF SlaveOpen, SlaveRestart, Reset, NodeOpen, NodeClose, NodeLoadReport,
                PreShutDown, MasterRestart, vars, master, machines, history, TypeOK
  <2>2. ASSUME NEW s \in Slave
        PROVE  toSlave'[s] \in {toSlave[s], <<>>, Append(toSlave[s], Stop)}
    BY <1>5 DEF SlaveOpen, SlaveRestart, Reset, NodeOpen, NodeClose, NodeLoadReport,
                PreShutDown, Broadcast, MasterRestart, vars, wire, TypeOK
  <2>3. ASSUME NEW s \in Slave, NEW i \in Nat, NEW n, Sent(s, i, n)' PROVE Sent(s, i, n)
    <3>1. toSlave[s] \in Seq(Message) /\ Stop.nodes = {}
      BY DEF TypeOK, Stop
    <3>2. CASE toSlave'[s] = Append(toSlave[s], Stop)
      <4>1. /\ DOMAIN toSlave'[s] = DOMAIN toSlave[s] \cup {Len(toSlave[s]) + 1}
            /\ toSlave'[s][Len(toSlave[s]) + 1] = Stop
            /\ \A j \in DOMAIN toSlave[s] : toSlave'[s][j] = toSlave[s][j]
        BY <3>1, <3>2
      <4> QED
        BY <2>3, <3>1, <4>1 DEF Sent
    <3>3. CASE toSlave'[s] = toSlave[s] \/ toSlave'[s] = <<>>
      BY <2>3, <3>3 DEF Sent
    <3> QED
      BY <2>2, <3>2, <3>3
  <2>4. \A s \in Slave : \A i \in Nat : \A n \in Node : Sent(s, i, n)' => Sent(s, i + none[s], n)
    BY <1>3, <2>3
  <2>5. \A s \in Slave, n \in Node : Weight(s, n)' <= Weight(s, n)
    <3> TAKE s \in Slave, n \in Node
    <3>1. stray'[s][n] <= stray[s][n] /\ child'[s][n] = child[s][n]
      BY <1>t, <2>1
    <3>2. OnTheWay(s, n)' => OnTheWay(s, n)
      BY <2>3 DEF OnTheWay
    <3> QED
      BY <3>1, <3>2, WeightParts
  <2>6. \A s \in linked' : s \in linked \/ \A n \in Node : ~OnTheWay(s, n)'
    <3> TAKE s \in linked'
    <3>1. CASE SlaveOpen(s)
      BY <3>1 DEF SlaveOpen, OnTheWay, Sent
    <3>2. CASE ~SlaveOpen(s)
      BY <1>5, <3>2 DEF SlaveOpen, SlaveRestart, Reset, NodeOpen, NodeClose, NodeLoadReport,
                        PreShutDown, MasterRestart, vars, wire
    <3> QED
      BY <3>1, <3>2
  <2> QED
    BY <1>3, <2>1, <2>4, <2>5, <2>6, LighterStep
<1>6. ASSUME NEW s \in Slave, ReadStop(s) PROVE OnceInv'
  <2> DEFINE d == [x \in Slave |-> IF x = s THEN 1 ELSE 0]
  <2>1. UNCHANGED <<child, stray, group, timer, masters, linked>>
    BY <1>6 DEF ReadStop, master
  <2>2. /\ toSlave[s] \in Seq(Message) /\ toSlave[s] # <<>> /\ toSlave'[s] = Tail(toSlave[s])
        /\ \A x \in Slave \ {s} : toSlave'[x] = toSlave[x]
    BY <1>6 DEF ReadStop, TypeOK
  <2>3. ASSUME NEW x \in Slave, NEW i \in Nat, NEW n, Sent(x, i, n)' PROVE Sent(x, i + d[x], n)
    <3>1. CASE x = s
      <4>1. /\ i \in DOMAIN Tail(toSlave[s]) /\ n \in Tail(toSlave[s])[i].nodes
            /\ d[x] = 1
        BY <2>2, <2>3, <3>1 DEF Sent
      <4>2. i + 1 \in DOMAIN toSlave[s] /\ Tail(toSlave[s])[i] = toSlave[s][i + 1]
        BY <2>2, <4>1
      <4> QED
        BY <3>1, <4>1, <4>2 DEF Sent
    <3>2. CASE x # s
      <4>1. d[x] = 0 /\ i + 0 = i /\ toSlave'[x] = toSlave[x]
        BY <2>2, <3>2
      <4> QED
        BY <2>3, <4>1 DEF Sent
    <3> QED
      BY <3>1, <3>2
  <2>4. d \in [Slave -> Nat]
    OBVIOUS
  <2> HIDE DEF d
  <2>5. \A x \in Slave, n \in Node : OnTheWay(x, n)' => OnTheWay(x, n)
    BY <2>3, <2>4, QueuesShrink
  <2>6. \A x \in Slave, n \in Node : Weight(x, n)' <= Weight(x, n)
    <3> TAKE x \in Slave, n \in Node
    <3>1. stray'[x][n] <= stray[x][n] /\ child'[x][n] = child[x][n]
      BY <1>t, <2>1
    <3> QED
      BY <2>5, <3>1, WeightParts
  <2> QED
    BY <2>1, <2>3, <2>4, <2>6, LighterStep
<1>7. ASSUME NEW t \in Type, NodeTimerStart(t) PROVE OnceInv'
  <2>1. /\ timer[t] = "delayed" /\ timer' = [timer EXCEPT ![t] = "running"]
        /\ group' = [group EXCEPT ![t] = Min[t]] /\ StartNodes(t, 1 .. Min[t])
        /\ UNCHANGED <<child, stray, masters, linked>>
    BY <1>7 DEF NodeTimerStart, machines
  <2>2. group[t] = 0 /\ Min[t] \in Nat /\ Max[t] \in Nat /\ Min[t] <= Max[t] /\ 0 <= Min[t]
    BY <2>1, StartUpAssumption DEF OnceInv, CountedFromDelay
  <2>3. StartNodes(t, (group[t] + 1) .. Min[t])
    <3>1. (group[t] + 1) .. Min[t] = 1 .. Min[t]
      BY <2>2
    <3> QED
      BY <2>1, <3>1
  <2>4. Bounded' /\ QueuedOnce' /\ UncountedUnsent'
    BY <2>1, <2>2, <2>3, StartNodesOnce
  <2>5. CountedFromDelay'
    BY <2>1 DEF OnceInv, CountedFromDelay, TypeOK
  <2> QED
    BY <2>4, <2>5 DEF OnceInv
<1>8. ASSUME NEW t \in Type, NodeTimer(t) PROVE OnceInv'
  <2>1. /\ timer[t] = "running" /\ timer' = timer /\ group[t] < Max[t]
        /\ group' = [group EXCEPT ![t] = group[t] + 1] /\ StartNodes(t, {group[t] + 1})
        /\ UNCHANGED <<child, stray, masters, linked>>
    BY <1>8 DEF NodeTimer, machines
  <2>2. PICK top \in Nat : /\ top = group[t] + 1 /\ group[t] <= top /\ top <= Max[t]
                           /\ (group[t] + 1) .. top = {group[t] + 1}
    <3>1. group[t] \in Nat /\ Max[t] \in Nat
      BY StartUpAssumption DEF TypeOK
    <3> QED
      BY <2>1, <3>1
  <2>3. StartNodes(t, (group[t] + 1) .. top)
    BY <2>1, <2>2
  <2>4. Bounded' /\ QueuedOnce' /\ UncountedUnsent'
    BY <2>1, <2>2, <2>3, StartNodesOnce
  <2>5. CountedFromDelay'
    BY <2>1 DEF OnceInv, CountedFromDelay, TypeOK
  <2> QED
    BY <2>4, <2>5 DEF OnceInv
<1>9. ASSUME NEW s \in Slave, ReadStart(s) PROVE OnceInv'
  BY <1>9, ReadStartOnce
<1>10. ASSUME NEW s \in Slave, NEW n \in Node, CheckNode(s, n) \/ ChildExit(s, n)
       PROVE  OnceInv'
  <2>1. UNCHANGED <<toSlave, group, timer, masters, linked>>
    BY <1>10 DEF CheckNode, ChildExit, master, wire
  <2>2. child \in [Slave -> [Node -> ChildState]] /\ stray \in [Slave -> [Node -> Nat]]
    BY DEF TypeOK, ChildState
  <2>3. \A x \in Slave, m \in Node :
           /\ child'[x][m] # "none" => child[x][m] # "none"
           /\ stray'[x][m] <= stray[x][m]
    <3>1. CASE /\ child[s][n] # "none" /\ UNCHANGED stray
               /\ \E v \in ChildState : child' = [child EXCEPT ![s][n] = v]
      <4>1. PICK v \in ChildState : child' = [child EXCEPT ![s][n] = v]
        BY <3>1
      <4>2. \A x \in Slave, m \in Node :
               child'[x][m] = IF x = s /\ m = n THEN v ELSE child[x][m]
        BY <2>2, <4>1, SetEntry
      <4> QED
        BY <1>t, <3>1, <4>2
    <3>2. CASE stray[s][n] > 0 /\ stray' = [stray EXCEPT ![s][n] = @ - 1] /\ UNCHANGED child
      <4>1. stray[s][n] - 1 \in Nat /\ stray' = [stray EXCEPT ![s][n] = stray[s][n] - 1]
        BY <2>2, <3>2
      <4>2. \A x \in Slave, m \in Node :
               stray'[x][m] = IF x = s /\ m = n THEN stray[s][n] - 1 ELSE stray[x][m]
        BY <2>2, <4>1, SetEntry
      <4> QED
        BY <1>t, <3>2, <4>2
    <3> QED
      BY <1>10, <3>1, <3>2 DEF CheckNode, ChildExit, ChildState
  <2>4. \A x \in Slave : \A i \in Nat : \A m \in Node : Sent(x, i, m)' => Sent(x, i + none[x], m)
    BY <1>3, <2>1 DEF Sent
  <2>5. \A x \in Slave, m \in Node : Weight(x, m)' <= Weight(x, m)
    <3> TAKE x \in Slave, m \in Node
    <3>1. OnTheWay(x, m)' => OnTheWay(x, m)
      BY <2>1 DEF OnTheWay, Sent
    <3> QED
      BY <2>3, <3>1, WeightParts
  <2> QED
    BY <1>3, <2>1, <2>4, <2>5, LighterStep
<1>11. ASSUME NEW s \in Slave, SlaveCrash(s) PROVE OnceInv'
  <2>1. /\ UNCHANGED <<group, timer, masters>> /\ linked' \subseteq linked
        /\ toSlave'[s] = <<>> /\ \A x \in Slave \ {s} : toSlave'[x] = toSlave[x]
        /\ \A n \in Node : stray'[s][n] = Running(s, n) /\ child'[s][n] = "none"
        /\ \A x \in Slave \ {s} : stray'[x] = stray[x] /\ child'[x] = child[x]
    BY <1>11 DEF SlaveCrash, NoChild, master, TypeOK
  <2>2. \A x \in Slave : \A i \in Nat : \A n \in Node : Sent(x, i, n)' => Sent(x, i, n)
    BY <2>1 DEF Sent
  <2>3. \A x \in Slave : \A i \in Nat : \A n \in Node : Sent(x, i, n)' => Sent(x, i + none[x], n)
    BY <1>3, <2>2
  <2>4. \A x \in Slave, n \in Node : OnTheWay(x, n)' => OnTheWay(x, n)
    BY <1>3, <2>3, QueuesShrink
  <2>5. ASSUME NEW x \in Slave, NEW n \in Node PROVE Weight(x, n)' <= Weight(x, n)
    <3>1. CASE x = s
      <4>1. /\ stray'[s][n] = stray[s][n] + (IF child[s][n] = "runs" THEN 1 ELSE 0)
            /\ child'[s][n] = "none"
        BY <2>1 DEF Running
      <4>2. OnTheWay(s, n)' => OnTheWay(s, n)
        BY <2>4
      <4> QED
        BY <1>t, <3>1, <4>1, <4>2 DEF Weight
    <3>2. CASE x # s
      <4>1. stray'[x][n] <= stray[x][n] /\ child'[x][n] = child[x][n]
        BY <1>t, <2>1, <3>2
      <4> QED
        BY <2>4, <4>1, WeightParts
    <3> QED
      BY <3>1, <3>2
  <2> QED
    BY <1>3, <2>1, <2>3, <2>5, LighterStep
<1> QED
  BY <1>1, <1>5, <1>6, <1>7, <1>8, <1>9, <1>10, <1>11 DEF Next

\* What the processes of a node weigh bounds their number.
LEMMA FewCopies ==
  ASSUME TypeOK, Bounded, NEW n \in Node
  PROVE  Copies(n) <= 1 + masters
<1>1. PICK f : f = [s \in Slave |-> Running(s, n)]
  OBVIOUS
<1>2. PICK g : g = [s \in Slave |-> Weight(s, n)]
  OBVIOUS
<1>3. f \in [Slave -> Nat] /\ g \in [Slave -> Nat]
  <2>1. \A s \in Slave : Running(s, n) \in Nat
    BY DEF Running, TypeOK
  <2> QED
    BY <1>1, <1>2, <2>1, WeightType
<1>4. ASSUME NEW s \in Slave PROVE f[s] <= g[s] + (IF s = n THEN 0 ELSE 0)
  <2>1. stray[s][n] \in Nat
    BY DEF TypeOK
  <2>2. Running(s, n) <= Weight(s, n)
    BY <2>1 DEF Running, Weight
  <2> QED
    BY <1>1, <1>2, <1>3, <2>2
<1>5. PICK it : Sums(it, f) /\ Copies(n) = it[Slave]
  BY <1>1, CopiesTotal
<1>6. PICK jt : Sums(jt, g) /\ Total(g) = jt[Slave] /\ Total(g) \in Nat
  BY <1>3, TotalSums
<1>7. it[Slave] <= jt[Slave] + 0
  BY <1>3, <1>4, <1>5, <1>6, SumsCompare
<1>8. TotalWeight(n) = Total(g)
  BY <1>2 DEF TotalWeight
<1>9. it[Slave] \in Nat
  BY <1>5, WholeAndNone DEF Sums
<1>10. Total(g) <= masters + Counted(n) /\ Counted(n) \in {0, 1} /\ masters \in Nat
  BY <1>8, StartUpAssumption DEF Bounded, Counted, TypeOK
<1> QED
  BY <1>5, <1>6, <1>7, <1>9, <1>10

\* A node gets at most one process per master there has been, whatever becomes of masters,
\* slaves, connections, processes and forks (Starter::startNode, Slave::openNewNode,
\* CheckNodeTimer::onTime).
THEOREM OneForEachMaster == Spec => []OneProcess
<1>1. TypeOK /\ OnceInv => OneProcess
  BY FewCopies DEF OnceInv, OneProcess
<1>2. Init => OnceInv
  BY OnceInit
<1>3. TypeOK /\ TypeOK' /\ OnceInv /\ [Next]_vars => OnceInv'
  BY OnceStep
<1>4. Spec => []TypeOK
  BY TypeCorrect
<1> QED
  BY <1>1, <1>2, <1>3, <1>4, PTL DEF Spec
=============================================================================
