------------------------ MODULE ClusterFormation_proofs ------------------------
(***************************************************************************)
(* Proofs about ClusterFormation.tla, for every set of nodes, types and    *)
(* ids and any number of faults: its type invariant, that two processes    *)
(* never dial each other twice, and that nobody the master knows is left   *)
(* untold.                                                                 *)
(***************************************************************************)
EXTENDS ClusterFormation, TLAPS

\* A process has exactly one session for each node it has opened, and opens those
\* nodes only that it has to dial.
SessionsMatch ==
  \A p \in Pair : /\ sessions[p] = IF p[2] \in openNodes[p[1]] THEN 1 ELSE 0
                  /\ p[2] \in openNodes[p[1]] => Dials(p[1], p[2])

\* The inductive invariant.
IInv == TypeOK /\ SessionsMatch /\ ToldOrOnTheWay

-----------------------------------------------------------------------------
\* The rule who dials gives every pair to one of its two nodes at most.
LEMMA DialsOneWay ==
  ASSUME NEW n \in Node, NEW m \in Node, Dials(n, m)
  PROVE  ~Dials(m, n) /\ n # m
  BY FormationAssumption DEF Dials

LEMMA InitIInv == Init => IInv
  <1> SUFFICES ASSUME Init PROVE IInv
    OBVIOUS
  <1>1. TypeOK
    BY FormationAssumption DEF Init, TypeOK
  <1>2. SessionsMatch
    BY DEF Init, SessionsMatch, Pair
  <1>3. ToldOrOnTheWay
    BY DEF Init, ToldOrOnTheWay
  <1> QED BY <1>1, <1>2, <1>3 DEF IInv

-----------------------------------------------------------------------------
\* Type correctness, action by action.
LEMMA TypeNext == TypeOK /\ [Next]_vars => TypeOK'
  <1> SUFFICES ASSUME TypeOK, [Next]_vars PROVE TypeOK'
    OBVIOUS
  <1> USE FormationAssumption DEF TypeOK
  <1>1. CASE MasterCrash
    <2>1. inbox' \in [Node -> SUBSET Exposed] /\ \A m \in Node : m \notin inbox'[m]
      <3>1. CASE inbox' = inbox
        BY <3>1
      <3>2. CASE inbox' = [n \in Node |-> {}]
        BY <3>2
      <3> QED BY <1>1, <3>1, <3>2 DEF MasterCrash
    <2>2. faults' \in 0 .. MaxFaults
      BY <1>1 DEF MasterCrash
    <2> QED BY <1>1, <2>1, <2>2 DEF MasterCrash, meshVars
  <1>2. CASE MasterRestart
    BY <1>2 DEF MasterRestart, meshVars
  <1>3. ASSUME NEW n \in Node, OnOpen(n) PROVE TypeOK'
    <2>1. inbox' \in [Node -> SUBSET Exposed] /\ \A m \in Node : m \notin inbox'[m]
      BY <1>3 DEF OnOpen, Announce
    <2> QED BY <1>3, <2>1 DEF OnOpen, meshVars
  <1>4. ASSUME NEW n \in Node, MasterReset(n) PROVE TypeOK'
    BY <1>4 DEF MasterReset, meshVars
  <1>5. ASSUME NEW n \in Node, Crash(n) PROVE TypeOK'
    BY <1>5 DEF Crash
  <1>6. ASSUME NEW n \in Node, Restart(n) PROVE TypeOK'
    BY <1>6 DEF Restart, meshVars, masterVars
  <1>7. ASSUME NEW n \in Node, NEW m \in Node, NewNodeComing(n, m) PROVE TypeOK'
    <2>1. m \in Exposed /\ <<n, m>> \in Pair
      BY <1>7 DEF NewNodeComing, Pair
    <2>2. inbox' \in [Node -> SUBSET Exposed] /\ \A k \in Node : k \notin inbox'[k]
      BY <1>7 DEF NewNodeComing
    <2>3. openNodes' \in [Node -> SUBSET Exposed]
      BY <1>7, <2>1 DEF NewNodeComing
    <2>4. sessions' \in [Pair -> Nat]
      <3>1. sessions[<<n, m>>] + 1 \in Nat
        BY <2>1
      <3>2. sessions' = sessions \/ sessions' = [sessions EXCEPT ![<<n, m>>] = @ + 1]
        BY <1>7 DEF NewNodeComing
      <3> HIDE DEF TypeOK
      <3>3. sessions \in [Pair -> Nat]
        BY DEF TypeOK
      <3> QED BY <3>1, <3>2, <3>3
    <2>5. dial' \in [Pair -> {"none", "retry", "wait", "ready"}]
      BY <1>7, <2>1 DEF NewNodeComing
    <2> QED BY <1>7, <2>2, <2>3, <2>4, <2>5 DEF NewNodeComing
  <1>8. ASSUME NEW p \in Pair, Connect(p) PROVE TypeOK'
    BY <1>8 DEF Connect, masterVars
  <1>9. ASSUME NEW p \in Pair, DialReady(p) PROVE TypeOK'
    BY <1>9 DEF DialReady, masterVars
  <1>10. ASSUME NEW p \in Pair, AccReady(p) PROVE TypeOK'
    BY <1>10 DEF AccReady, masterVars
  <1>11. ASSUME NEW p \in Pair, DialClose(p) PROVE TypeOK'
    BY <1>11 DEF DialClose, masterVars
  <1>12. ASSUME NEW p \in Pair, AccClose(p) PROVE TypeOK'
    BY <1>12 DEF AccClose, masterVars
  <1>13. ASSUME NEW p \in Pair, Reset(p) PROVE TypeOK'
    BY <1>13 DEF Reset, masterVars
  <1>14. CASE UNCHANGED vars
    BY <1>14 DEF vars, masterVars, meshVars
  <1> QED
    BY <1>1, <1>2, <1>3, <1>4, <1>5, <1>6, <1>7, <1>8, <1>9, <1>10, <1>11, <1>12,
       <1>13, <1>14 DEF Next

-----------------------------------------------------------------------------
\* Sessions and opened nodes change in two actions only: a node learns of another
\* one, or dies.
LEMMA SessionsNext == TypeOK /\ SessionsMatch /\ [Next]_vars => SessionsMatch'
  <1> SUFFICES ASSUME TypeOK, SessionsMatch, [Next]_vars, NEW q \in Pair
               PROVE  /\ sessions'[q] = IF q[2] \in openNodes'[q[1]] THEN 1 ELSE 0
                      /\ q[2] \in openNodes'[q[1]] => Dials(q[1], q[2])
    BY DEF SessionsMatch, Dials
  <1>q. /\ q[1] \in Node /\ q[2] \in Node /\ q = <<q[1], q[2]>>
        /\ sessions[q] = IF q[2] \in openNodes[q[1]] THEN 1 ELSE 0
        /\ q[2] \in openNodes[q[1]] => Dials(q[1], q[2])
    BY DEF SessionsMatch, Pair
  <1>1. ASSUME NEW n \in Node, NEW m \in Node, NewNodeComing(n, m)
        PROVE  /\ sessions'[q] = IF q[2] \in openNodes'[q[1]] THEN 1 ELSE 0
               /\ q[2] \in openNodes'[q[1]] => Dials(q[1], q[2])
    <2>1. <<n, m>> \in Pair
      BY <1>1 DEF NewNodeComing, TypeOK, Pair
    <2>2. CASE m \notin openNodes[n] /\ Dials(n, m)
      <3>1. /\ openNodes'[q[1]] = IF q[1] = n THEN openNodes[n] \cup {m} ELSE openNodes[q[1]]
            /\ sessions'[q] = IF q = <<n, m>> THEN sessions[q] + 1 ELSE sessions[q]
        BY <1>1, <1>q, <2>1, <2>2 DEF NewNodeComing, TypeOK
      <3>2. q = <<n, m>> <=> q[1] = n /\ q[2] = m
        BY <1>q
      <3> QED BY <1>q, <2>2, <3>1, <3>2
    <2>3. CASE ~(m \notin openNodes[n] /\ Dials(n, m))
      BY <1>1, <1>q, <2>3 DEF NewNodeComing
    <2> QED BY <2>2, <2>3
  <1>2. ASSUME NEW n \in Node, Crash(n)
        PROVE  /\ sessions'[q] = IF q[2] \in openNodes'[q[1]] THEN 1 ELSE 0
               /\ q[2] \in openNodes'[q[1]] => Dials(q[1], q[2])
    BY <1>2, <1>q DEF Crash, TypeOK
  <1>3. CASE UNCHANGED <<openNodes, sessions>>
    BY <1>3, <1>q
  <1>4. \/ \E n, m \in Node : NewNodeComing(n, m)
        \/ \E n \in Node : Crash(n)
        \/ UNCHANGED <<openNodes, sessions>>
    BY DEF Next, vars, masterVars, meshVars, MasterCrash, MasterRestart, OnOpen, MasterReset,
           Restart, Connect, DialReady, AccReady, DialClose, AccClose, Reset
  <1> QED BY <1>1, <1>2, <1>3, <1>4

-----------------------------------------------------------------------------
\* What has been announced, action by action.
LEMMA ToldNext == TypeOK /\ ToldOrOnTheWay /\ [Next]_vars => ToldOrOnTheWay'
  <1> SUFFICES ASSUME TypeOK, ToldOrOnTheWay, [Next]_vars,
                      NEW d \in nodes', NEW a \in nodes',
                      Dials(d, a), d \in linked' \ refused'
               PROVE  a \in openNodes'[d] \cup inbox'[d]
    BY DEF ToldOrOnTheWay, Dials
  <1> USE FormationAssumption DEF TypeOK
  <1>0. d \in Node /\ a \in Node /\ d # a
    BY TypeNext, DialsOneWay
  <1>1. CASE MasterCrash \/ MasterRestart
    BY <1>1 DEF MasterCrash, MasterRestart, ToldOrOnTheWay, meshVars
  <1>2. ASSUME NEW n \in Node, OnOpen(n) PROVE a \in openNodes'[d] \cup inbox'[d]
    <2>1. CASE n \in Exposed \ nodes
      <3>1. /\ nodes' = nodes \cup {n} /\ inbox' = Announce(n) /\ openNodes' = openNodes
            /\ linked' = linked \cup {n} /\ refused' = refused
        BY <1>2, <2>1 DEF OnOpen, meshVars
      <3>2. CASE d = n
        BY <1>0, <3>1, <3>2 DEF Announce
      <3>3. CASE d # n
        BY <1>0, <3>1, <3>3 DEF Announce, ToldOrOnTheWay
      <3> QED BY <3>2, <3>3
    <2>2. CASE n \notin Exposed \ nodes
      BY <1>2, <2>2 DEF OnOpen, meshVars, ToldOrOnTheWay
    <2> QED BY <2>1, <2>2
  <1>3. ASSUME NEW n \in Node, MasterReset(n) PROVE a \in openNodes'[d] \cup inbox'[d]
    BY <1>0, <1>3 DEF MasterReset, meshVars, ToldOrOnTheWay
  <1>4. ASSUME NEW n \in Node, Crash(n) PROVE a \in openNodes'[d] \cup inbox'[d]
    BY <1>0, <1>4 DEF Crash, ToldOrOnTheWay
  <1>5. ASSUME NEW n \in Node, NEW m \in Node, NewNodeComing(n, m)
        PROVE  a \in openNodes'[d] \cup inbox'[d]
    <2>1. a \in openNodes[d] \cup inbox[d]
      BY <1>5 DEF NewNodeComing, ToldOrOnTheWay
    <2>2. CASE d = n /\ a = m
      BY <1>0, <1>5, <2>1, <2>2 DEF NewNodeComing
    <2>3. CASE d # n \/ a # m
      BY <1>0, <1>5, <2>1, <2>3 DEF NewNodeComing
    <2> QED BY <2>2, <2>3
  <1>6. CASE UNCHANGED <<nodes, refused, linked, inbox, openNodes>>
    BY <1>6 DEF ToldOrOnTheWay
  <1>7. \/ MasterCrash \/ MasterRestart
        \/ \E n \in Node : OnOpen(n) \/ MasterReset(n) \/ Crash(n)
        \/ \E n, m \in Node : NewNodeComing(n, m)
        \/ UNCHANGED <<nodes, refused, linked, inbox, openNodes>>
    BY DEF Next, vars, masterVars, meshVars, Restart, Connect, DialReady, AccReady,
           DialClose, AccClose, Reset
  <1> QED BY <1>1, <1>2, <1>3, <1>4, <1>5, <1>6, <1>7

-----------------------------------------------------------------------------
\* The strengthened invariant: types, sessions that match the opened nodes, and
\* announcements (Master::onOpen, Cluster::newNodeComing).
THEOREM InductiveInvariant == Spec => []IInv
  <1>1. IInv /\ [Next]_vars => IInv'
    BY TypeNext, SessionsNext, ToldNext DEF IInv
  <1> QED BY InitIInv, <1>1, PTL DEF Spec

\* Every variable keeps its type.
THEOREM TypeCorrect == Spec => []TypeOK
  <1>1. IInv => TypeOK BY DEF IInv
  <1> QED BY InductiveInvariant, <1>1, PTL

\* Cluster::newNodeComing never makes two sessions of one pair of processes.
THEOREM OneSession == Spec => []OneSessionPerPair
  <1>1. IInv => OneSessionPerPair
    <2> SUFFICES ASSUME IInv, NEW p \in Pair
                 PROVE  sessions[p] + sessions[<<p[2], p[1]>>] <= 1
      BY DEF OneSessionPerPair
    <2> DEFINE q == <<p[2], p[1]>>
    <2>1. p[1] \in Node /\ p[2] \in Node /\ q \in Pair
      BY DEF Pair
    <2>2. /\ sessions[p] = IF p[2] \in openNodes[p[1]] THEN 1 ELSE 0
          /\ p[2] \in openNodes[p[1]] => Dials(p[1], p[2])
      BY DEF IInv, SessionsMatch
    <2>3. /\ sessions[q] = IF p[1] \in openNodes[p[2]] THEN 1 ELSE 0
          /\ p[1] \in openNodes[p[2]] => Dials(p[2], p[1])
      BY <2>1 DEF IInv, SessionsMatch
    <2>4. ~(p[2] \in openNodes[p[1]] /\ p[1] \in openNodes[p[2]])
      BY <2>1, <2>2, <2>3, DialsOneWay
    <2> QED BY <2>2, <2>3, <2>4
  <1> QED BY InductiveInvariant, <1>1, PTL

\* Master::onOpen and sendNewNode leave nobody untold whom the master accepted.
THEOREM Told == Spec => []ToldOrOnTheWay
  <1>1. IInv => ToldOrOnTheWay BY DEF IInv
  <1> QED BY InductiveInvariant, <1>1, PTL
=============================================================================
