------------------------ MODULE ClusterShutdown_proofs ------------------------
(***************************************************************************)
(* Proofs about ClusterShutdown, for any nodes, any steps that start and   *)
(* end as they like, any number of crashes, and as long as the shutdown    *)
(* was asked for at most once.                                             *)
(***************************************************************************)
EXTENDS ClusterShutdown, WellFoundedInduction, TLAPS

Message == {StopNodes} \cup {Ask(s) : s \in DOMAIN Steps}

\* A stop message among the messages q.
Has(q) == \E i \in DOMAIN q : q[i] = StopNodes

Done(n, s) == ~Steps[s].close /\ s \in acked[n]

\* Who was asked is connected since, and what it sent it had finished.
LinkHolds(n) ==
  /\ asked[n] # {} => link[n] = "open"
  /\ link[n] = "none" => toMaster[n] = <<>>
  /\ link[n] = "open" => /\ n \in allNodes
                         /\ \A i \in DOMAIN toMaster[n] : toMaster[n][i] \in acked[n]
  /\ n \notin Slaves => ~Has(toNode[n])

Links == \A n \in Node : LinkHolds(n)

Before ==
  requests = 0 => /\ ~shutdowning /\ kernel = "running" /\ currStep = 0 /\ currOptNodes = {}
                  /\ \A n \in Node : asked[n] = {}

\* What a node was asked is done, except that of the current step while the master
\* waits for the node.
BarrierAt(step, opt) ==
  \A n \in Node : \A s \in asked[n] : s <= step /\ (s < step \/ n \notin opt => Done(n, s))

Barrier ==
  requests <= 1 => /\ shutdowning => currStep > 0
                   /\ kernel # "running" => currStep = Len(Steps) /\ currOptNodes = {}
                   /\ BarrierAt(currStep, currOptNodes)

\* Without latecomers every process was asked in all the closing steps that name its
\* type, and the slaves know or will know that they are to start no more.
LeftAt(n, step) ==
  /\ link[n] = "open"
  /\ n \in Slaves => n \in stopped \/ Has(toNode[n])
  /\ \A s \in 1 .. step : Steps[s].close /\ TypeOf[n] \in Steps[s].all => s \in asked[n]

Left == requests = 1 /\ ~late => \A n \in up : LeftAt(n, currStep)

\* The inductive invariant.
IInv == TypeOK /\ Links /\ Before /\ Barrier /\ Left

-----------------------------------------------------------------------------
\* Constants and messages.

LEMMA StepTypes ==
  /\ Len(Steps) \in Nat /\ Len(Steps) > 0 /\ DOMAIN Steps = 1 .. Len(Steps)
  /\ \A s \in DOMAIN Steps : /\ Steps[s].close \in BOOLEAN
                             /\ Steps[s].all \subseteq NodeType
                             /\ Steps[s].random \subseteq NodeType
<1> DEFINE step == [close : BOOLEAN, all : SUBSET NodeType, random : SUBSET NodeType]
<1>1. Steps \in Seq(step) /\ Steps # <<>>
  BY ShutdownAssumption
<1> HIDE DEF step
<1>2. Len(Steps) \in Nat /\ Len(Steps) > 0 /\ DOMAIN Steps = 1 .. Len(Steps)
  BY <1>1
<1>3. \A s \in DOMAIN Steps : Steps[s] \in step
  BY <1>1, <1>2
<1> QED
  BY <1>2, <1>3 DEF step

LEMMA Kinds ==
  /\ StopNodes.type = "stopNodes" /\ StopNodes \in Message
  /\ \A s : Ask(s).type = "ask" /\ Ask(s).step = s /\ Ask(s) # StopNodes
  /\ \A s \in DOMAIN Steps : Ask(s) \in Message
  /\ \A m \in Message : \/ m = StopNodes
                        \/ m # StopNodes /\ m.type = "ask" /\ m.step \in DOMAIN Steps
<1>1. StopNodes.type = "stopNodes" /\ StopNodes \in Message
  BY DEF StopNodes, Message
<1>2. \A s : Ask(s).type = "ask" /\ Ask(s).step = s
  BY DEF Ask
<1>3. \A s : Ask(s) # StopNodes
  BY <1>1, <1>2
<1> QED
  BY <1>1, <1>2, <1>3 DEF Message

LEMMA HasAppended ==
  ASSUME NEW S, NEW q \in Seq(S), NEW m \in S
  PROVE  /\ Append(q, m) \in Seq(S)
         /\ Has(Append(q, m)) <=> Has(q) \/ m = StopNodes
<1>1. /\ Append(q, m) \in Seq(S)
      /\ DOMAIN q = 1 .. Len(q) /\ Len(q) \in Nat
      /\ DOMAIN Append(q, m) = 1 .. Len(q) + 1
      /\ \A i \in 1 .. Len(q) : Append(q, m)[i] = q[i]
      /\ Append(q, m)[Len(q) + 1] = m
  OBVIOUS
<1>2. 1 .. Len(q) + 1 = 1 .. Len(q) \cup {Len(q) + 1}
  BY <1>1
<1> QED
  BY <1>1, <1>2 DEF Has

LEMMA HeadAndTail ==
  ASSUME NEW S, NEW q \in Seq(S), q # <<>>
  PROVE  /\ Head(q) \in S /\ Tail(q) \in Seq(S)
         /\ 1 \in DOMAIN q /\ Head(q) = q[1]
         /\ \A i \in DOMAIN Tail(q) : i + 1 \in DOMAIN q /\ Tail(q)[i] = q[i + 1]
<1>1. /\ Head(q) \in S /\ Tail(q) \in Seq(S) /\ Head(q) = q[1]
      /\ DOMAIN q = 1 .. Len(q) /\ Len(q) \in Nat \ {0}
      /\ DOMAIN Tail(q) = 1 .. Len(q) - 1
      /\ \A i \in 1 .. Len(q) - 1 : Tail(q)[i] = q[i + 1]
  OBVIOUS
<1>2. 1 \in 1 .. Len(q) /\ \A i \in 1 .. Len(q) - 1 : i + 1 \in 1 .. Len(q)
  BY <1>1
<1> QED
  BY <1>1, <1>2

LEMMA HasTail ==
  ASSUME NEW S, NEW q \in Seq(S), q # <<>>
  PROVE  /\ Head(q) \in S /\ Tail(q) \in Seq(S)
         /\ Has(q) <=> Head(q) = StopNodes \/ Has(Tail(q))
<1>1. /\ Head(q) \in S /\ Tail(q) \in Seq(S) /\ Head(q) = q[1]
      /\ DOMAIN q = 1 .. Len(q) /\ Len(q) \in Nat \ {0}
      /\ DOMAIN Tail(q) = 1 .. Len(q) - 1
      /\ \A i \in 1 .. Len(q) - 1 : Tail(q)[i] = q[i + 1]
  OBVIOUS
<1>2. ASSUME Has(q) PROVE Head(q) = StopNodes \/ Has(Tail(q))
  <2>1. PICK i \in 1 .. Len(q) : q[i] = StopNodes
    BY <1>1, <1>2 DEF Has
  <2>2. i = 1 \/ (i - 1 \in 1 .. Len(q) - 1 /\ Tail(q)[i - 1] = q[i])
    BY <1>1
  <2> QED
    BY <1>1, <2>1, <2>2 DEF Has
<1>3. ASSUME Head(q) = StopNodes \/ Has(Tail(q)) PROVE Has(q)
  <2>1. CASE Head(q) = StopNodes
    BY <1>1, <2>1 DEF Has
  <2>2. CASE Has(Tail(q))
    <3>1. PICK i \in 1 .. Len(q) - 1 : Tail(q)[i] = StopNodes
      BY <1>1, <2>2 DEF Has
    <3>2. i + 1 \in 1 .. Len(q) /\ q[i + 1] = StopNodes
      BY <1>1, <3>1
    <3> QED
      BY <1>1, <3>2 DEF Has
  <2> QED
    BY <1>3, <2>1, <2>2
<1> QED
  BY <1>1, <1>2, <1>3

-----------------------------------------------------------------------------
\* The master's steps.

NodesOf(s, nodes) == OfTypes(Steps[s].all, nodes)

\* startNewStep asks every connected node of the step's types.
LEMMA Selected ==
  ASSUME NEW s, NEW opt \in SUBSET Node, NEW nodes \in SUBSET Node,
         NEW sel \in Selections(s, opt, nodes)
  PROVE  sel \in SUBSET Node /\ NodesOf(s, nodes) \subseteq sel
BY DEF Selections, OfTypes, NodesOf

\* Between s and the first step that finds a node there is none that names one.
LEMMA Passed ==
  ASSUME NEW s \in Nat, NEW nodes \in SUBSET Node
  PROVE  \/ /\ FirstBusy(s, nodes) > Len(Steps)
            /\ \A i \in s + 1 .. Len(Steps) : NodesOf(i, nodes) = {}
         \/ /\ FirstBusy(s, nodes) \in s + 1 .. Len(Steps)
            /\ \A i \in s + 1 .. FirstBusy(s, nodes) - 1 : NodesOf(i, nodes) = {}
<1> DEFINE busy == {i \in s + 1 .. Len(Steps) :
                      OfTypes(Steps[i].all \cup Steps[i].random, nodes) # {}}
<1>1. Len(Steps) \in Nat
  BY StepTypes
<1>2. \A i \in s + 1 .. Len(Steps) : i \notin busy => NodesOf(i, nodes) = {}
  BY DEF OfTypes, NodesOf
<1>3. CASE busy = {}
  <2>1. FirstBusy(s, nodes) = Len(Steps) + 1
    BY <1>3 DEF FirstBusy
  <2>2. \A i \in s + 1 .. Len(Steps) : NodesOf(i, nodes) = {}
    BY <1>2, <1>3
  <2> QED
    BY <1>1, <2>1, <2>2
<1>4. CASE busy # {}
  <2>1. busy \in SUBSET Nat /\ busy \subseteq s + 1 .. Len(Steps)
    BY <1>1
  <2> DEFINE least == CHOOSE i \in busy : \A k \in busy : i <= k
  <2>2. FirstBusy(s, nodes) = least
    BY <1>4 DEF FirstBusy
  <2> HIDE DEF busy
  <2> DEFINE smaller == {p \in Nat \X Nat : p[1] < p[2]}
  <2>a. IsWellFoundedOn(smaller, Nat)
    BY NatLessThanWellFounded DEF OpToRel
  <2>b. \A x, y \in Nat : <<y, x>> \in smaller <=> y < x
    OBVIOUS
  <2> HIDE DEF smaller
  <2>3. PICK x \in busy : \A y \in busy : ~(<<y, x>> \in smaller)
    BY <1>4, <2>1, <2>a, WFMin
  <2>4. \A y \in busy : x <= y
    <3>1. \A y \in busy : y \in Nat /\ x \in Nat /\ ~(y < x)
      BY <2>1, <2>3, <2>b
    <3> QED
      BY <3>1
  <2>5. least \in busy /\ \A k \in busy : least <= k
    BY <2>4
  <2> HIDE DEF least
  <2>6. \A i \in s + 1 .. least - 1 : i \in s + 1 .. Len(Steps) /\ i \notin busy
    BY <1>1, <2>1, <2>5
  <2> QED
    BY <1>2, <2>1, <2>2, <2>5, <2>6
<1> QED
  BY <1>3, <1>4

\* Where the master may get from step s, with opt left to wait for and messages in the
\* queues: to the end, to a later step, or nowhere.
MovesTo(s, opt) ==
  \/ /\ kernel' = "stopping" /\ currStep' = Len(Steps) /\ currOptNodes' \in {{}, opt}
     /\ asked' = asked
  \/ /\ kernel' = kernel /\ currStep' \in s + 1 .. Len(Steps) /\ currOptNodes' \subseteq Node
     /\ \A n \in Node, x \in DOMAIN Steps :
          x \in asked'[n] /\ x \notin asked[n]
            => x = currStep' /\ n \in currOptNodes' /\ link[n] = "open"
  \/ /\ UNCHANGED <<kernel, asked>> /\ currStep' = s /\ currOptNodes' = opt

\* On the way it asks every connected node of the steps' types, and sends nothing else.
Moves(s, opt, nodes, messages) ==
  /\ MovesTo(s, opt)
  /\ asked' \in [Node -> SUBSET DOMAIN Steps]
  /\ \A n \in Node : asked[n] \subseteq asked'[n]
  /\ toNode' \in [Node -> Seq(Message)]
  /\ \A n \in Node : Has(toNode'[n]) <=> Has(messages[n])
  /\ currStep' \in s .. Len(Steps)
  /\ \A n \in nodes, i \in s + 1 .. currStep' :
       link[n] = "open" /\ TypeOf[n] \in Steps[i].all => i \in asked'[n]

Advances(s) == currStep' = Len(Steps) \/ currStep' \in s + 1 .. Len(Steps)

LEMMA Entered ==
  ASSUME TypeOK, NEW s \in 0 .. Len(Steps), NEW k \in s + 1 .. Len(Steps), NEW opt,
         NEW nodes \in SUBSET Node, NEW sel \in SUBSET Node,
         NEW messages \in [Node -> Seq(Message)],
         EnterStep(k, sel, messages), NodesOf(k, nodes) \subseteq sel,
         \A i \in s + 1 .. k - 1 : NodesOf(i, nodes) = {}
  PROVE  Moves(s, opt, nodes, messages) /\ Advances(s)
<1>1. /\ k \in DOMAIN Steps /\ Len(Steps) \in Nat /\ k \in Nat
      /\ asked \in [Node -> SUBSET DOMAIN Steps]
  BY StepTypes DEF TypeOK
<1>2. /\ currStep' = k /\ currOptNodes' = sel /\ kernel' = kernel
      /\ \A n \in Node : asked'[n] = IF n \in sel /\ link[n] = "open"
                                     THEN asked[n] \cup {k} ELSE asked[n]
      /\ \A n \in Node : toNode'[n] = IF n \in sel /\ link[n] = "open"
                                      THEN Append(messages[n], Ask(k)) ELSE messages[n]
  BY DEF EnterStep
<1>3. asked' \in [Node -> SUBSET DOMAIN Steps]
  BY <1>1 DEF EnterStep
<1>4. ASSUME NEW n \in Node
      PROVE  /\ Append(messages[n], Ask(k)) \in Seq(Message)
             /\ Has(Append(messages[n], Ask(k))) <=> Has(messages[n])
  BY <1>1, HasAppended, Kinds
<1>5. toNode' \in [Node -> Seq(Message)]
  BY <1>4 DEF EnterStep
<1>6. \A n \in Node : Has(toNode'[n]) <=> Has(messages[n])
  BY <1>2, <1>4
<1>7. ASSUME NEW n \in nodes, NEW i \in s + 1 .. k, link[n] = "open",
             TypeOf[n] \in Steps[i].all
      PROVE  i \in asked'[n]
  <2>1. n \in NodesOf(i, nodes)
    BY <1>7 DEF NodesOf, OfTypes
  <2>2. i = k \/ i \in s + 1 .. k - 1
    BY <1>1
  <2> QED
    BY <1>2, <1>7, <2>1, <2>2
<1>8. MovesTo(s, opt)
  BY <1>2 DEF MovesTo
<1>9. currStep' \in s .. Len(Steps)
  BY <1>1, <1>2
<1> QED
  BY <1>2, <1>3, <1>5, <1>6, <1>7, <1>8, <1>9 DEF Moves, Advances

LEMMA Finished ==
  ASSUME TypeOK, NEW s \in 0 .. Len(Steps), NEW opt, NEW left \in {{}, opt},
         NEW nodes \in SUBSET Node, NEW messages \in [Node -> Seq(Message)],
         FinishSteps(Len(Steps), left, messages),
         \A i \in s + 1 .. Len(Steps) : NodesOf(i, nodes) = {}
  PROVE  Moves(s, opt, nodes, messages) /\ Advances(s)
<1>1. Len(Steps) \in Nat /\ Len(Steps) \in s .. Len(Steps)
  BY StepTypes
<1>2. MovesTo(s, opt)
  BY DEF FinishSteps, MovesTo
<1>3. \A n \in nodes, i \in s + 1 .. Len(Steps) : TypeOf[n] \notin Steps[i].all
  BY DEF NodesOf, OfTypes
<1> QED
  BY <1>1, <1>2, <1>3 DEF Moves, Advances, FinishSteps, TypeOK

LEMMA StartNewStepMoves ==
  ASSUME TypeOK, NEW s \in 0 .. Len(Steps), NEW opt \in SUBSET Node,
         NEW nodes \in SUBSET Node, NEW messages \in [Node -> Seq(Message)],
         StartNewStep(s, opt, nodes, messages)
  PROVE  Moves(s, opt, nodes, messages) /\ Advances(s)
<1>1. Len(Steps) \in Nat
  BY StepTypes
<1>2. CASE s = Len(Steps)
  <2>1. FinishSteps(Len(Steps), opt, messages)
    BY <1>2 DEF StartNewStep
  <2>2. s + 1 .. Len(Steps) = {}
    BY <1>1, <1>2
  <2> QED
    BY <2>1, <2>2, Finished
<1>3. CASE s # Len(Steps)
  <2>1. s + 1 \in s + 1 .. Len(Steps) /\ s + 1 \in Nat /\ s + 1 .. (s + 1) - 1 = {}
    BY <1>1, <1>3
  <2> DEFINE next == FirstBusy(s + 1, nodes)
  <2>2. PICK sel \in Selections(s + 1, opt, nodes) :
          \/ sel # {} /\ EnterStep(s + 1, sel, messages)
          \/ /\ sel = {}
             /\ \/ next > Len(Steps) /\ FinishSteps(Len(Steps), {}, messages)
                \/ /\ ~(next > Len(Steps))
                   /\ \E sel2 \in Selections(next, {}, nodes) : EnterStep(next, sel2, messages)
    BY <1>3 DEF StartNewStep
  <2>3. sel \in SUBSET Node /\ NodesOf(s + 1, nodes) \subseteq sel
    BY <2>2, Selected
  <2>4. CASE EnterStep(s + 1, sel, messages)
    BY <2>1, <2>3, <2>4, Entered
  <2>5. CASE sel = {} /\ next > Len(Steps) /\ FinishSteps(Len(Steps), {}, messages)
    <3>1. ~(next \in s + 1 + 1 .. Len(Steps))
      BY <1>1, <2>1, <2>5
    <3>2. \A i \in s + 1 + 1 .. Len(Steps) : NodesOf(i, nodes) = {}
      BY <2>1, <3>1, Passed
    <3>3. \A i \in s + 1 .. Len(Steps) : NodesOf(i, nodes) = {}
      BY <1>1, <2>3, <2>5, <3>2
    <3> QED
      BY <2>5, <3>3, Finished
  <2>6. ASSUME sel = {}, ~(next > Len(Steps)), NEW sel2 \in Selections(next, {}, nodes),
               EnterStep(next, sel2, messages)
        PROVE  Moves(s, opt, nodes, messages) /\ Advances(s)
    <3>1. /\ next \in s + 1 + 1 .. Len(Steps)
          /\ \A i \in s + 1 + 1 .. next - 1 : NodesOf(i, nodes) = {}
      BY <2>1, <2>6, Passed
    <3> HIDE DEF next
    <3>2. \A i \in s + 1 .. next - 1 : NodesOf(i, nodes) = {}
      BY <1>1, <2>3, <2>6, <3>1
    <3>3. next \in s + 1 .. Len(Steps)
      BY <1>1, <3>1
    <3>4. sel2 \in SUBSET Node /\ NodesOf(next, nodes) \subseteq sel2
      BY <2>6, Selected
    <3> QED
      BY <2>6, <3>2, <3>3, <3>4, Entered
  <2> QED
    BY <2>2, <2>4, <2>5, <2>6
<1> QED
  BY <1>2, <1>3

\* checkNextStep moves on only if nobody is left to wait for.
LEMMA CheckNextStepMoves ==
  ASSUME TypeOK, NEW opt \in SUBSET Node, NEW nodes \in SUBSET Node,
         CheckNextStep(opt, nodes)
  PROVE  /\ Moves(currStep, opt, nodes, toNode)
         /\ opt = {} \/ (UNCHANGED <<kernel, asked, currStep>> /\ currOptNodes' = opt)
<1>1. currStep \in 0 .. Len(Steps) /\ toNode \in [Node -> Seq(Message)] /\ Len(Steps) \in Nat
  BY StepTypes DEF TypeOK, Message
<1>2. CASE opt = {}
  BY <1>1, <1>2, StartNewStepMoves DEF CheckNextStep
<1>3. CASE opt # {}
  <2>1. UNCHANGED <<kernel, currStep, toNode, asked>> /\ currOptNodes' = opt
    BY <1>3 DEF CheckNextStep
  <2>2. currStep + 1 .. currStep = {} /\ currStep \in currStep .. Len(Steps)
    BY <1>1
  <2> QED
    BY <1>1, <2>1, <2>2 DEF Moves, MovesTo, TypeOK
<1> QED
  BY <1>2, <1>3

\* Nothing moves.
LEMMA StaysMoves ==
  ASSUME TypeOK, NEW nodes \in SUBSET Node,
         UNCHANGED <<kernel, currStep, currOptNodes, toNode, asked>>
  PROVE  Moves(currStep, currOptNodes, nodes, toNode)
<1>1. currStep \in 0 .. Len(Steps) /\ toNode \in [Node -> Seq(Message)] /\ Len(Steps) \in Nat
  BY StepTypes DEF TypeOK, Message
<1>2. currStep + 1 .. currStep = {} /\ currStep \in currStep .. Len(Steps)
  BY <1>1
<1> QED
  BY <1>1, <1>2 DEF Moves, MovesTo, TypeOK

-----------------------------------------------------------------------------
\* What keeps the parts of the invariant.

LEMMA Numbers ==
  ASSUME TypeOK
  PROVE  /\ Len(Steps) \in Nat /\ currStep \in Nat /\ currStep <= Len(Steps)
         /\ \A s \in DOMAIN Steps : s \in Nat
<1>1. Len(Steps) \in Nat /\ DOMAIN Steps = 1 .. Len(Steps) /\ currStep \in 0 .. Len(Steps)
  BY StepTypes DEF TypeOK
<1> QED
  BY <1>1

LEMMA LinkKept ==
  ASSUME NEW n \in Node, LinkHolds(n),
         link'[n] = link[n], toMaster'[n] = toMaster[n], n \in allNodes => n \in allNodes',
         acked[n] \subseteq acked'[n], asked'[n] # {} => asked[n] # {} \/ link[n] = "open",
         Has(toNode'[n]) => Has(toNode[n]) \/ n \in Slaves
  PROVE  LinkHolds(n)'
BY DEF LinkHolds, Has

LEMMA LeftKept ==
  ASSUME NEW n \in Node, LeftAt(n, currStep), link'[n] = "open",
         n \in stopped => n \in stopped',
         Has(toNode[n]) => Has(toNode'[n]) \/ n \in stopped',
         asked[n] \subseteq asked'[n], currStep' = currStep
  PROVE  LeftAt(n, currStep)'
BY DEF LeftAt, Has

\* A move asks connected nodes only.
LEMMA MoveAsks ==
  ASSUME TypeOK, NEW s, NEW opt, NEW nodes, NEW messages, Moves(s, opt, nodes, messages),
         NEW n \in Node, asked'[n] # {}
  PROVE  asked[n] # {} \/ link[n] = "open"
BY DEF Moves, MovesTo, TypeOK

\* What a move leaves of the types.
LEMMA MoveTypes ==
  ASSUME TypeOK, NEW opt \in SUBSET Node, NEW nodes, NEW messages,
         Moves(currStep, opt, nodes, messages)
  PROVE  /\ kernel' \in {"running", "stopping", "gone"} /\ currStep' \in 0 .. Len(Steps)
         /\ currOptNodes' \subseteq Node
         /\ toNode' \in [Node -> Seq(Message)] /\ asked' \in [Node -> SUBSET DOMAIN Steps]
BY StepTypes DEF Moves, MovesTo, TypeOK

\* The master moves on when the step is done, and whom it then asks it waits for.
LEMMA MoveBarrier ==
  ASSUME TypeOK, NEW opt \in SUBSET Node, NEW nodes, NEW messages,
         Moves(currStep, opt, nodes, messages),
         opt = {} \/ (UNCHANGED <<kernel, asked, currStep>> /\ currOptNodes' = opt),
         kernel # "running" => currStep = Len(Steps) /\ opt = {},
         BarrierAt(currStep, opt), acked' = acked
  PROVE  /\ kernel' # "running" => currStep' = Len(Steps) /\ currOptNodes' = {}
         /\ BarrierAt(currStep, currOptNodes)'
<1>1. /\ Len(Steps) \in Nat /\ currStep \in Nat /\ currStep <= Len(Steps)
      /\ \A s \in DOMAIN Steps : s \in Nat
  BY Numbers
<1>2. /\ asked \in [Node -> SUBSET DOMAIN Steps] /\ asked' \in [Node -> SUBSET DOMAIN Steps]
      /\ MovesTo(currStep, opt)
  BY DEF Moves, TypeOK
<1>3. CASE UNCHANGED <<kernel, asked, currStep>> /\ currOptNodes' = opt
  BY <1>3 DEF BarrierAt, Done
<1>4. ASSUME opt = {} PROVE \A n \in Node : \A s \in asked[n] : s <= currStep /\ Done(n, s)
  BY <1>4 DEF BarrierAt
<1>5. CASE opt = {} /\ kernel' = "stopping" /\ currStep' = Len(Steps)
           /\ currOptNodes' \in {{}, opt} /\ asked' = asked
  <2>1. \A n \in Node : \A s \in asked[n] : s \in Nat /\ s <= currStep /\ Done(n, s)
    BY <1>1, <1>2, <1>4, <1>5
  <2>2. \A n \in Node : \A s \in asked[n] : s <= Len(Steps) /\ Done(n, s)
    BY <1>1, <2>1
  <2>3. BarrierAt(currStep, currOptNodes)'
    BY <1>5, <2>2 DEF BarrierAt, Done
  <2> QED
    BY <1>5, <2>3
<1>6. CASE /\ opt = {} /\ kernel' = kernel /\ currStep' \in currStep + 1 .. Len(Steps)
           /\ \A n \in Node, x \in DOMAIN Steps :
                x \in asked'[n] /\ x \notin asked[n]
                  => x = currStep' /\ n \in currOptNodes' /\ link[n] = "open"
  <2>1. currStep' \in Nat /\ currStep < currStep' /\ currStep < Len(Steps)
    <3>1. currStep' \in currStep + 1 .. Len(Steps)
      BY <1>6
    <3> QED
      BY <1>1, <3>1
  <2>2. kernel = "running"
    BY <1>1, <2>1
  <2>3. ASSUME NEW n \in Node, NEW s \in asked'[n]
        PROVE  s <= currStep' /\ (s < currStep' \/ n \notin currOptNodes' => Done(n, s)')
    <3>1. s \in Nat /\ s \in DOMAIN Steps
      BY <1>1, <1>2, <2>3
    <3>2. CASE s \in asked[n]
      <4>1. s <= currStep /\ Done(n, s)
        BY <1>4, <1>6, <3>2
      <4> QED
        BY <1>1, <2>1, <3>1, <4>1 DEF Done
    <3>3. CASE s \notin asked[n]
      <4>1. s = currStep' /\ n \in currOptNodes'
        BY <1>6, <2>3, <3>1, <3>3
      <4> QED
        BY <2>1, <4>1
    <3> QED
      BY <3>2, <3>3
  <2> QED
    BY <1>6, <2>2, <2>3 DEF BarrierAt
<1>7. CASE UNCHANGED <<kernel, asked>> /\ currStep' = currStep /\ currOptNodes' = opt
  BY <1>3, <1>7
<1> QED
  BY <1>2, <1>3, <1>5, <1>6, <1>7 DEF MovesTo

\* A connected node is asked in every step on the way that names its type.
LEMMA MoveLeft ==
  ASSUME TypeOK, NEW opt \in SUBSET Node, NEW nodes, NEW messages,
         Moves(currStep, opt, nodes, messages),
         NEW n \in Node, n \in nodes, link[n] = "open", link'[n] = "open", stopped' = stopped,
         n \in Slaves => n \in stopped \/ Has(messages[n]),
         \A s \in 1 .. currStep : Steps[s].close /\ TypeOf[n] \in Steps[s].all => s \in asked[n]
  PROVE  LeftAt(n, currStep)'
<1>1. /\ Len(Steps) \in Nat /\ currStep \in Nat /\ currStep' \in Nat
      /\ asked[n] \subseteq asked'[n]
      /\ Has(toNode'[n]) <=> Has(messages[n])
      /\ \A i \in currStep + 1 .. currStep' : TypeOf[n] \in Steps[i].all => i \in asked'[n]
  BY StepTypes DEF Moves, TypeOK
<1>2. ASSUME NEW s \in 1 .. currStep', Steps[s].close, TypeOf[n] \in Steps[s].all
      PROVE  s \in asked'[n]
  <2>1. s \in 1 .. currStep \/ s \in currStep + 1 .. currStep'
    BY <1>1
  <2> QED
    BY <1>1, <1>2, <2>1
<1>3. n \in Slaves => n \in stopped' \/ Has(toNode'[n])
  BY <1>1
<1> QED
  BY <1>2, <1>3 DEF LeftAt, Has

-----------------------------------------------------------------------------
\* The initial states, and one action after the other.

LEMMA InvInit == Init => IInv
<1> SUFFICES ASSUME Init PROVE IInv
  OBVIOUS
<1>1. <<>> \in Seq(Message) /\ <<>> \in Seq(DOMAIN Steps) /\ ~Has(<<>>)
  BY DEF Has
<1>2. Len(Steps) \in Nat /\ Len(Steps) > 0
  BY StepTypes
<1>3. TypeOK
  <2>1. 0 \in 0 .. Len(Steps) /\ 0 \in 0 .. MaxRequests /\ 0 \in 0 .. MaxCrashes
    BY <1>2, ShutdownAssumption
  <2>2. toNode \in [Node -> Seq(Message)] /\ toMaster \in [Node -> Seq(DOMAIN Steps)]
    BY <1>1 DEF Init
  <2> QED
    BY <2>1, <2>2 DEF Init, TypeOK, Message
<1>4. Links
  BY <1>1 DEF Init, Links, LinkHolds
<1>5. Before /\ Barrier /\ Left
  BY DEF Init, Before, Barrier, BarrierAt, Left
<1> QED
  BY <1>3, <1>4, <1>5 DEF IInv

LEMMA OnOpenKeeps ==
  ASSUME IInv, NEW n \in Node, OnOpen(n)
  PROVE  IInv'
<1> USE DEF IInv
<1>1. /\ link[n] = "none" /\ allNodes' = allNodes \cup {n}
      /\ link' = [link EXCEPT ![n] = "open"]
      /\ UNCHANGED <<kernel, shutdowning, currStep, currOptNodes, toNode, toMaster, procs, history>>
  BY DEF OnOpen
<1>2. TypeOK'
  BY <1>1 DEF TypeOK, procs, history
<1>3. ASSUME NEW m \in Node PROVE LinkHolds(m)'
  <2>1. LinkHolds(m)
    BY DEF Links
  <2>2. CASE m = n
    BY <1>1, <2>1, <2>2 DEF LinkHolds, TypeOK, procs, history, Has
  <2>3. CASE m # n
    BY <1>1, <2>1, <2>3, LinkKept DEF TypeOK, procs, history
  <2> QED
    BY <2>2, <2>3
<1>4. Before' /\ Barrier'
  BY <1>1 DEF Before, Barrier, BarrierAt, Done, procs, history
<1>5. ASSUME NEW m \in up, LeftAt(m, currStep) PROVE LeftAt(m, currStep)'
  BY <1>1, <1>5, LeftKept DEF TypeOK, LeftAt, procs, history
<1>6. Left'
  BY <1>1, <1>5 DEF Left, procs, history
<1> QED
  BY <1>2, <1>3, <1>4, <1>6 DEF Links

\* What acknowledgements and closed connections make the master do.
LEMMA MasterStep ==
  ASSUME IInv, NEW opt \in SUBSET Node, NEW nodes \in SUBSET Node, opt \subseteq currOptNodes,
         Moves(currStep, opt, nodes, toNode),
         opt = {} \/ (UNCHANGED <<kernel, asked, currStep>> /\ currOptNodes' = opt),
         requests <= 1 => BarrierAt(currStep, opt),
         ~shutdowning => UNCHANGED <<kernel, currStep, currOptNodes, asked>>,
         UNCHANGED <<shutdowning, procs, acked, late, requests>>,
         \A n \in up : link[n] = "open" => n \in nodes /\ link'[n] = "open"
  PROVE  Before' /\ Barrier' /\ Left'
<1> USE DEF IInv
<1>1. currStep' >= currStep /\ currStep \in Nat /\ currStep' \in Nat
  <2>1. currStep' \in currStep .. Len(Steps)
    BY DEF Moves
  <2> QED
    BY <2>1, Numbers
<1>2. Before'
  BY DEF Before
<1>3. ASSUME requests <= 1
      PROVE  /\ kernel' # "running" => currStep' = Len(Steps) /\ currOptNodes' = {}
             /\ BarrierAt(currStep, currOptNodes)'
  <2>1. kernel # "running" => currStep = Len(Steps) /\ opt = {}
    BY <1>3 DEF Barrier
  <2> QED
    BY <1>3, <2>1, MoveBarrier
<1>4. requests <= 1 => (shutdowning' => currStep' > 0)
  BY <1>1 DEF Barrier
<1>5. Barrier'
  BY <1>3, <1>4 DEF Barrier
<1>6. ASSUME NEW n \in up, LeftAt(n, currStep) PROVE LeftAt(n, currStep)'
  BY <1>6, MoveLeft DEF LeftAt, TypeOK, procs
<1>7. Left'
  BY <1>6 DEF Left, procs
<1> QED
  BY <1>2, <1>5, <1>7

LEMMA OnCloseKeeps ==
  ASSUME IInv, NEW n \in Node, OnClose(n)
  PROVE  IInv'
<1> USE DEF IInv
<1>1. /\ link[n] = "fin" /\ toMaster[n] = <<>>
      /\ link' = [link EXCEPT ![n] = "none"] /\ allNodes' = allNodes \ {n}
      /\ UNCHANGED <<shutdowning, toMaster, procs, acked, late, requests, crashes>>
  BY DEF OnClose
<1>2. asked[n] = {}
  BY <1>1 DEF Links, LinkHolds
<1> DEFINE nodes == allNodes \ {n}
<1>3. PICK opt \in SUBSET Node :
        /\ opt \in {currOptNodes, currOptNodes \ {n}}
        /\ Moves(currStep, opt, nodes, toNode)
        /\ opt = {} \/ (UNCHANGED <<kernel, asked, currStep>> /\ currOptNodes' = opt)
        /\ ~shutdowning => UNCHANGED <<kernel, currStep, currOptNodes, asked>>
  <2>1. nodes \in SUBSET Node /\ currOptNodes \in SUBSET Node /\ currOptNodes \ {n} \in SUBSET Node
    BY DEF TypeOK
  <2> HIDE DEF nodes
  <2>2. CASE shutdowning /\ Steps[currStep].close
    <3>1. CheckNextStep(currOptNodes \ {n}, nodes)
      BY <2>2 DEF OnClose, nodes
    <3> DEFINE opt == currOptNodes \ {n}
    <3>2. opt \in SUBSET Node /\ CheckNextStep(opt, nodes)
      BY <2>1, <3>1
    <3> HIDE DEF opt
    <3>3. Moves(currStep, opt, nodes, toNode)
          /\ (opt = {} \/ (UNCHANGED <<kernel, asked, currStep>> /\ currOptNodes' = opt))
      BY <2>1, <3>2, CheckNextStepMoves
    <3> QED
      BY <2>2, <3>2, <3>3 DEF opt
  <2>3. CASE ~(shutdowning /\ Steps[currStep].close)
    <3>1. UNCHANGED <<kernel, currStep, currOptNodes, toNode, asked>>
      BY <2>3 DEF OnClose
    <3>2. Moves(currStep, currOptNodes, nodes, toNode)
      BY <2>1, <3>1, StaysMoves
    <3> QED
      BY <2>1, <3>1, <3>2
  <2> QED
    BY <2>2, <2>3
<1>4. TypeOK'
  BY <1>1, <1>3, MoveTypes DEF TypeOK, Message, procs
<1>5. ASSUME NEW m \in Node PROVE LinkHolds(m)'
  <2>1. LinkHolds(m)
    BY DEF Links
  <2>2. /\ asked'[m] # {} => asked[m] # {} \/ link[m] = "open"
        /\ Has(toNode'[m]) <=> Has(toNode[m])
    BY <1>3, MoveAsks DEF Moves
  <2>3. CASE m = n
    BY <1>1, <1>2, <2>1, <2>2, <2>3 DEF LinkHolds, TypeOK, Has
  <2>4. CASE m # n
    BY <1>1, <2>1, <2>2, <2>4, LinkKept DEF TypeOK
  <2> QED
    BY <2>3, <2>4
<1>6. requests <= 1 => BarrierAt(currStep, opt)
  BY <1>2, <1>3 DEF Barrier, BarrierAt
<1>7. \A m \in up : link[m] = "open" => m \in nodes /\ link'[m] = "open"
  BY <1>1 DEF Links, LinkHolds, TypeOK
<1>8. nodes \in SUBSET Node /\ opt \subseteq currOptNodes
  BY <1>3 DEF TypeOK
<1>9. Before' /\ Barrier' /\ Left'
  <2> HIDE DEF nodes
  <2> QED
    BY <1>1, <1>3, <1>6, <1>7, <1>8, MasterStep
<1> QED
  BY <1>4, <1>5, <1>9 DEF Links

LEMMA OnClusterShutdownAckKeeps ==
  ASSUME IInv, NEW n \in Node, OnClusterShutdownAck(n)
  PROVE  IInv'
<1> USE DEF IInv
<1>1. /\ toMaster[n] # <<>> /\ toMaster' = [toMaster EXCEPT ![n] = Tail(@)]
      /\ UNCHANGED <<shutdowning, allNodes, link, procs, acked, late, requests, crashes>>
  BY DEF OnClusterShutdownAck
<1>2. /\ Head(toMaster[n]) \in DOMAIN Steps /\ Tail(toMaster[n]) \in Seq(DOMAIN Steps)
      /\ Head(toMaster[n]) = toMaster[n][1] /\ 1 \in DOMAIN toMaster[n]
      /\ \A i \in DOMAIN Tail(toMaster[n]) : /\ i + 1 \in DOMAIN toMaster[n]
                                             /\ Tail(toMaster[n])[i] = toMaster[n][i + 1]
  <2>1. toMaster[n] \in Seq(DOMAIN Steps)
    BY DEF TypeOK
  <2> QED
    BY <1>1, <2>1, HeadAndTail
<1>3. PICK opt \in SUBSET Node :
        /\ \/ opt = currOptNodes
           \/ opt = currOptNodes \ {n} /\ Head(toMaster[n]) = currStep /\ ~Steps[currStep].close
        /\ Moves(currStep, opt, allNodes, toNode)
        /\ opt = {} \/ (UNCHANGED <<kernel, asked, currStep>> /\ currOptNodes' = opt)
        /\ ~shutdowning => UNCHANGED <<kernel, currStep, currOptNodes, asked>>
  <2>1. allNodes \in SUBSET Node /\ currOptNodes \in SUBSET Node
        /\ currOptNodes \ {n} \in SUBSET Node
    BY DEF TypeOK
  <2>2. CASE shutdowning /\ Head(toMaster[n]) = currStep /\ ~Steps[currStep].close
    <3> DEFINE opt == currOptNodes \ {n}
    <3>1. opt \in SUBSET Node /\ CheckNextStep(opt, allNodes)
      BY <2>1, <2>2 DEF OnClusterShutdownAck
    <3> HIDE DEF opt
    <3>2. Moves(currStep, opt, allNodes, toNode)
          /\ (opt = {} \/ (UNCHANGED <<kernel, asked, currStep>> /\ currOptNodes' = opt))
      BY <2>1, <3>1, CheckNextStepMoves
    <3> QED
      BY <2>2, <3>1, <3>2 DEF opt
  <2>3. CASE ~(shutdowning /\ Head(toMaster[n]) = currStep /\ ~Steps[currStep].close)
    <3>1. UNCHANGED <<kernel, currStep, currOptNodes, toNode, asked>>
      BY <2>3 DEF OnClusterShutdownAck
    <3>2. Moves(currStep, currOptNodes, allNodes, toNode)
      BY <2>1, <3>1, StaysMoves
    <3> QED
      BY <2>1, <3>1, <3>2
  <2> QED
    BY <2>2, <2>3
<1>4. TypeOK'
  <2>1. toMaster' \in [Node -> Seq(DOMAIN Steps)]
    BY <1>1, <1>2 DEF TypeOK
  <2> QED
    BY <1>1, <1>3, <2>1, MoveTypes DEF TypeOK, Message, procs
<1>5. ASSUME NEW m \in Node PROVE LinkHolds(m)'
  <2>1. LinkHolds(m)
    BY DEF Links
  <2>2. /\ asked'[m] # {} => asked[m] # {} \/ link[m] = "open"
        /\ Has(toNode'[m]) <=> Has(toNode[m])
    BY <1>3, MoveAsks DEF Moves
  <2>3. CASE m = n
    <3>1. toMaster'[m] = Tail(toMaster[m])
      BY <1>1, <2>3 DEF TypeOK
    <3>2. link[m] # "none"
      BY <1>1, <2>1, <2>3 DEF LinkHolds
    <3>3. link[m] = "open" => \A i \in DOMAIN toMaster'[m] : toMaster'[m][i] \in acked[m]
      BY <1>2, <2>1, <2>3, <3>1 DEF LinkHolds
    <3> QED
      BY <1>1, <2>1, <2>2, <3>2, <3>3 DEF LinkHolds, Has
  <2>4. CASE m # n
    BY <1>1, <2>1, <2>2, <2>4, LinkKept DEF TypeOK
  <2> QED
    BY <2>3, <2>4
<1>6. asked[n] # {} => Head(toMaster[n]) \in acked[n]
  BY <1>2 DEF Links, LinkHolds
<1>7. requests <= 1 => BarrierAt(currStep, opt)
  <2> SUFFICES ASSUME requests <= 1, NEW m \in Node, NEW s \in asked[m]
               PROVE  s <= currStep /\ (s < currStep \/ m \notin opt => Done(m, s))
    BY DEF BarrierAt
  <2>1. s <= currStep /\ (s < currStep \/ m \notin currOptNodes => Done(m, s))
    BY DEF Barrier, BarrierAt
  <2>2. ASSUME m \notin opt, m \in currOptNodes, ~(s < currStep) PROVE Done(m, s)
    <3>1. m = n /\ Head(toMaster[n]) = currStep /\ ~Steps[currStep].close
      BY <1>3, <2>2
    <3>2. s = currStep
      <4>1. s \in Nat /\ currStep \in Nat
        BY Numbers DEF TypeOK
      <4> QED
        BY <2>1, <2>2, <4>1
    <3> QED
      BY <1>6, <3>1, <3>2 DEF Done
  <2> QED
    BY <2>1, <2>2
<1>8. \A m \in up : link[m] = "open" => m \in allNodes /\ link'[m] = "open"
  BY <1>1 DEF Links, LinkHolds, TypeOK
<1>9. allNodes \in SUBSET Node /\ opt \subseteq currOptNodes
  BY <1>3 DEF TypeOK
<1>10. Before' /\ Barrier' /\ Left'
  BY <1>1, <1>3, <1>7, <1>8, <1>9, MasterStep
<1> QED
  BY <1>4, <1>5, <1>10 DEF Links

LEMMA TerminateKeeps ==
  ASSUME IInv, Terminate
  PROVE  IInv'
<1> USE DEF IInv
<1> DEFINE told == [n \in Node |-> IF n \in Slaves /\ link[n] = "open"
                                   THEN Append(toNode[n], StopNodes) ELSE toNode[n]]
<1>1. /\ MasterRuns /\ requests < MaxRequests /\ requests' = requests + 1
      /\ shutdowning' = TRUE
      /\ late' = (late \/ \E n \in up : link[n] # "open")
      /\ UNCHANGED <<allNodes, link, toMaster, procs, acked, crashes>>
  BY DEF Terminate
<1>2. StartNewStep(currStep, currOptNodes, allNodes, told)
  BY DEF Terminate
<1>3. \A n \in Node : /\ toNode[n] \in Seq(Message)
                      /\ Append(toNode[n], StopNodes) \in Seq(Message)
                      /\ Has(Append(toNode[n], StopNodes))
  BY HasAppended, Kinds DEF TypeOK, Message
<1>4. /\ told \in [Node -> Seq(Message)]
      /\ \A n \in Node : /\ n \notin Slaves => told[n] = toNode[n]
                         /\ n \in Slaves /\ link[n] = "open" => Has(told[n])
  BY <1>3
<1>5. /\ currStep \in 0 .. Len(Steps) /\ allNodes \in SUBSET Node /\ currOptNodes \in SUBSET Node
      /\ requests \in Nat /\ requests' \in 0 .. MaxRequests
  <2>1. requests \in 0 .. MaxRequests /\ MaxRequests \in Nat
    BY ShutdownAssumption DEF TypeOK
  <2>2. requests + 1 \in 0 .. MaxRequests
    BY <1>1, <2>1
  <2> QED
    BY <1>1, <2>1, <2>2 DEF TypeOK
<1> HIDE DEF told
<1>6. Moves(currStep, currOptNodes, allNodes, told) /\ Advances(currStep)
  BY <1>2, <1>4, <1>5, StartNewStepMoves
<1>7. TypeOK'
  BY <1>1, <1>5, <1>6, MoveTypes DEF TypeOK, Message, procs
<1>8. ASSUME NEW n \in Node PROVE LinkHolds(n)'
  <2>1. LinkHolds(n)
    BY DEF Links
  <2>2. asked'[n] # {} => asked[n] # {} \/ link[n] = "open"
    BY <1>6, MoveAsks
  <2>3. Has(toNode'[n]) => Has(toNode[n]) \/ n \in Slaves
    BY <1>4, <1>6 DEF Moves
  <2> QED
    BY <1>1, <2>1, <2>2, <2>3, LinkKept
<1>9. Before'
  BY <1>1, <1>5 DEF Before
<1>10. ASSUME requests' <= 1
       PROVE  /\ ~shutdowning /\ kernel = "running" /\ currStep = 0 /\ currOptNodes = {}
              /\ \A n \in Node : asked[n] = {}
  <2>1. requests = 0
    BY <1>1, <1>5, <1>10
  <2> QED
    BY <2>1 DEF Before
<1>11. ASSUME requests' <= 1
       PROVE  /\ kernel' # "running" => currStep' = Len(Steps) /\ currOptNodes' = {}
              /\ BarrierAt(currStep, currOptNodes)'
  <2>1. BarrierAt(currStep, currOptNodes)
    BY <1>10, <1>11 DEF BarrierAt
  <2> QED
    BY <1>1, <1>5, <1>6, <1>10, <1>11, <2>1, MoveBarrier
<1>12. ASSUME requests' <= 1 PROVE currStep' > 0
  <2>1. Len(Steps) > 0 /\ Len(Steps) \in Nat
    BY StepTypes
  <2>2. currStep' = Len(Steps) \/ currStep' \in currStep + 1 .. Len(Steps)
    BY <1>6 DEF Advances
  <2> QED
    BY <2>1, <2>2, Numbers
<1>13. Barrier'
  BY <1>11, <1>12 DEF Barrier
<1>14. ASSUME requests' = 1, ~late', NEW n \in up PROVE LeftAt(n, currStep)'
  <2>1. link[n] = "open" /\ n \in Node /\ n \in allNodes
    BY <1>1, <1>14 DEF Links, LinkHolds, TypeOK
  <2>2. currStep = 0
    BY <1>10, <1>14
  <2>3. \A s \in 1 .. currStep : FALSE
    BY <2>2
  <2> QED
    BY <1>1, <1>4, <1>5, <1>6, <2>1, <2>3, MoveLeft DEF procs
<1>15. Left'
  BY <1>1, <1>14 DEF Left, procs
<1> QED
  BY <1>7, <1>8, <1>9, <1>13, <1>15 DEF Links

LEMMA OnMessageKeeps ==
  ASSUME IInv, NEW n \in Node, OnMessage(n)
  PROVE  IInv'
<1> USE DEF IInv
<1>1. PICK m : m = Head(toNode[n])
  OBVIOUS
<1>2. /\ n \in up /\ toNode[n] # <<>> /\ toNode' = [toNode EXCEPT ![n] = Tail(@)]
      /\ UNCHANGED <<master, link, toMaster, up, history>>
      /\ \/ /\ m.type = "ask" /\ Steps[m.step].close
            /\ quit' = quit \cup {n} /\ UNCHANGED <<work, stopped>>
         \/ /\ m.type = "ask"
            /\ work' = [work EXCEPT ![n] = @ \cup {m.step}] /\ UNCHANGED <<quit, stopped>>
         \/ /\ m.type = "stopNodes"
            /\ stopped' = stopped \cup {n} /\ UNCHANGED <<quit, work>>
  BY <1>1 DEF OnMessage
<1>3. toNode[n] \in Seq(Message) /\ toNode \in [Node -> Seq(Message)]
  BY DEF TypeOK, Message
<1>4. /\ m \in Message /\ Tail(toNode[n]) \in Seq(Message)
      /\ Has(toNode[n]) <=> m = StopNodes \/ Has(Tail(toNode[n]))
  BY <1>1, <1>2, <1>3, HasTail
<1>5. /\ toNode' \in [Node -> Seq(Message)] /\ toNode'[n] = Tail(toNode[n])
      /\ \A k \in Node : k # n => toNode'[k] = toNode[k]
  BY <1>2, <1>3, <1>4
<1>6. /\ m.type = "ask" => m # StopNodes /\ m.step \in DOMAIN Steps
      /\ m.type = "stopNodes" => m = StopNodes
  BY <1>4, Kinds
<1>7. m = StopNodes => n \in Slaves
  BY <1>4 DEF Links, LinkHolds
<1>8. TypeOK'
  <2>1. /\ quit' \subseteq up /\ stopped' \subseteq Slaves
        /\ work' \in [Node -> SUBSET DOMAIN Steps]
    BY <1>2, <1>6, <1>7 DEF TypeOK
  <2> QED
    BY <1>2, <1>5, <2>1 DEF TypeOK, Message, master, history
<1>9. /\ \A k \in Node : Has(toNode'[k]) => Has(toNode[k])
      /\ \A k \in Node : Has(toNode[k]) => Has(toNode'[k]) \/ (k = n /\ m = StopNodes)
  BY <1>4, <1>5
<1>10. stopped \subseteq stopped' /\ (m = StopNodes => n \in stopped')
  BY <1>2, <1>6
<1>11. ASSUME NEW k \in Node PROVE LinkHolds(k)'
  BY <1>2, <1>9, LinkKept DEF Links, master, history
<1>12. Before' /\ Barrier'
  BY <1>2 DEF Before, Barrier, BarrierAt, Done, master, history
<1>13. ASSUME NEW k \in up, LeftAt(k, currStep) PROVE LeftAt(k, currStep)'
  <2>1. k \in Node /\ link[k] = "open"
    BY <1>13 DEF TypeOK, LeftAt
  <2> QED
    BY <1>2, <1>9, <1>10, <1>13, <2>1, LeftKept DEF master, history
<1>14. Left'
  BY <1>2, <1>13 DEF Left, history
<1> QED
  BY <1>8, <1>11, <1>12, <1>14 DEF Links

LEMMA MasterExitKeeps ==
  ASSUME IInv, MasterExit
  PROVE  IInv'
<1> USE DEF IInv
<1>1. /\ kernel = "stopping" /\ kernel' = "gone"
      /\ UNCHANGED <<shutdowning, currStep, allNodes, currOptNodes, wire, procs, history>>
  BY DEF MasterExit
<1>2. TypeOK'
  BY <1>1 DEF TypeOK, wire, procs, history
<1>3. ASSUME NEW n \in Node PROVE LinkHolds(n)'
  BY <1>1, LinkKept DEF Links, wire, history
<1>4. Before' /\ Barrier'
  BY <1>1 DEF Before, Barrier, BarrierAt, Done, history
<1>5. ASSUME NEW n \in up, LeftAt(n, currStep) PROVE LeftAt(n, currStep)'
  BY <1>1, <1>5 DEF LeftAt, Has, wire, procs, history
<1>6. Left'
  BY <1>1, <1>5 DEF Left, procs, history
<1> QED
  BY <1>2, <1>3, <1>4, <1>6 DEF Links

LEMMA OnClusterShutdownCompleteKeeps ==
  ASSUME IInv, NEW n \in Node, NEW s \in DOMAIN Steps, OnClusterShutdownComplete(n, s)
  PROVE  IInv'
<1> USE DEF IInv
<1>1. /\ work' = [work EXCEPT ![n] = @ \ {s}]
      /\ acked' = [acked EXCEPT ![n] = @ \cup {s}]
      /\ toMaster' = [toMaster EXCEPT ![n] = IF link[n] = "open" THEN Append(@, s) ELSE @]
      /\ UNCHANGED <<master, link, toNode, up, quit, stopped, asked, late, requests, crashes>>
  BY DEF OnClusterShutdownComplete
<1>2. toMaster[n] \in Seq(DOMAIN Steps) /\ toMaster \in [Node -> Seq(DOMAIN Steps)]
      /\ acked \in [Node -> SUBSET DOMAIN Steps]
  BY DEF TypeOK
<1>3. /\ Append(toMaster[n], s) \in Seq(DOMAIN Steps)
      /\ DOMAIN toMaster[n] = 1 .. Len(toMaster[n]) /\ Len(toMaster[n]) \in Nat
      /\ DOMAIN Append(toMaster[n], s) = 1 .. Len(toMaster[n]) + 1
      /\ \A i \in 1 .. Len(toMaster[n]) : Append(toMaster[n], s)[i] = toMaster[n][i]
      /\ Append(toMaster[n], s)[Len(toMaster[n]) + 1] = s
  BY <1>2
<1>4. TypeOK'
  <2>1. work' \in [Node -> SUBSET DOMAIN Steps] /\ acked' \in [Node -> SUBSET DOMAIN Steps]
    BY <1>1 DEF TypeOK
  <2>2. toMaster' \in [Node -> Seq(DOMAIN Steps)]
    BY <1>1, <1>2, <1>3
  <2> QED
    BY <1>1, <2>1, <2>2 DEF TypeOK, master
<1>5. \A m \in Node : acked[m] \subseteq acked'[m] /\ s \in acked'[n]
  BY <1>1, <1>2
<1>6. ASSUME NEW m \in Node PROVE LinkHolds(m)'
  <2>1. LinkHolds(m)
    BY DEF Links
  <2>2. CASE m = n /\ link[n] = "open"
    <3>1. toMaster'[n] = Append(toMaster[n], s)
      BY <1>1, <1>2, <2>2
    <3>2. \A i \in 1 .. Len(toMaster[n]) : toMaster[n][i] \in acked'[n]
      BY <1>3, <1>5, <2>1, <2>2 DEF LinkHolds
    <3>3. \A i \in 1 .. Len(toMaster[n]) + 1 : i \in 1 .. Len(toMaster[n]) \/ i = Len(toMaster[n]) + 1
      BY <1>3
    <3>4. \A i \in DOMAIN toMaster'[n] : toMaster'[n][i] \in acked'[n]
      BY <1>3, <1>5, <3>1, <3>2, <3>3
    <3> QED
      BY <1>1, <2>1, <2>2, <3>4 DEF LinkHolds, Has, master
  <2>3. CASE ~(m = n /\ link[n] = "open")
    <3>1. toMaster'[m] = toMaster[m]
      BY <1>1, <1>2, <2>3
    <3> QED
      BY <1>1, <1>5, <2>1, <3>1, LinkKept DEF master
  <2> QED
    BY <2>2, <2>3
<1>7. Before'
  BY <1>1 DEF Before, master
<1>8. Barrier'
  BY <1>1, <1>5 DEF Barrier, BarrierAt, Done, master
<1>9. ASSUME NEW m \in up, LeftAt(m, currStep) PROVE LeftAt(m, currStep)'
  BY <1>1, <1>9 DEF LeftAt, Has, master
<1>10. Left'
  BY <1>1, <1>9 DEF Left
<1> QED
  BY <1>4, <1>6, <1>7, <1>8, <1>10 DEF Links

\* A process that is gone takes with it what it was asked.
LEMMA GoneKeeps ==
  ASSUME IInv, NEW n \in Node, n \in up, Gone(n),
         crashes' \in 0 .. MaxCrashes, toMaster' \in {toMaster, [toMaster EXCEPT ![n] = <<>>]}
  PROVE  IInv'
<1> USE DEF IInv
<1>1. /\ up' = up \ {n} /\ quit' = quit \ {n}
      /\ link' = [link EXCEPT ![n] = IF @ = "open" THEN "fin" ELSE @]
      /\ toNode' = [toNode EXCEPT ![n] = <<>>]
      /\ work' = [work EXCEPT ![n] = {}]
      /\ asked' = [asked EXCEPT ![n] = {}]
      /\ acked' = [acked EXCEPT ![n] = {}]
      /\ UNCHANGED <<master, stopped, late, requests>>
  BY DEF Gone
<1>2. /\ link \in [Node -> {"none", "open", "fin"}] /\ toNode \in [Node -> Seq(Message)]
      /\ toMaster \in [Node -> Seq(DOMAIN Steps)] /\ work \in [Node -> SUBSET DOMAIN Steps]
      /\ asked \in [Node -> SUBSET DOMAIN Steps] /\ acked \in [Node -> SUBSET DOMAIN Steps]
  BY DEF TypeOK, Message
<1>3. TypeOK'
  <2>1. /\ link' \in [Node -> {"none", "open", "fin"}] /\ work' \in [Node -> SUBSET DOMAIN Steps]
        /\ asked' \in [Node -> SUBSET DOMAIN Steps] /\ acked' \in [Node -> SUBSET DOMAIN Steps]
    BY <1>1, <1>2
  <2> DEFINE message == Message
             step == DOMAIN Steps
  <2>2. toNode' \in [Node -> Seq(message)] /\ toMaster' \in [Node -> Seq(step)]
    <3>1. <<>> \in Seq(message) /\ <<>> \in Seq(step)
      OBVIOUS
    <3> HIDE DEF message, step
    <3>2. toNode \in [Node -> Seq(message)] /\ toMaster \in [Node -> Seq(step)]
      BY <1>2 DEF message, step
    <3>3. toNode' \in [Node -> Seq(message)]
      BY <1>1, <3>1, <3>2
    <3>4. [toMaster EXCEPT ![n] = <<>>] \in [Node -> Seq(step)]
      BY <3>1, <3>2
    <3> QED
      BY <3>2, <3>3, <3>4
  <2>3. up' \subseteq Node /\ quit' \subseteq up'
    BY <1>1 DEF TypeOK
  <2> QED
    BY <1>1, <2>1, <2>2, <2>3 DEF TypeOK, Message, master
<1>4. ASSUME NEW m \in Node PROVE LinkHolds(m)'
  <2>1. LinkHolds(m)
    BY DEF Links
  <2>2. CASE m = n
    <3>1. asked'[n] = {} /\ toNode'[n] = <<>> /\ link'[n] # "open"
          /\ (link'[n] = "none" => link[n] = "none")
          /\ toMaster'[n] \in {toMaster[n], <<>>}
      BY <1>1, <1>2
    <3> QED
      BY <2>1, <2>2, <3>1 DEF LinkHolds, Has
  <2>3. CASE m # n
    <3>1. /\ asked'[m] = asked[m] /\ acked'[m] = acked[m] /\ link'[m] = link[m]
          /\ toNode'[m] = toNode[m] /\ toMaster'[m] = toMaster[m]
      BY <1>1, <1>2, <2>3
    <3> QED
      BY <1>1, <2>1, <3>1, LinkKept DEF master
  <2> QED
    BY <2>2, <2>3
<1>5. /\ asked'[n] = {}
      /\ \A m \in Node : m # n => /\ asked'[m] = asked[m] /\ acked'[m] = acked[m]
                                  /\ link'[m] = link[m] /\ toNode'[m] = toNode[m]
  BY <1>1, <1>2
<1>6. Before'
  BY <1>1, <1>5 DEF Before, master
<1>7. ASSUME requests <= 1 PROVE BarrierAt(currStep, currOptNodes)'
  <2> SUFFICES ASSUME NEW m \in Node, NEW s \in asked'[m]
               PROVE  s <= currStep /\ (s < currStep \/ m \notin currOptNodes => Done(m, s)')
    BY <1>1 DEF BarrierAt, master
  <2>1. m # n /\ s \in asked[m] /\ acked'[m] = acked[m]
    BY <1>5
  <2> QED
    BY <1>7, <2>1 DEF Barrier, BarrierAt, Done
<1>8. Barrier'
  BY <1>1, <1>7 DEF Barrier, master
<1>9. ASSUME NEW m \in up \ {n}, LeftAt(m, currStep) PROVE LeftAt(m, currStep)'
  BY <1>1, <1>5, <1>9 DEF LeftAt, Has, TypeOK, master
<1>10. Left'
  BY <1>1, <1>9 DEF Left
<1> QED
  BY <1>3, <1>4, <1>6, <1>8, <1>10 DEF Links

LEMMA RestartKeeps ==
  ASSUME IInv, NEW n \in Node, Restart(n)
  PROVE  IInv'
<1> USE DEF IInv
<1>1. /\ n \notin Slaves /\ Home[n] \in up /\ Home[n] \notin stopped /\ up' = up \cup {n}
      /\ late' = (late \/ \E i \in DOMAIN toNode[Home[n]] : toNode[Home[n]][i] = StopNodes)
      /\ UNCHANGED <<master, wire, quit, work, stopped, asked, acked, requests, crashes>>
  BY DEF Restart
<1>2. TypeOK'
  BY <1>1 DEF TypeOK, master, wire
<1>3. ASSUME NEW m \in Node PROVE LinkHolds(m)'
  BY <1>1, LinkKept DEF Links, master, wire
<1>4. Before' /\ Barrier'
  BY <1>1 DEF Before, Barrier, BarrierAt, Done, master
<1>5. ~(requests = 1 /\ ~late')
  <2> SUFFICES ASSUME requests = 1, ~late' PROVE FALSE
    OBVIOUS
  <2>1. ~late /\ ~Has(toNode[Home[n]])
    BY <1>1 DEF Has
  <2>2. LeftAt(Home[n], currStep)
    BY <1>1, <2>1 DEF Left
  <2>3. Home[n] \in Slaves
    BY ShutdownAssumption, <1>1
  <2> QED
    BY <1>1, <2>1, <2>2, <2>3 DEF LeftAt
<1>6. Left'
  BY <1>1, <1>5 DEF Left
<1> QED
  BY <1>2, <1>3, <1>4, <1>6 DEF Links

LEMMA InvNext == IInv /\ [Next]_vars => IInv'
<1> SUFFICES ASSUME IInv, [Next]_vars PROVE IInv'
  OBVIOUS
<1>1. ASSUME NEW n \in Node, Exit(n) PROVE IInv'
  <2>1. n \in up /\ crashes' \in 0 .. MaxCrashes /\ toMaster' = toMaster /\ Gone(n)
    BY <1>1 DEF Exit, IInv, TypeOK
  <2> QED
    BY <2>1, GoneKeeps
<1>2. ASSUME NEW n \in Node, Crash(n) PROVE IInv'
  <2>1. crashes \in 0 .. MaxCrashes /\ crashes < MaxCrashes /\ crashes' = crashes + 1
    BY <1>2 DEF Crash, IInv, TypeOK
  <2>2. crashes' \in 0 .. MaxCrashes
    BY <2>1, ShutdownAssumption
  <2> QED
    BY <1>2, <2>2, GoneKeeps DEF Crash
<1>3. CASE UNCHANGED vars
  <2> USE <1>3 DEF vars, master, wire, procs, history
  <2>1. TypeOK'
    BY DEF IInv, TypeOK
  <2>2. Links'
    BY DEF IInv, Links, LinkHolds, Has
  <2>3. Before' /\ Barrier'
    BY DEF IInv, Before, Barrier, BarrierAt, Done
  <2>4. Left'
    BY DEF IInv, Left, LeftAt, Has
  <2> QED
    BY <2>1, <2>2, <2>3, <2>4 DEF IInv
<1> QED
  BY <1>1, <1>2, <1>3, TerminateKeeps, MasterExitKeeps, OnOpenKeeps, OnCloseKeeps,
     OnClusterShutdownAckKeeps, OnMessageKeeps, RestartKeeps, OnClusterShutdownCompleteKeeps
     DEF Next

-----------------------------------------------------------------------------
\* The strengthened invariant: what the master, the connections and the nodes know of
\* the steps fits together, whatever closes, dies or starts again meanwhile.
THEOREM InductiveInvariant == Spec => []IInv
BY InvInit, InvNext, PTL DEF Spec

\* Master, connections, messages and nodes keep their types, however often the shutdown
\* is asked for (ShutDown, Starter::preShutDown, Slave).
THEOREM TypeCorrect == Spec => []TypeOK
<1>1. IInv => TypeOK
  BY DEF IInv
<1> QED
  BY <1>1, InductiveInvariant, PTL

\* Until a second shutdown is asked for no step begins before all that was asked in the
\* steps before it is done: closed nodes are gone, notified ones have finished
\* (ShutDown::checkNextStep).
THEOREM StepsInOrder == Spec => [](requests <= 1 => StepBarrier)
<1>1. ASSUME IInv, requests <= 1 PROVE StepBarrier
  BY <1>1 DEF IInv, Barrier, BarrierAt, Done, StepBarrier
<1>2. IInv => (requests <= 1 => StepBarrier)
  BY <1>1
<1> QED
  BY <1>2, InductiveInvariant, PTL

\* Until a second shutdown is asked for, a shutdown that has ended without latecomers
\* leaves no process of a type that a step closes (startNewStep's sets, preShutDown).
THEOREM LeavesNothing == Spec => [](requests <= 1 => NothingLeftBehind)
<1>1. ASSUME IInv, requests <= 1, kernel # "running", ~late,
             NEW n \in up, NEW s \in DOMAIN Steps, Steps[s].close, TypeOf[n] \in Steps[s].all
      PROVE  FALSE
  <2>1. requests \in Nat /\ requests # 0
    BY <1>1, ShutdownAssumption DEF IInv, TypeOK, Before
  <2>2. requests = 1
    BY <1>1, <2>1
  <2>3. currStep = Len(Steps) /\ currOptNodes = {}
    BY <1>1 DEF IInv, Barrier
  <2>4. s \in asked[n]
    BY <1>1, <2>2, <2>3, StepTypes DEF IInv, Left, LeftAt
  <2>5. ~Steps[s].close
    BY <1>1, <2>3, <2>4 DEF IInv, TypeOK, Barrier, BarrierAt, Done
  <2> QED
    BY <1>1, <2>5
<1>2. IInv => (requests <= 1 => NothingLeftBehind)
  BY <1>1 DEF NothingLeftBehind
<1> QED
  BY <1>2, InductiveInvariant, PTL
=============================================================================
