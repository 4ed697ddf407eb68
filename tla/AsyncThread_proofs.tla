-------------------------- MODULE AsyncThread_proofs ---------------------------
(***************************************************************************)
(* Proofs about the asynchronous jobs and the queues that carry them, for  *)
(* every set of jobs and every capacity.  First the ring of CycleQueue:    *)
(* its types, the absence of unsynchronised accesses to a slot, and that   *)
(* it implements FifoQueue.  Then AsyncThread, whose two queues are        *)
(* FifoQueues: no job is lost or in two places, its callback tells the     *)
(* truth, and jobs complete in the order in which they were started.       *)
(***************************************************************************)
EXTENDS AsyncThread, CycleQueue, SequenceTheorems, TLAPS

-----------------------------------------------------------------------------
\* sl::CycleQueue.

\* The inductive invariant.  A producer past its isFull test keeps one free
\* slot ahead of it, a consumer past its isEmpty test keeps one published slot
\* ahead of it, and the slots in between hold items.
CycleInv == /\ CycleTypeOK
            /\ pushPc # "idle" => pushT \in Item
            /\ pushPc \in {"write", "advance"} => front # Succ(tail)
            /\ pushPc = "advance" => queue[tail] = pushT
            /\ readPc # "idle" => front # tail
            /\ \A i \in Published : queue[i] \in Item

-----------------------------------------------------------------------------
\* What the ring's index arithmetic computes without the modulo.
LEMMA SuccValue ==
  ASSUME NEW i \in Slot
  PROVE  /\ Succ(i) \in Slot
         /\ Succ(i) = IF i = Capacity THEN 0 ELSE i + 1
  <1>1. Capacity \in Nat /\ Capacity > 0 BY CycleQueueAssumption
  <1>2. CASE i = Capacity
    BY <1>1, <1>2 DEF Succ, Slot, Size
  <1>3. CASE i # Capacity
    <2>1. i + 1 \in Nat /\ i + 1 < Size /\ Size \in Nat /\ Size > 0
      BY <1>1, <1>3 DEF Slot, Size
    <2>2. (i + 1) % Size = i + 1
      BY <2>1
    <2> QED BY <2>1, <2>2, <1>1, <1>3 DEF Succ, Slot, Size
  <1> QED BY <1>2, <1>3

\* Every reachable state satisfies the inductive invariant at the start.
LEMMA CycleInvInit == CycleInit => CycleInv
  BY CycleQueueAssumption DEF CycleInit, CycleInv, CycleTypeOK, Slot, Size, Published

\* Every step of either thread preserves it.
LEMMA CycleInvStep == CycleInv /\ [CycleNext]_cycleVars => CycleInv'
  <1> SUFFICES ASSUME CycleInv, [CycleNext]_cycleVars PROVE CycleInv'
    OBVIOUS
  <1> USE CycleQueueAssumption
  <1>0. /\ front \in Slot /\ tail \in Slot
        /\ Succ(front) \in Slot
        /\ Succ(tail) \in Slot
        /\ Succ(front) = IF front = Capacity THEN 0 ELSE front + 1
        /\ Succ(tail) = IF tail = Capacity THEN 0 ELSE tail + 1
    BY SuccValue DEF CycleInv, CycleTypeOK
  <1>1. ASSUME NEW t \in Item, PushCall(t) PROVE CycleInv'
    BY <1>1 DEF PushCall, CycleInv, CycleTypeOK, Published, Succ
  <1>2. CASE PushTest
    BY <1>2 DEF PushTest, CycleInv, CycleTypeOK, Published, IsFull, Succ
  <1>3. CASE PushWrite
    <2>1. CycleTypeOK' BY <1>3, <1>0 DEF PushWrite, CycleInv, CycleTypeOK
    <2>2. queue'[tail] = pushT BY <1>3, <1>0 DEF PushWrite, CycleInv, CycleTypeOK
    <2>3. ASSUME NEW i \in Published' PROVE queue'[i] \in Item
      <3>1. i \in Published /\ i \in Slot /\ i # tail
        BY <1>3, <1>0 DEF PushWrite, Published, Slot
      <3>2. queue'[i] = queue[i]
        BY <1>3, <3>1 DEF PushWrite, CycleInv, CycleTypeOK
      <3> QED BY <3>1, <3>2 DEF CycleInv
    <2> QED BY <1>3, <2>1, <2>2, <2>3 DEF PushWrite, CycleInv, Succ
  <1>4. CASE PushAdvance
    <2>1. CycleTypeOK' BY <1>4, <1>0 DEF PushAdvance, CycleInv, CycleTypeOK
    <2>2. front' # tail' BY <1>4 DEF PushAdvance, CycleInv
    <2>3. ASSUME NEW i \in Published' PROVE queue'[i] \in Item
      <3>1. i \in Published \/ i = tail
        BY <1>4, <1>0, <2>2 DEF PushAdvance, Published, Slot, Size
      <3> QED BY <1>4, <3>1 DEF PushAdvance, CycleInv
    <2> QED BY <1>4, <2>1, <2>2, <2>3 DEF PushAdvance, CycleInv
  <1>5. CASE ReadTest
    BY <1>5 DEF ReadTest, CycleInv, CycleTypeOK, Published, IsEmpty, Succ
  <1>6. CASE ReadCopy
    <2>1. queue[front] \in Item \cup {NoItem} BY <1>0 DEF CycleInv, CycleTypeOK
    <2> QED BY <1>6, <2>1 DEF ReadCopy, CycleInv, CycleTypeOK, Published, Succ
  <1>7. CASE ReadAdvance
    <2>1. CycleTypeOK' BY <1>7, <1>0 DEF ReadAdvance, CycleInv, CycleTypeOK
    <2>2. front # tail BY <1>7 DEF ReadAdvance, CycleInv
    <2>3. Succ(front) # Succ(tail)
      BY <1>0, <2>2 DEF Slot, Size
    <2>4. Published' \subseteq Published
      BY <1>7, <1>0, <2>2 DEF ReadAdvance, Published, Slot, Size
    <2>5. /\ front' = Succ(front)
          /\ Succ(tail)' = Succ(tail)
          /\ readPc' = "idle"
          /\ UNCHANGED <<queue, tail, pushPc, pushT>>
      BY <1>7 DEF ReadAdvance, Succ
    <2> QED BY <2>1, <2>3, <2>4, <2>5 DEF CycleInv
  <1>8. CASE UNCHANGED cycleVars
    BY <1>8 DEF cycleVars, CycleInv, CycleTypeOK, Published, Succ
  <1> QED BY <1>1, <1>2, <1>3, <1>4, <1>5, <1>6, <1>7, <1>8 DEF CycleNext, Push, Read

\* The inductive invariant holds in every state of every behaviour.
THEOREM CycleInvariant == CycleSpec => []CycleInv
  BY CycleInvInit, CycleInvStep, PTL DEF CycleSpec

\* The ring's variables keep their types: in particular front and tail stay
\* inside the array that the constructor allocated.
THEOREM CycleTypeCorrect == CycleSpec => []CycleTypeOK
  <1>1. CycleInv => CycleTypeOK BY DEF CycleInv
  <1> QED BY CycleInvariant, <1>1, PTL

\* No slot is written by push() while read() copies it.
THEOREM RaceFree == CycleSpec => []NoSlotRace
  <1>1. CycleInv => NoSlotRace BY DEF CycleInv, NoSlotRace
  <1> QED BY CycleInvariant, <1>1, PTL

\* read() only ever copies slots that push() has filled and published.
THEOREM OnlyPublishedCopied == CycleSpec => []CopiesPublished
  <1>1. CycleInv => CopiesPublished
    BY CycleQueueAssumption DEF CycleInv, CopiesPublished, Published, CycleTypeOK, Slot, Size
  <1> QED BY CycleInvariant, <1>1, PTL

-----------------------------------------------------------------------------
\* The number of items the consumer has copied but not released.
Copied == IF readPc = "advance" THEN 1 ELSE 0

\* What is known of the sequence of waiting items: its length and its members.
ContentsOK ==
  /\ Count \in 0 .. Capacity
  /\ Copied \in 0 .. 1 /\ Copied <= Count
  /\ Contents \in Seq(Item)
  /\ Len(Contents) = Count - Copied
  /\ \A k \in 1 .. Count - Copied :
        /\ Contents[k] = queue[Around(front, k - 1 + Copied)]
        /\ Around(front, k - 1 + Copied) \in Published

\* The waiting items are a sequence of at most Capacity items.
LEMMA ContentsFacts == CycleInv => ContentsOK
  <1> SUFFICES ASSUME CycleInv PROVE ContentsOK
    OBVIOUS
  <1> USE CycleQueueAssumption
  <1>1. front \in Slot /\ tail \in Slot BY DEF CycleInv, CycleTypeOK
  <1>2. Count \in 0 .. Capacity BY <1>1 DEF Count, Slot, Size
  <1>3. Copied \in 0 .. 1 /\ Copied <= Count
    BY <1>1, <1>2 DEF Copied, Count, CycleInv, Slot, Size
  <1>4. Contents = [k \in 1 .. Count - Copied |-> queue[Around(front, k - 1 + Copied)]]
    BY DEF Contents, Copied
  <1>5. ASSUME NEW k \in 1 .. Count - Copied
        PROVE  /\ Around(front, k - 1 + Copied) \in Published
               /\ queue[Around(front, k - 1 + Copied)] \in Item
    <2>1. Around(front, k - 1 + Copied) \in Published
      BY <1>1, <1>2, <1>3 DEF Around, Published, Count, Slot, Size
    <2> QED BY <2>1 DEF CycleInv
  <1>6. Count - Copied \in Nat BY <1>2, <1>3
  <1>7. Contents \in Seq(Item) /\ Len(Contents) = Count - Copied
    BY <1>4, <1>5, <1>6
  <1> QED BY <1>2, <1>3, <1>4, <1>5, <1>7 DEF ContentsOK

\* Two sequences from what they hold: the second is the first one with an item
\* appended, or the first one without its head.
LEMMA AppendedSeq ==
  ASSUME NEW S, NEW s \in Seq(S), NEW t \in Seq(S), NEW e \in S,
         Len(t) = Len(s) + 1,
         \A k \in 1 .. Len(s) : t[k] = s[k],
         t[Len(s) + 1] = e
  PROVE  t = Append(s, e)
  <1>1. /\ Append(s, e) \in Seq(S)
        /\ Len(Append(s, e)) = Len(s) + 1
        /\ \A k \in 1 .. Len(s) : Append(s, e)[k] = s[k]
        /\ Append(s, e)[Len(s) + 1] = e
    BY AppendProperties
  <1>2. Len(s) \in Nat OBVIOUS
  <1>3. \A k \in 1 .. Len(t) : t[k] = Append(s, e)[k]
    BY <1>1, <1>2
  <1> QED BY <1>1, <1>3, SeqEqual

LEMMA TailSeq ==
  ASSUME NEW S, NEW s \in Seq(S), NEW t \in Seq(S),
         Len(s) = Len(t) + 1,
         \A k \in 1 .. Len(t) : t[k] = s[k + 1]
  PROVE  s # <<>> /\ t = Tail(s) /\ Head(s) = s[1]
  <1>1. s # <<>> OBVIOUS
  <1>2. /\ Tail(s) \in Seq(S)
        /\ Len(Tail(s)) = Len(s) - 1
        /\ \A k \in 1 .. Len(Tail(s)) : Tail(s)[k] = s[k + 1]
    BY <1>1, HeadTailProperties
  <1>3. Len(t) \in Nat /\ Len(Tail(s)) = Len(t) BY <1>2
  <1>4. t = Tail(s) BY <1>2, <1>3, SeqEqual
  <1> QED BY <1>1, <1>4

\* A step of the ring is a step of the queue, or leaves the queue alone.
LEMMA CycleSimulation ==
  ASSUME CycleInv, CycleInv', [CycleNext]_cycleVars
  PROVE  [Fifo!FifoNext]_(Fifo!fifoVars)
  <1> USE CycleQueueAssumption
  <1>0. /\ front \in Slot /\ tail \in Slot
        /\ Succ(front) = IF front = Capacity THEN 0 ELSE front + 1
        /\ Succ(tail) = IF tail = Capacity THEN 0 ELSE tail + 1
    BY SuccValue DEF CycleInv, CycleTypeOK
  <1>a. /\ Count \in 0 .. Capacity
        /\ Copied \in 0 .. 1 /\ Copied <= Count
        /\ Contents \in Seq(Item)
        /\ Len(Contents) = Count - Copied
        /\ \A k \in 1 .. Len(Contents) :
              /\ Contents[k] = queue[Around(front, k - 1 + Copied)]
              /\ Around(front, k - 1 + Copied) \in Published
    BY ContentsFacts DEF ContentsOK
  <1>b. /\ Count' \in 0 .. Capacity
        /\ Copied' \in 0 .. 1 /\ Copied' <= Count'
        /\ Contents' \in Seq(Item)
        /\ Len(Contents') = Count' - Copied'
        /\ \A k \in 1 .. Len(Contents') :
              Contents'[k] = queue'[Around(front', k - 1 + Copied')]
    <2>1. ContentsOK' BY ContentsFacts, CycleInv', PTL
    <2>2. \A k \in 1 .. Count' - Copied' :
              Contents'[k] = queue'[Around(front', k - 1 + Copied')]
      BY DEF Contents, Copied
    <2> QED BY <2>1, <2>2 DEF ContentsOK
  <1>1. ASSUME NEW t \in Item, PushCall(t) PROVE UNCHANGED Fifo!fifoVars
    BY <1>1 DEF PushCall, Fifo!fifoVars, Contents, Count, Around
  <1>2. CASE PushTest
    BY <1>2 DEF PushTest, Fifo!fifoVars, Contents, Count, Around
  <1>3. CASE PushWrite
    <2>1. /\ Count' = Count /\ Copied' = Copied /\ front' = front /\ readT' = readT
      BY <1>3 DEF PushWrite, Count, Copied
    <2>2. Len(Contents') = Len(Contents) BY <2>1, <1>a, <1>b
    <2>3. ASSUME NEW k \in 1 .. Len(Contents) PROVE Contents[k] = Contents'[k]
      <3>1. Around(front, k - 1 + Copied) \in Slot /\ Around(front, k - 1 + Copied) # tail
        <4>1. Around(front, k - 1 + Copied) \in Published BY <1>a
        <4> QED BY <4>1, <1>0 DEF Published, Slot
      <3>2. queue'[Around(front, k - 1 + Copied)] = queue[Around(front, k - 1 + Copied)]
        BY <1>3, <3>1 DEF PushWrite, CycleInv, CycleTypeOK
      <3>3. Contents'[k] = queue'[Around(front', k - 1 + Copied')] BY <2>2, <1>b
      <3>4. Contents'[k] = queue'[Around(front, k - 1 + Copied)] BY <2>1, <3>3
      <3> QED BY <3>2, <3>4, <1>a
    <2>4. Contents = Contents' BY <2>2, <2>3, <1>a, <1>b, SeqEqual
    <2> QED BY <2>1, <2>4 DEF Fifo!fifoVars
  <1>4. CASE PushAdvance
    <2>1. Count' = Count + 1 /\ Count < Capacity
      BY <1>4, <1>0 DEF PushAdvance, CycleInv, Count, Slot, Size
    <2>2. Copied' = Copied /\ queue' = queue /\ front' = front /\ readT' = readT
      BY <1>4 DEF PushAdvance, Copied
    <2>3. /\ Len(Contents) \in Nat /\ Len(Contents) < Capacity
          /\ Len(Contents') = Len(Contents) + 1
      BY <2>1, <2>2, <1>a, <1>b
    <2>4. ASSUME NEW k \in 1 .. Len(Contents) PROVE Contents'[k] = Contents[k]
      <3>1. k \in 1 .. Len(Contents') BY <2>3
      <3>2. Contents'[k] = queue'[Around(front', k - 1 + Copied')] BY <3>1, <1>b
      <3> QED BY <2>2, <3>2, <1>a
    <2>5. Contents'[Len(Contents) + 1] = pushT
      <3> DEFINE m == Len(Contents) + 1
      <3>1. m \in 1 .. Len(Contents') BY <2>3
      <3>2. Contents'[m] = queue'[Around(front', m - 1 + Copied')] BY <3>1, <1>b
      <3>3. m - 1 + Copied = Count BY <1>a
      <3>4. Around(front, Count) = tail BY <1>0 DEF Around, Count, Slot, Size
      <3>5. queue[tail] = pushT BY <1>4 DEF PushAdvance, CycleInv
      <3> QED BY <3>2, <3>3, <3>4, <3>5, <2>2
    <2>6. pushT \in Item BY <1>4 DEF PushAdvance, CycleInv
    <2>7. Contents' = Append(Contents, pushT)
      <3>1. Contents \in Seq(Item) /\ Contents' \in Seq(Item) BY <1>a, <1>b
      <3>2. Len(Contents') = Len(Contents) + 1 BY <2>3
      <3> QED BY <3>1, <3>2, <2>4, <2>5, <2>6, AppendedSeq
    <2>8. Fifo!FifoPush(pushT)
      BY <2>2, <2>3, <2>7 DEF Fifo!FifoPush
    <2> QED BY <2>6, <2>8 DEF Fifo!FifoNext
  <1>5. CASE ReadTest
    BY <1>5 DEF ReadTest, Fifo!fifoVars, Contents, Count, Around
  <1>6. CASE ReadCopy
    <2>1. Count' = Count /\ Copied = 0 /\ Copied' = 1 /\ queue' = queue /\ front' = front
      BY <1>6 DEF ReadCopy, Count, Copied
    <2>2. Len(Contents') \in Nat /\ Len(Contents) = Len(Contents') + 1
      BY <2>1, <1>a, <1>b
    <2>3. ASSUME NEW k \in 1 .. Len(Contents') PROVE Contents'[k] = Contents[k + 1]
      <3>1. Contents'[k] = queue[Around(front, k - 1 + 1)] BY <2>1, <1>b
      <3>2. k + 1 \in 1 .. Len(Contents) BY <2>2
      <3>3. Contents[k + 1] = queue[Around(front, (k + 1) - 1 + 0)] BY <2>1, <3>2, <1>a
      <3>4. k - 1 + 1 = (k + 1) - 1 + 0 OBVIOUS
      <3> QED BY <3>1, <3>3, <3>4
    <2>4. Contents[1] = queue[front]
      <3>1. Around(front, 1 - 1 + 0) = front BY <1>0 DEF Around, Slot, Size
      <3>2. 1 \in 1 .. Len(Contents) BY <2>2
      <3>3. Contents[1] = queue[Around(front, 1 - 1 + 0)] BY <2>1, <3>2, <1>a
      <3> QED BY <3>1, <3>3
    <2>5. Contents # <<>> /\ Contents' = Tail(Contents) /\ Head(Contents) = Contents[1]
      BY <2>2, <2>3, <1>a, <1>b, TailSeq
    <2>6. Fifo!FifoRead BY <1>6, <2>4, <2>5 DEF ReadCopy, Fifo!FifoRead
    <2> QED BY <2>6 DEF Fifo!FifoNext
  <1>7. CASE ReadAdvance
    <2>1. Copied = 1 /\ Copied' = 0 /\ queue' = queue /\ readT' = readT
      BY <1>7 DEF ReadAdvance, Copied
    <2>2. Count' = Count - 1
      BY <1>7, <1>0 DEF ReadAdvance, CycleInv, Count, Slot, Size
    <2>3. Len(Contents') = Len(Contents) BY <2>1, <2>2, <1>a, <1>b
    <2>4. ASSUME NEW k \in 1 .. Len(Contents) PROVE Contents[k] = Contents'[k]
      <3>1. Around(front', k - 1 + 0) = Around(front, k - 1 + 1)
        <4>1. k \in Int /\ 1 <= k /\ k <= Count - 1 BY <1>a, <2>1
        <4> QED BY <4>1, <1>7, <1>0, <1>a DEF ReadAdvance, Around, Slot, Size
      <3>2. Contents'[k] = queue'[Around(front', k - 1 + 0)] BY <2>1, <2>3, <1>b
      <3>3. Contents[k] = queue[Around(front, k - 1 + 1)] BY <2>1, <1>a
      <3> QED BY <3>1, <3>2, <3>3, <2>1
    <2>5. Contents = Contents' BY <2>3, <2>4, <1>a, <1>b, SeqEqual
    <2> QED BY <2>1, <2>5 DEF Fifo!fifoVars
  <1>8. CASE UNCHANGED cycleVars
    BY <1>8 DEF cycleVars, Fifo!fifoVars, Contents, Count, Around
  <1> QED BY <1>1, <1>2, <1>3, <1>4, <1>5, <1>6, <1>7, <1>8 DEF CycleNext, Push, Read

\* sl::CycleQueue implements the bounded FIFO queue, whatever the capacity and
\* however the two threads interleave: nothing is lost, doubled or reordered.
THEOREM CycleImplementation == CycleSpec => ImplementsFifo
  <1>1. CycleInit => Fifo!FifoInit
    BY CycleQueueAssumption DEF CycleInit, Fifo!FifoInit, Contents, Count
  <1>2. CycleInv /\ CycleInv' /\ [CycleNext]_cycleVars => [Fifo!FifoNext]_(Fifo!fifoVars)
    BY CycleSimulation
  <1> QED BY <1>1, <1>2, CycleInvariant, PTL
          DEF CycleSpec, ImplementsFifo, Fifo!FifoSpec

-----------------------------------------------------------------------------
\* AsyncThread: what each variable holds, and that the queues keep their limit.
HasJob == workerPc \in {"check", "execute", "push"}

AsyncTypes ==
  /\ TypeOK
  /\ mainPc = "adding" => mainAdd \in Job
  /\ mainPc = "callback" \/ (mainPc = "adding" /\ mainRet = "callback") => mainBase \in Job
  /\ HasJob => workerBase \in Job
  /\ Len(runningQueue) <= QueueSize /\ Len(completeQueue) <= QueueSize

\* A queue that gets one more item, and one that loses its oldest.
LEMMA QueueAppend ==
  ASSUME NEW s \in Seq(Job), NEW e \in Job
  PROVE  Append(s, e) \in Seq(Job) /\ Len(Append(s, e)) = Len(s) + 1
BY AppendProperties

LEMMA QueueTail ==
  ASSUME NEW s \in Seq(Job), s # <<>>
  PROVE  /\ Head(s) \in Job /\ Tail(s) \in Seq(Job) /\ Len(Tail(s)) = Len(s) - 1
         /\ Len(s) \in Nat
BY HeadTailProperties

LEMMA AsyncTypesInit == Init => AsyncTypes
<1> SUFFICES ASSUME Init PROVE AsyncTypes
  OBVIOUS
<1>1. /\ runningQueue = <<>> /\ completeQueue = <<>> /\ workerBase = NoJob /\ mainBase = NoJob
  BY DEF Init, Running!FifoInit, Complete!FifoInit
<1>2. runningQueue \in Seq(Job) /\ completeQueue \in Seq(Job)
  BY <1>1
<1>3. Len(runningQueue) <= QueueSize /\ Len(completeQueue) <= QueueSize
  BY <1>1, AsyncAssumption
<1> QED
  BY <1>1, <1>2, <1>3 DEF Init, AsyncTypes, TypeOK, HasJob

LEMMA AsyncTypesStep == AsyncTypes /\ [Next]_vars => AsyncTypes'
<1> SUFFICES ASSUME AsyncTypes, [Next]_vars PROVE AsyncTypes'
  OBVIOUS
<1> USE AsyncAssumption DEF AsyncTypes, TypeOK, HasJob, jobVars, mainVars, workerVars, history
<1>1. ASSUME NEW j \in Job, Start(j) PROVE AsyncTypes'
  BY <1>1 DEF Start
<1>2. ASSUME NEW j \in Job, Stop(j) PROVE AsyncTypes'
  BY <1>2 DEF Stop
<1>3. CASE Add
  <2>1. /\ runningQueue' = Append(runningQueue, mainAdd) /\ Len(runningQueue) < QueueSize
        /\ mainAdd \in Job /\ UNCHANGED workerBase
    BY <1>3 DEF Add, Running!FifoPush
  <2>2. runningQueue' \in Seq(Job) /\ Len(runningQueue') <= QueueSize
    BY <2>1, QueueAppend
  <2> QED
    BY <1>3, <2>1, <2>2 DEF Add
<1>4. CASE EnterLoop
  BY <1>4 DEF EnterLoop
<1>5. CASE LoopRead
  <2>1. /\ completeQueue' = Tail(completeQueue) /\ completeQueue # <<>>
        /\ mainBase' = Head(completeQueue)
    BY <1>5 DEF LoopRead, Complete!FifoRead
  <2>2. completeQueue' \in Seq(Job) /\ Len(completeQueue') <= QueueSize /\ mainBase' \in Job
    BY <2>1, QueueTail
  <2> QED
    BY <1>5, <2>2 DEF LoopRead
<1>6. CASE LoopEmpty
  BY <1>6 DEF LoopEmpty
<1>7. CASE OnComplete
  BY <1>7 DEF OnComplete
<1>8. CASE Terminate
  BY <1>8 DEF Terminate
<1>9. CASE Joined
  BY <1>9 DEF Joined
<1>10. CASE WorkerTest
  BY <1>10 DEF WorkerTest
<1>11. CASE WorkerRead
  <2>1. /\ runningQueue' = Tail(runningQueue) /\ runningQueue # <<>>
        /\ workerBase' = Head(runningQueue)
    BY <1>11 DEF WorkerRead, Running!FifoRead
  <2>2. runningQueue' \in Seq(Job) /\ Len(runningQueue') <= QueueSize /\ workerBase' \in Job
    BY <2>1, QueueTail
  <2> QED
    BY <1>11, <2>2 DEF WorkerRead
<1>12. CASE WorkerEmpty
  BY <1>12 DEF WorkerEmpty
<1>13. CASE WorkerCheck
  BY <1>13 DEF WorkerCheck
<1>14. CASE WorkerExecute
  BY <1>14 DEF WorkerExecute
<1>15. CASE WorkerPush
  <2>1. /\ completeQueue' = Append(completeQueue, workerBase)
        /\ Len(completeQueue) < QueueSize /\ workerBase \in Job /\ UNCHANGED mainBase
    BY <1>15 DEF WorkerPush, Complete!FifoPush
  <2>2. completeQueue' \in Seq(Job) /\ Len(completeQueue') <= QueueSize
    BY <2>1, QueueAppend
  <2> QED
    BY <1>15, <2>1, <2>2 DEF WorkerPush
<1>16. CASE UNCHANGED vars
  BY <1>16 DEF vars
<1> QED
  BY <1>1, <1>2, <1>3, <1>4, <1>5, <1>6, <1>7, <1>8, <1>9, <1>10, <1>11, <1>12, <1>13, <1>14,
     <1>15, <1>16 DEF Next, MainLoop, Worker

\* Every variable keeps its type (AsyncThread, AsyncBase).
THEOREM TypeCorrect == Spec => []TypeOK
<1>1. AsyncTypes => TypeOK
  BY DEF AsyncTypes
<1> QED
  BY <1>1, AsyncTypesInit, AsyncTypesStep, PTL DEF Spec

-----------------------------------------------------------------------------
\* The jobs on their way as one sequence.
Held  == IF HasJob THEN <<workerBase>> ELSE <<>>
Added == IF mainPc = "adding" THEN <<mainAdd>> ELSE <<>>

LEMMA InFlightIs ==
  ASSUME AsyncTypes
  PROVE  /\ completeQueue \in Seq(Job) /\ Held \in Seq(Job)
         /\ runningQueue \in Seq(Job) /\ Added \in Seq(Job)
         /\ InFlight = ((completeQueue \o Held) \o runningQueue) \o Added
<1>1. completeQueue \in Seq(Job) /\ runningQueue \in Seq(Job)
  BY DEF AsyncTypes, TypeOK
<1>2. Held \in Seq(Job)
  BY DEF AsyncTypes, Held
<1>3. Added \in Seq(Job)
  BY DEF AsyncTypes, Added
<1> QED
  BY <1>1, <1>2, <1>3 DEF InFlight, Held, Added, HasJob

LEMMA Associative ==
  \A a \in Seq(Job) : \A b \in Seq(Job) : \A c \in Seq(Job) : (a \o b) \o c = a \o (b \o c)
BY ConcatAssociative

\* An item at the border of two sequences.
LEMMA AtTheEnd ==
  ASSUME NEW a \in Seq(Job), NEW e \in Job
  PROVE  /\ <<e>> \in Seq(Job)
         /\ Append(a, e) = a \o <<e>> /\ a \o <<e>> \in Seq(Job)
         /\ a \o <<>> = a
<1>1. <<e>> \in Seq(Job)
  OBVIOUS
<1>2. Append(a, e) = a \o <<e>> /\ Append(a, e) \in Seq(Job)
  BY AppendIsConcat, AppendProperties
<1>3. a \o <<>> = a
  BY ConcatEmptySeq
<1> QED
  BY <1>1, <1>2, <1>3, Zenon

LEMMA Border ==
  ASSUME NEW a \in Seq(Job), NEW b \in Seq(Job), NEW e \in Job
  PROVE  /\ (a \o <<e>>) \o b = a \o (<<e>> \o b)
         /\ Append(a \o b, e) = a \o Append(b, e)
<1>a. PICK f : f = <<e>>
  OBVIOUS
<1>b. f \in Seq(Job)
  BY <1>a
<1>1. (a \o f) \o b = a \o (f \o b)
  BY <1>b, ConcatAssociative
<1>2. (a \o b) \o f = a \o (b \o f)
  BY <1>b, ConcatAssociative
<1>3. a \o b \in Seq(Job)
  BY ConcatProperties
<1>4. Append(b, e) = b \o f /\ Append(a \o b, e) = (a \o b) \o f
  BY <1>3, <1>a, AtTheEnd
<1> QED
  BY <1>1, <1>2, <1>4, <1>a, Zenon

\* The head of a sequence and the rest of it make the sequence.
LEMMA HeadAndTail ==
  ASSUME NEW a \in Seq(Job), a # <<>>
  PROVE  <<Head(a)>> \o Tail(a) = a
<1>1. /\ Head(a) \in Job /\ Tail(a) \in Seq(Job) /\ Len(Tail(a)) = Len(a) - 1
      /\ \A i \in 1..Len(Tail(a)) : Tail(a)[i] = a[i + 1]
      /\ Len(a) \in Nat \ {0}
  BY HeadTailProperties, EmptySeq
<1>a. PICK h : h = <<Head(a)>>
  OBVIOUS
<1>2. h \in Seq(Job) /\ Len(h) = 1 /\ h[1] = a[1]
  BY <1>1, <1>a
<1>3. /\ h \o Tail(a) \in Seq(Job) /\ Len(h \o Tail(a)) = Len(a)
      /\ \A i \in 1..Len(a) : (h \o Tail(a))[i] = IF i <= 1 THEN h[i] ELSE Tail(a)[i - 1]
  <2>1. /\ h \o Tail(a) \in Seq(Job) /\ Len(h \o Tail(a)) = Len(h) + Len(Tail(a))
        /\ \A i \in 1..(Len(h) + Len(Tail(a))) :
              (h \o Tail(a))[i] = IF i <= Len(h) THEN h[i] ELSE Tail(a)[i - Len(h)]
    BY <1>1, <1>2, ConcatProperties
  <2>2. Len(h) + Len(Tail(a)) = Len(a)
    BY <1>1, <1>2
  <2> QED
    BY <1>2, <2>1, <2>2
<1>4. ASSUME NEW i \in 1..Len(a) PROVE (h \o Tail(a))[i] = a[i]
  <2>1. CASE i = 1
    BY <1>2, <1>3, <2>1
  <2>2. CASE i # 1
    <3>1. i - 1 \in 1..Len(Tail(a)) /\ (i - 1) + 1 = i /\ ~(i <= 1)
      BY <1>1, <2>2
    <3> QED
      BY <1>1, <1>3, <3>1
  <2> QED
    BY <2>1, <2>2
<1> QED
  BY <1>3, <1>4, <1>a, SeqEqual

LEMMA HeadOfConcat ==
  ASSUME NEW a \in Seq(Job), NEW e \in Job
  PROVE  LET s == <<e>> \o a IN s # <<>> /\ Head(s) = e /\ Tail(s) = a
<1>a. PICK f : f = <<e>>
  OBVIOUS
<1>1. f \in Seq(Job) /\ Len(f) = 1 /\ f[1] = e /\ Len(a) \in Nat
  BY <1>a
<1>b. PICK s : s = f \o a
  OBVIOUS
<1>2. /\ s \in Seq(Job) /\ Len(s) = 1 + Len(a)
      /\ \A i \in 1..(1 + Len(a)) : s[i] = IF i <= 1 THEN f[i] ELSE a[i - 1]
  <2>1. /\ f \o a \in Seq(Job) /\ Len(f \o a) = Len(f) + Len(a)
        /\ \A i \in 1..(Len(f) + Len(a)) :
              (f \o a)[i] = IF i <= Len(f) THEN f[i] ELSE a[i - Len(f)]
    BY <1>1, ConcatProperties
  <2> QED
    BY <1>1, <1>b, <2>1
<1>3. s # <<>> /\ Head(s) = e
  <2>1. 1 \in 1..(1 + Len(a)) /\ Len(s) # 0 /\ s[1] = e
    BY <1>1, <1>2
  <2> QED
    BY <1>2, <2>1
<1>4. Tail(s) = a
  <2>1. /\ Tail(s) \in Seq(Job) /\ Len(Tail(s)) = Len(s) - 1
        /\ \A i \in 1..Len(Tail(s)) : Tail(s)[i] = s[i + 1]
    BY <1>2, <1>3, HeadTailProperties
  <2>2. Len(Tail(s)) = Len(a)
    BY <1>1, <1>2, <2>1
  <2>3. ASSUME NEW i \in 1..Len(a) PROVE Tail(s)[i] = a[i]
    <3>1. i + 1 \in 1..(1 + Len(a)) /\ ~(i + 1 <= 1) /\ (i + 1) - 1 = i
      BY <1>1
    <3> QED
      BY <1>2, <2>1, <2>2, <3>1
  <2> QED
    BY <2>1, <2>2, <2>3, SeqEqual
<1> QED
  BY <1>3, <1>4, <1>a, <1>b

LEMMA InFlightNext ==
  InFlight' = ((completeQueue' \o Held') \o runningQueue') \o Added'
BY DEF InFlight, Held, Added, HasJob

\* What each step does to the jobs on their way: only start and AsyncThread::loop change
\* their sequence, at its ends.
LEMMA StartMoves ==
  ASSUME AsyncTypes, NEW j \in Job, Start(j)
  PROVE  InFlight' = Append(InFlight, j) /\ Added = <<>>
<1>1. /\ completeQueue \in Seq(Job) /\ Held \in Seq(Job) /\ runningQueue \in Seq(Job)
      /\ InFlight = ((completeQueue \o Held) \o runningQueue) \o Added
  BY InFlightIs
<1>2. /\ UNCHANGED <<completeQueue, runningQueue>> /\ Held' = Held
      /\ Added = <<>> /\ Added' = <<j>>
  BY DEF Start, Held, HasJob, Added, workerVars
<1>a. PICK a : a = (completeQueue \o Held) \o runningQueue
  OBVIOUS
<1>3. a \in Seq(Job)
  BY <1>1, <1>a, ConcatProperties
<1>4. a \o <<>> = a /\ Append(a, j) = a \o <<j>>
  BY <1>3, AtTheEnd
<1>5. InFlight = a \o <<>> /\ InFlight' = a \o <<j>>
  BY <1>1, <1>2, <1>a, InFlightNext
<1> QED
  BY <1>2, <1>4, <1>5

LEMMA AddMoves ==
  ASSUME AsyncTypes, Add
  PROVE  InFlight' = InFlight
<1>1. /\ completeQueue \in Seq(Job) /\ Held \in Seq(Job) /\ runningQueue \in Seq(Job)
      /\ InFlight = ((completeQueue \o Held) \o runningQueue) \o Added
  BY InFlightIs
<1>2. /\ completeQueue' = completeQueue /\ runningQueue' = Append(runningQueue, mainAdd)
      /\ Held' = Held /\ mainAdd \in Job /\ Added = <<mainAdd>> /\ Added' = <<>>
  BY DEF Add, Running!FifoPush, Held, HasJob, Added, AsyncTypes, TypeOK
<1>a. PICK a : a = completeQueue \o Held
  OBVIOUS
<1>3. a \in Seq(Job) /\ a \o runningQueue \in Seq(Job) /\ Append(runningQueue, mainAdd) \in Seq(Job)
  BY <1>1, <1>2, <1>a, ConcatProperties, AppendProperties
<1>4. /\ Append(a \o runningQueue, mainAdd) = a \o Append(runningQueue, mainAdd)
      /\ Append(a \o runningQueue, mainAdd) = (a \o runningQueue) \o <<mainAdd>>
  <2>1. a \o runningQueue \in Seq(Job) /\ mainAdd \in Job
    BY <1>2, <1>3
  <2>2. Append(a \o runningQueue, mainAdd) = (a \o runningQueue) \o <<mainAdd>>
    BY <2>1, AtTheEnd, Zenon
  <2>3. a \in Seq(Job) /\ runningQueue \in Seq(Job)
    BY <1>1, <1>3
  <2>4. Append(a \o runningQueue, mainAdd) = a \o Append(runningQueue, mainAdd)
    BY <2>1, <2>3, Border, Zenon
  <2> QED
    BY <2>2, <2>4
<1>5. a \o Append(runningQueue, mainAdd) \in Seq(Job)
  BY <1>3, ConcatProperties
<1>6. (a \o Append(runningQueue, mainAdd)) \o <<>> = a \o Append(runningQueue, mainAdd)
  BY <1>5, ConcatEmptySeq
<1>7. /\ InFlight = (a \o runningQueue) \o <<mainAdd>>
      /\ InFlight' = (a \o Append(runningQueue, mainAdd)) \o <<>>
  BY <1>1, <1>2, <1>a, InFlightNext
<1> QED
  BY <1>4, <1>6, <1>7

LEMMA ReadMoves ==
  ASSUME AsyncTypes, LoopRead
  PROVE  InFlight # <<>> /\ mainBase' = Head(InFlight) /\ InFlight' = Tail(InFlight)
<1>1. /\ completeQueue \in Seq(Job) /\ Held \in Seq(Job) /\ runningQueue \in Seq(Job)
      /\ Added \in Seq(Job)
      /\ InFlight = ((completeQueue \o Held) \o runningQueue) \o Added
  BY InFlightIs
<1>2. /\ completeQueue # <<>> /\ completeQueue' = Tail(completeQueue)
      /\ mainBase' = Head(completeQueue)
      /\ runningQueue' = runningQueue /\ Held' = Held /\ Added' = Added
  BY DEF LoopRead, Complete!FifoRead, Held, HasJob, Added, workerVars
<1>a. PICK e : e = Head(completeQueue)
  OBVIOUS
<1>b. PICK t : t = Tail(completeQueue)
  OBVIOUS
<1>3. e \in Job /\ t \in Seq(Job) /\ completeQueue = <<e>> \o t
  BY <1>1, <1>2, <1>a, <1>b, HeadTailProperties, HeadAndTail
<1>c. PICK f : f = <<e>>
  OBVIOUS
<1>d. PICK h : h = Held
  OBVIOUS
<1>e. PICK r : r = runningQueue
  OBVIOUS
<1>f. PICK d : d = Added
  OBVIOUS
<1>4. /\ f \in Seq(Job) /\ t \in Seq(Job) /\ h \in Seq(Job) /\ r \in Seq(Job)
      /\ d \in Seq(Job)
  BY <1>1, <1>3, <1>c, <1>d, <1>e, <1>f
<1>g. PICK th : th = t \o h
  OBVIOUS
<1>h. PICK thr : thr = th \o r
  OBVIOUS
<1>5. th \in Seq(Job) /\ thr \in Seq(Job) /\ thr \o d \in Seq(Job)
  <2>1. th \in Seq(Job)
    BY <1>4, <1>g, ConcatProperties
  <2>2. thr \in Seq(Job)
    BY <1>4, <1>h, <2>1, ConcatProperties
  <2> QED
    BY <1>4, <2>1, <2>2, ConcatProperties
<1>6. (f \o t) \o h = f \o th
  BY <1>4, <1>g, ConcatAssociative
<1>7. (f \o th) \o r = f \o thr
  <2>1. (f \o th) \o r = f \o (th \o r)
    <3>1. f \in Seq(Job) /\ th \in Seq(Job) /\ r \in Seq(Job)
      BY <1>4, <1>5
    <3> QED
      BY <3>1, Associative, Zenon
  <2> QED
    BY <1>h, <2>1, Zenon
<1>8. (f \o thr) \o d = f \o (thr \o d)
  <2>1. f \in Seq(Job) /\ thr \in Seq(Job) /\ d \in Seq(Job)
    BY <1>4, <1>5
  <2> QED
    BY <2>1, Associative, Zenon
<1>9. InFlight = <<e>> \o (thr \o d) /\ InFlight' = thr \o d
  <2>1. InFlight = (((f \o t) \o h) \o r) \o d
    BY <1>1, <1>3, <1>c, <1>d, <1>e, <1>f, Zenon
  <2>2. InFlight' = ((t \o h) \o r) \o d
    BY <1>2, <1>b, <1>d, <1>e, <1>f, InFlightNext, Zenon
  <2> QED
    BY <1>6, <1>7, <1>8, <1>c, <1>g, <1>h, <2>1, <2>2, Zenon
<1>i. PICK rest : rest = thr \o d
  OBVIOUS
<1>10. rest \in Seq(Job) /\ InFlight = <<e>> \o rest /\ InFlight' = rest
  BY <1>5, <1>9, <1>i
<1>11. LET s == <<e>> \o rest IN s # <<>> /\ Head(s) = e /\ Tail(s) = rest
  BY <1>3, <1>10, HeadOfConcat
<1> QED
  BY <1>2, <1>10, <1>11, <1>a, Zenon

LEMMA WorkerReadMoves ==
  ASSUME AsyncTypes, WorkerRead
  PROVE  InFlight' = InFlight
<1>1. /\ completeQueue \in Seq(Job) /\ runningQueue \in Seq(Job)
      /\ InFlight = ((completeQueue \o Held) \o runningQueue) \o Added
  BY InFlightIs
<1>2. /\ runningQueue # <<>> /\ runningQueue' = Tail(runningQueue)
      /\ completeQueue' = completeQueue /\ Added' = Added
      /\ Held = <<>> /\ Held' = <<Head(runningQueue)>>
  BY DEF WorkerRead, Running!FifoRead, Held, HasJob, Added, mainVars
<1>a. PICK e : e = Head(runningQueue)
  OBVIOUS
<1>b. PICK t : t = Tail(runningQueue)
  OBVIOUS
<1>3. e \in Job /\ t \in Seq(Job) /\ runningQueue = <<e>> \o t
  BY <1>1, <1>2, <1>a, <1>b, HeadTailProperties, HeadAndTail
<1>4. /\ completeQueue \o <<>> = completeQueue
      /\ (completeQueue \o <<e>>) \o t = completeQueue \o (<<e>> \o t)
  BY <1>1, <1>3, Border, AtTheEnd
<1>5. /\ InFlight = ((completeQueue \o <<>>) \o (<<e>> \o t)) \o Added
      /\ InFlight' = ((completeQueue \o <<e>>) \o t) \o Added
  BY <1>1, <1>2, <1>3, <1>a, <1>b, InFlightNext
<1> QED
  BY <1>4, <1>5

LEMMA WorkerPushMoves ==
  ASSUME AsyncTypes, WorkerPush
  PROVE  InFlight' = InFlight
<1>1. /\ completeQueue \in Seq(Job)
      /\ InFlight = ((completeQueue \o Held) \o runningQueue) \o Added
  BY InFlightIs
<1>2. /\ completeQueue' = Append(completeQueue, workerBase) /\ workerBase \in Job
      /\ runningQueue' = runningQueue /\ Added' = Added
      /\ Held = <<workerBase>> /\ Held' = <<>>
  BY DEF WorkerPush, Complete!FifoPush, Held, HasJob, Added, AsyncTypes
<1>3. /\ Append(completeQueue, workerBase) = completeQueue \o <<workerBase>>
      /\ completeQueue \o <<workerBase>> \in Seq(Job)
  BY <1>1, <1>2, AtTheEnd
<1>4. (completeQueue \o <<workerBase>>) \o <<>> = completeQueue \o <<workerBase>>
  BY <1>3, ConcatEmptySeq
<1>5. /\ InFlight = ((completeQueue \o <<workerBase>>) \o runningQueue) \o Added
      /\ InFlight' = ((Append(completeQueue, workerBase) \o <<>>) \o runningQueue) \o Added
  BY <1>1, <1>2, InFlightNext
<1> QED
  BY <1>3, <1>4, <1>5

LEMMA OthersMoveNothing ==
  ASSUME EnterLoop \/ LoopEmpty \/ OnComplete \/ Terminate \/ Joined \/ WorkerTest
           \/ WorkerEmpty \/ WorkerCheck \/ WorkerExecute \/ UNCHANGED vars
           \/ \E j \in Job : Stop(j)
  PROVE  InFlight' = InFlight /\ mainBase' = mainBase
<1>1. /\ UNCHANGED <<completeQueue, runningQueue, mainAdd, mainBase, workerBase>>
      /\ HasJob' = HasJob /\ (mainPc' = "adding" <=> mainPc = "adding")
  BY DEF EnterLoop, LoopEmpty, OnComplete, Terminate, Joined, WorkerTest, WorkerEmpty,
         WorkerCheck, WorkerExecute, Stop, vars, mainVars, workerVars, HasJob
<1>2. Held' = Held /\ Added' = Added
  BY <1>1 DEF Held, Added
<1> QED
  BY <1>1, <1>2, InFlightNext DEF InFlight, Held, Added, HasJob

\* No more than two full queues, the worker's job and the one being added.
LEMMA InFlightBound ==
  ASSUME AsyncTypes, Added = <<>>
  PROVE  Len(InFlight) < 2 * QueueSize + 2
<1>1. /\ completeQueue \in Seq(Job) /\ Held \in Seq(Job) /\ runningQueue \in Seq(Job)
      /\ InFlight = ((completeQueue \o Held) \o runningQueue) \o <<>>
  BY InFlightIs
<1>2. /\ completeQueue \o Held \in Seq(Job)
      /\ Len(completeQueue \o Held) = Len(completeQueue) + Len(Held)
  BY <1>1, ConcatProperties
<1>3. /\ (completeQueue \o Held) \o runningQueue \in Seq(Job)
      /\ Len((completeQueue \o Held) \o runningQueue)
           = Len(completeQueue \o Held) + Len(runningQueue)
  BY <1>1, <1>2, ConcatProperties
<1>4. InFlight = (completeQueue \o Held) \o runningQueue
  BY <1>1, <1>3, ConcatEmptySeq
<1>5. Len(InFlight) = Len(completeQueue) + Len(Held) + Len(runningQueue)
  BY <1>2, <1>3, <1>4
<1>6. /\ Len(completeQueue) \in Nat /\ Len(completeQueue) <= QueueSize
      /\ Len(runningQueue) \in Nat /\ Len(runningQueue) <= QueueSize
      /\ Len(Held) \in Nat /\ Len(Held) <= 1 /\ QueueSize \in Nat
  BY <1>1, AsyncAssumption DEF AsyncTypes, Held
<1> QED
  BY <1>5, <1>6

\* Seen from the logic code the two queues and the threads are one FIFO queue: jobs
\* complete in the order they were started, none is lost or completed twice (AsyncEngine).
THEOREM JobsCompleteInOrder == Spec => CompletesInOrder
<1>1. ASSUME Init PROVE Pipeline!FifoInit
  <2>1. /\ completeQueue = <<>> /\ runningQueue = <<>> /\ Held = <<>> /\ Added = <<>>
        /\ mainBase = NoJob
    BY <1>1 DEF Init, Running!FifoInit, Complete!FifoInit, Held, HasJob, Added
  <2>2. InFlight = ((<<>> \o <<>>) \o <<>>) \o <<>>
    BY <2>1 DEF InFlight, Held, Added, HasJob
  <2>3. <<>> \o <<>> = <<>>
    OBVIOUS
  <2> QED
    BY <2>1, <2>2, <2>3 DEF Pipeline!FifoInit
<1>2. ASSUME AsyncTypes, [Next]_vars PROVE [Pipeline!FifoNext]_(Pipeline!fifoVars)
  <2>1. ASSUME NEW j \in Job, Start(j) PROVE Pipeline!FifoNext
    <3>1. InFlight' = Append(InFlight, j) /\ Len(InFlight) < 2 * QueueSize + 2
      BY <1>2, <2>1, StartMoves, InFlightBound
    <3>2. mainBase' = mainBase
      BY <2>1 DEF Start
    <3> QED
      BY <3>1, <3>2 DEF Pipeline!FifoNext, Pipeline!FifoPush
  <2>2. CASE LoopRead
    BY <1>2, <2>2, ReadMoves DEF Pipeline!FifoNext, Pipeline!FifoRead
  <2>3. CASE Add \/ WorkerRead \/ WorkerPush
    <3>1. InFlight' = InFlight
      BY <1>2, <2>3, AddMoves, WorkerReadMoves, WorkerPushMoves
    <3>2. mainBase' = mainBase
      BY <2>3 DEF Add, Running!FifoPush, WorkerRead, WorkerPush, Complete!FifoPush, mainVars
    <3> QED
      BY <3>1, <3>2 DEF Pipeline!fifoVars
  <2>4. CASE EnterLoop \/ LoopEmpty \/ OnComplete \/ Terminate \/ Joined \/ WorkerTest
               \/ WorkerEmpty \/ WorkerCheck \/ WorkerExecute \/ UNCHANGED vars
               \/ \E j \in Job : Stop(j)
    BY <2>4, OthersMoveNothing DEF Pipeline!fifoVars
  <2> QED
    BY <1>2, <2>1, <2>2, <2>3, <2>4 DEF Next, MainLoop, Worker
<1> QED
  BY <1>1, <1>2, AsyncTypesInit, AsyncTypesStep, PTL
     DEF Spec, CompletesInOrder, Pipeline!FifoSpec

-----------------------------------------------------------------------------
\* The members of a sequence, and that it has each of them once.
Members(s) == {s[i] : i \in 1..Len(s)}
Once(s)    == \A i, k \in 1..Len(s) : s[i] = s[k] => i = k

LEMMA ConcatMembers ==
  ASSUME NEW a \in Seq(Job), NEW b \in Seq(Job)
  PROVE  /\ Members(a \o b) = Members(a) \cup Members(b)
         /\ Once(a \o b) => /\ Once(a) /\ Once(b)
                            /\ Members(a) \cap Members(b) = {}
<1>a. PICK s : s = a \o b
  OBVIOUS
<1>b. PICK m \in Nat : m = Len(a)
  OBVIOUS
<1>c. PICK n \in Nat : n = Len(b)
  OBVIOUS
<1>1. Len(s) = m + n /\ \A i \in 1..(m + n) : s[i] = IF i <= m THEN a[i] ELSE b[i - m]
  BY <1>a, <1>b, <1>c, ConcatProperties
<1>2. /\ \A i \in 1..m : i \in 1..(m + n) /\ s[i] = a[i]
      /\ \A k \in 1..n : k + m \in 1..(m + n) /\ s[k + m] = b[k]
  <2>1. ASSUME NEW k \in 1..n PROVE k + m \in 1..(m + n) /\ s[k + m] = b[k]
    <3>1. k + m \in 1..(m + n) /\ ~(k + m <= m) /\ (k + m) - m = k
      OBVIOUS
    <3> QED
      BY <1>1, <3>1
  <2> QED
    BY <1>1, <2>1
<1>3. \A i \in 1..(m + n) : (i \in 1..m /\ s[i] = a[i]) \/ (i - m \in 1..n /\ s[i] = b[i - m])
  BY <1>1
<1>4. Members(s) = Members(a) \cup Members(b)
  BY <1>1, <1>2, <1>3, <1>b, <1>c DEF Members
<1>5. ASSUME Once(s) PROVE Once(a) /\ Once(b) /\ Members(a) \cap Members(b) = {}
  <2>1. Once(a)
    BY <1>1, <1>2, <1>5, <1>b DEF Once
  <2>2. ASSUME NEW i \in 1..n, NEW k \in 1..n, b[i] = b[k] PROVE i = k
    <3>1. i + m = k + m
      BY <1>1, <1>2, <1>5, <2>2 DEF Once
    <3> QED
      BY <3>1
  <2>3. ASSUME NEW i \in 1..m, NEW k \in 1..n PROVE a[i] # b[k]
    <3>1. i # k + m
      OBVIOUS
    <3> QED
      BY <1>1, <1>2, <1>5, <3>1 DEF Once
  <2> QED
    BY <2>1, <2>2, <2>3, <1>b, <1>c DEF Once, Members
<1> QED
  BY <1>4, <1>5, <1>a

LEMMA AppendMembers ==
  ASSUME NEW a \in Seq(Job), NEW e \in Job
  PROVE  /\ Members(Append(a, e)) = Members(a) \cup {e}
         /\ Once(a) /\ e \notin Members(a) => Once(Append(a, e))
<1>a. PICK s : s = Append(a, e)
  OBVIOUS
<1>b. PICK m \in Nat : m = Len(a)
  OBVIOUS
<1>1. Len(s) = m + 1 /\ (\A i \in 1..m : s[i] = a[i]) /\ s[m + 1] = e
  BY <1>a, <1>b, AppendProperties
<1>2. \A i \in 1..(m + 1) : i \in 1..m \/ i = m + 1
  OBVIOUS
<1>3. 1..m \subseteq 1..(m + 1) /\ m + 1 \in 1..(m + 1)
  OBVIOUS
<1>4. Members(s) = Members(a) \cup {e}
  BY <1>1, <1>2, <1>3, <1>b DEF Members
<1>5. ASSUME Once(a), e \notin Members(a) PROVE Once(s)
  BY <1>1, <1>2, <1>3, <1>5, <1>b DEF Once, Members
<1> QED
  BY <1>4, <1>5, <1>a

LEMMA TailMembers ==
  ASSUME NEW a \in Seq(Job), a # <<>>
  PROVE  /\ Members(a) = {Head(a)} \cup Members(Tail(a))
         /\ Once(a) => Once(Tail(a)) /\ Head(a) \notin Members(Tail(a))
<1>a. PICK t : t = Tail(a)
  OBVIOUS
<1>b. PICK n \in Nat : n = Len(t)
  BY <1>a, HeadTailProperties
<1>1. Len(a) = n + 1 /\ Head(a) = a[1] /\ \A i \in 1..n : t[i] = a[i + 1]
  BY <1>a, <1>b, HeadTailProperties
<1>2. \A i \in 1..(n + 1) : i = 1 \/ (i - 1 \in 1..n /\ (i - 1) + 1 = i)
  OBVIOUS
<1>3. 1 \in 1..(n + 1) /\ \A i \in 1..n : i + 1 \in 1..(n + 1) /\ i + 1 # 1
  OBVIOUS
<1>4. Members(a) = {Head(a)} \cup Members(t)
  <2>1. \A i \in 1..(n + 1) : a[i] = Head(a) \/ a[i] \in Members(t)
    <3> SUFFICES ASSUME NEW i \in 1..(n + 1), i # 1 PROVE a[i] \in Members(t)
      BY <1>1
    <3>1. i - 1 \in 1..n /\ t[i - 1] = a[i]
      BY <1>1, <1>2
    <3> QED
      BY <1>b, <3>1 DEF Members
  <2>2. Head(a) \in Members(a) /\ \A i \in 1..n : t[i] \in Members(a)
    BY <1>1, <1>3 DEF Members
  <2> QED
    BY <1>1, <1>b, <2>1, <2>2 DEF Members
<1>5. ASSUME Once(a) PROVE Once(t) /\ Head(a) \notin Members(t)
  <2>1. ASSUME NEW i \in 1..n, NEW k \in 1..n, t[i] = t[k] PROVE i = k
    <3>1. i + 1 = k + 1
      BY <1>1, <1>3, <1>5, <2>1 DEF Once
    <3> QED
      BY <3>1
  <2>2. \A i \in 1..n : t[i] # Head(a)
    BY <1>1, <1>3, <1>5 DEF Once
  <2> QED
    BY <1>b, <2>1, <2>2 DEF Once, Members
<1> QED
  BY <1>4, <1>5, <1>a

LEMMA SingleMembers == Members(<<>>) = {} /\ \A e : Members(<<e>>) = {e}
BY DEF Members

\* The jobs on their way are those of the queues and of the threads, and if none is there
\* twice, it is in one of these places only.
LEMMA FlightParts ==
  ASSUME AsyncTypes
  PROVE  /\ Members(InFlight) = Members(completeQueue) \cup Members(Held)
                                  \cup Members(runningQueue) \cup Members(Added)
         /\ Once(InFlight) =>
              /\ Members(completeQueue) \cap Members(Held) = {}
              /\ Members(Held) \cap Members(runningQueue) = {}
              /\ Members(Held) \cap Members(Added) = {}
<1>1. /\ completeQueue \in Seq(Job) /\ Held \in Seq(Job)
      /\ runningQueue \in Seq(Job) /\ Added \in Seq(Job)
      /\ InFlight = ((completeQueue \o Held) \o runningQueue) \o Added
  BY InFlightIs
<1>a. PICK a : a = completeQueue \o Held
  OBVIOUS
<1>b. PICK b : b = a \o runningQueue
  OBVIOUS
<1>2. a \in Seq(Job) /\ b \in Seq(Job) /\ InFlight = b \o Added
  BY <1>1, <1>a, <1>b, ConcatProperties
<1>3. /\ Members(a) = Members(completeQueue) \cup Members(Held)
      /\ Once(a) => Members(completeQueue) \cap Members(Held) = {}
  BY <1>1, <1>a, ConcatMembers
<1>4. /\ Members(b) = Members(a) \cup Members(runningQueue)
      /\ Once(b) => Once(a) /\ Members(a) \cap Members(runningQueue) = {}
  BY <1>1, <1>2, <1>b, ConcatMembers
<1>5. /\ Members(InFlight) = Members(b) \cup Members(Added)
      /\ Once(InFlight) => Once(b) /\ Members(b) \cap Members(Added) = {}
  BY <1>1, <1>2, ConcatMembers
<1> QED
  BY <1>3, <1>4, <1>5, Zenon

-----------------------------------------------------------------------------
\* Where a job is: a job with an AsyncBase is on its way once, or its callback runs.
PlacesInv ==
  /\ AsyncTypes
  /\ Once(InFlight)
  /\ Members(InFlight) \cap InCallback = {}
  /\ {j \in Job : base[j] = "live"} = Members(InFlight) \cup InCallback

LEMMA PlacesInit == Init => PlacesInv
<1> SUFFICES ASSUME Init PROVE PlacesInv
  OBVIOUS
<1>1. AsyncTypes
  BY AsyncTypesInit
<1>2. completeQueue = <<>> /\ runningQueue = <<>> /\ Held = <<>> /\ Added = <<>>
  BY DEF Init, Running!FifoInit, Complete!FifoInit, Held, HasJob, Added
<1>3. InFlight = <<>>
  <2>1. InFlight = ((<<>> \o <<>>) \o <<>>) \o <<>>
    BY <1>2 DEF InFlight, Held, Added, HasJob
  <2>2. <<>> \o <<>> = <<>>
    OBVIOUS
  <2> QED
    BY <2>1, <2>2
<1>4. Once(InFlight) /\ Members(InFlight) = {}
  BY <1>3, SingleMembers DEF Once
<1>5. InCallback = {} /\ {j \in Job : base[j] = "live"} = {}
  BY DEF Init, InCallback
<1> QED
  BY <1>1, <1>4, <1>5 DEF PlacesInv

LEMMA PlacesStep == PlacesInv /\ [Next]_vars => PlacesInv'
<1> SUFFICES ASSUME PlacesInv, [Next]_vars PROVE PlacesInv'
  OBVIOUS
<1>1. /\ AsyncTypes /\ Once(InFlight) /\ Members(InFlight) \cap InCallback = {}
      /\ {j \in Job : base[j] = "live"} = Members(InFlight) \cup InCallback
      /\ base \in [Job -> {"none", "live", "released"}]
      /\ AsyncTypes'
      /\ InFlight \in Seq(Job)
  <2>1. InFlight \in Seq(Job)
    <3>1. /\ completeQueue \in Seq(Job) /\ Held \in Seq(Job)
          /\ runningQueue \in Seq(Job) /\ Added \in Seq(Job)
          /\ InFlight = ((completeQueue \o Held) \o runningQueue) \o Added
      BY InFlightIs DEF PlacesInv
    <3> QED
      BY <3>1, ConcatProperties
  <2> QED
    BY <2>1, AsyncTypesStep DEF PlacesInv, AsyncTypes, TypeOK
<1>2. ASSUME NEW j \in Job, Start(j) PROVE PlacesInv'
  <2>1. InFlight' = Append(InFlight, j)
    BY <1>1, <1>2, StartMoves
  <2>2. /\ base[j] = "none" /\ base' = [base EXCEPT ![j] = "live"]
        /\ InCallback' = InCallback
    BY <1>2 DEF Start, InCallback
  <2>3. j \notin Members(InFlight) \cup InCallback
    BY <1>1, <2>2
  <2>4. Members(InFlight') = Members(InFlight) \cup {j} /\ Once(InFlight')
    BY <1>1, <2>1, <2>3, AppendMembers
  <2>5. {i \in Job : base'[i] = "live"} = {i \in Job : base[i] = "live"} \cup {j}
    BY <1>1, <2>2
  <2> QED
    BY <1>1, <2>2, <2>3, <2>4, <2>5 DEF PlacesInv, Members, Once
<1>3. CASE LoopRead
  <2>1. InFlight # <<>> /\ mainBase' = Head(InFlight) /\ InFlight' = Tail(InFlight)
    BY <1>1, <1>3, ReadMoves
  <2>2. base' = base /\ InCallback = {} /\ InCallback' = {mainBase'}
    BY <1>3 DEF LoopRead, InCallback, jobVars
  <2>3. /\ Members(InFlight) = {mainBase'} \cup Members(InFlight')
        /\ Once(InFlight') /\ mainBase' \notin Members(InFlight')
    BY <1>1, <2>1, TailMembers
  <2>4. Once(InFlight)' /\ Members(InFlight)' = Members(InFlight')
    BY <2>3 DEF Members, Once
  <2>5. /\ Members(InFlight)' \cap InCallback' = {}
        /\ {j \in Job : base'[j] = "live"} = Members(InFlight)' \cup InCallback'
    <3>1. {j \in Job : base'[j] = "live"} = {j \in Job : base[j] = "live"}
      BY <2>2
    <3> QED
      BY <1>1, <2>2, <2>3, <2>4, <3>1, Zenon
  <2> QED
    BY <1>1, <2>4, <2>5 DEF PlacesInv
<1>4. CASE OnComplete
  <2>1. InFlight' = InFlight
    BY <1>4, OthersMoveNothing
  <2>2. /\ InCallback = {mainBase} /\ InCallback' = {}
        /\ base' = [base EXCEPT ![mainBase] = "released"]
    BY <1>4 DEF OnComplete, InCallback
  <2>3. {i \in Job : base'[i] = "live"} = {i \in Job : base[i] = "live"} \ {mainBase}
    BY <1>1, <2>2
  <2> QED
    BY <1>1, <2>1, <2>2, <2>3 DEF PlacesInv, Members, Once
<1>5. CASE Add \/ WorkerRead \/ WorkerPush
  <2>1. InFlight' = InFlight
    BY <1>1, <1>5, AddMoves, WorkerReadMoves, WorkerPushMoves
  <2>2. base' = base
    BY <1>5 DEF Add, WorkerRead, WorkerPush, jobVars
  <2>3. InCallback' = InCallback
    <3>1. CASE Add
      <4>1. /\ mainPc = "adding" /\ mainPc' = mainRet /\ UNCHANGED <<mainBase, mainRet>>
            /\ mainRet \in {"logic", "callback"}
        BY <1>1, <3>1 DEF Add, Running!FifoPush, AsyncTypes, TypeOK
      <4> QED
        BY <4>1 DEF InCallback
    <3>2. CASE WorkerRead \/ WorkerPush
      BY <3>2 DEF WorkerRead, WorkerPush, Complete!FifoPush, InCallback, mainVars
    <3> QED
      BY <1>5, <3>1, <3>2
  <2> QED
    BY <1>1, <2>1, <2>2, <2>3 DEF PlacesInv, Members, Once
<1>6. CASE EnterLoop \/ LoopEmpty \/ Terminate \/ Joined \/ WorkerTest
             \/ WorkerEmpty \/ WorkerCheck \/ WorkerExecute \/ UNCHANGED vars
             \/ \E j \in Job : Stop(j)
  <2>1. InFlight' = InFlight
    BY <1>6, OthersMoveNothing
  <2>2. base' = base /\ InCallback' = InCallback
    BY <1>6 DEF EnterLoop, LoopEmpty, Terminate, Joined, WorkerTest, WorkerEmpty, WorkerCheck,
                WorkerExecute, Stop, vars, jobVars, mainVars, InCallback
  <2> QED
    BY <1>1, <2>1, <2>2 DEF PlacesInv, Members, Once
<1> QED
  BY <1>2, <1>3, <1>4, <1>5, <1>6 DEF Next, MainLoop, Worker

\* An AsyncBase is deleted only when no queue and neither thread still refers to it, and
\* a job that has one is on its way (AsyncThread::loop, AsyncBase::release).
THEOREM LiveInFlight == Spec => []LiveExactlyInFlight
<1>1. PlacesInv => LiveExactlyInFlight
  BY DEF PlacesInv, LiveExactlyInFlight, Members, Once
<1> QED
  BY <1>1, PlacesInit, PlacesStep, PTL DEF Spec

-----------------------------------------------------------------------------
\* What the flags say of a job that waits for onExecute, and of one that was there.
Untouched(j) == runs[j] = 0 /\ ~executed[j] /\ ~successd[j]

Finished(j) == /\ executed[j] => runs[j] = 1
               /\ ~executed[j] => runs[j] = 0 /\ ~successd[j] /\ ~valid[j]

ToRun == Members(runningQueue) \cup Members(Added)
           \cup (IF workerPc \in {"check", "execute"} THEN {workerBase} ELSE {})

HasRun == Members(completeQueue) \cup (IF workerPc = "push" THEN {workerBase} ELSE {})
            \cup InCallback

Flags == \A j \in Job : /\ base[j] = "none" \/ j \in ToRun => Untouched(j)
                        /\ j \in HasRun => Finished(j)

FlagInv == PlacesInv /\ Flags

LEMMA FlagInit == Init => FlagInv
<1> SUFFICES ASSUME Init PROVE FlagInv
  OBVIOUS
<1>1. PlacesInv
  BY PlacesInit
<1>2. completeQueue = <<>> /\ workerPc = "test" /\ InCallback = {}
  BY DEF Init, Running!FifoInit, Complete!FifoInit, InCallback
<1>3. HasRun = {}
  BY <1>2, SingleMembers DEF HasRun
<1>4. \A j \in Job : Untouched(j)
  BY DEF Init, Untouched
<1> QED
  BY <1>1, <1>3, <1>4 DEF FlagInv, Flags

\* Steps that move jobs and leave their flags, except that stop() may clear _valid.
LEMMA FlagsFrame ==
  ASSUME Flags, UNCHANGED <<runs, executed, successd>>,
         \A j \in Job : valid'[j] => valid[j],
         \A j \in Job : base'[j] = "none" => base[j] = "none",
         \A j \in Job : j \in ToRun' => j \in ToRun \/ base[j] = "none",
         \A j \in Job : j \in HasRun' => j \in HasRun \/ (j \in ToRun /\ ~valid'[j])
  PROVE  Flags'
<1> SUFFICES ASSUME NEW j \in Job
             PROVE  /\ base'[j] = "none" \/ j \in ToRun' => Untouched(j)'
                    /\ j \in HasRun' => Finished(j)'
  BY DEF Flags
<1>1. /\ base[j] = "none" \/ j \in ToRun => Untouched(j)
      /\ j \in HasRun => Finished(j)
  BY DEF Flags
<1>2. Untouched(j) => Untouched(j)'
  BY DEF Untouched
<1>3. /\ Finished(j) => Finished(j)'
      /\ Untouched(j) /\ ~valid'[j] => Finished(j)'
  BY DEF Finished, Untouched
<1> QED
  BY <1>1, <1>2, <1>3

LEMMA FlagStep == FlagInv /\ [Next]_vars => FlagInv'
<1> SUFFICES ASSUME FlagInv, [Next]_vars PROVE Flags'
  BY PlacesStep DEF FlagInv
<1>1. /\ PlacesInv /\ PlacesInv' /\ Flags
      /\ AsyncTypes /\ AsyncTypes'
      /\ Once(InFlight) /\ Members(InFlight) \cap InCallback = {}
      /\ {j \in Job : base[j] = "live"} = Members(InFlight) \cup InCallback
  BY PlacesStep DEF FlagInv, PlacesInv
<1>2. /\ completeQueue \in Seq(Job) /\ runningQueue \in Seq(Job)
      /\ base \in [Job -> {"none", "live", "released"}]
      /\ valid \in [Job -> BOOLEAN] /\ executed \in [Job -> BOOLEAN]
      /\ successd \in [Job -> BOOLEAN] /\ runs \in [Job -> Nat]
      /\ mainRet \in {"logic", "callback"}
      /\ HasJob => workerBase \in Job
      /\ mainPc = "adding" => mainAdd \in Job
  BY <1>1 DEF AsyncTypes, TypeOK
<1>3. /\ Members(InFlight) = Members(completeQueue) \cup Members(Held)
                               \cup Members(runningQueue) \cup Members(Added)
      /\ Members(completeQueue) \cap Members(Held) = {}
      /\ Members(Held) \cap Members(runningQueue) = {}
      /\ Members(Held) \cap Members(Added) = {}
  BY <1>1, FlightParts
<1>4. ASSUME NEW j \in Job, Start(j) PROVE Flags'
  <2>1. /\ base[j] = "none" /\ base' = [base EXCEPT ![j] = "live"]
        /\ UNCHANGED <<runs, executed, successd, valid, runningQueue, completeQueue,
                       workerPc, workerBase>>
        /\ InCallback' = InCallback /\ mainPc # "adding"
        /\ mainPc' = "adding" /\ mainAdd' = j
    BY <1>4 DEF Start, history, workerVars, InCallback
  <2>2. Members(Added)' = {j}
    BY <2>1 DEF Added, Members
  <2>3. ToRun' \subseteq ToRun \cup {j}
    <3>1. Members(runningQueue)' = Members(runningQueue)
      BY <2>1 DEF Members
    <3> QED
      BY <2>1, <2>2, <3>1 DEF ToRun
  <2>4. HasRun' = HasRun
    <3>1. Members(completeQueue)' = Members(completeQueue)
      BY <2>1 DEF Members
    <3> QED
      BY <2>1, <3>1 DEF HasRun
  <2>5. \A i \in Job : base'[i] = "none" => base[i] = "none"
    BY <1>2, <2>1
  <2> QED
    BY <1>1, <2>1, <2>3, <2>4, <2>5, FlagsFrame
<1>5. ASSUME NEW j \in Job, Stop(j) PROVE Flags'
  <2>1. /\ valid' = [valid EXCEPT ![j] = FALSE]
        /\ UNCHANGED <<runs, executed, successd, base, runningQueue, completeQueue,
                       workerPc, workerBase, mainPc, mainAdd, mainRet, mainBase>>
    BY <1>5 DEF Stop, history, workerVars, mainVars
  <2>2. ToRun' = ToRun /\ HasRun' = HasRun
    BY <2>1 DEF ToRun, HasRun, Members, Added, InCallback
  <2>3. \A i \in Job : valid'[i] => valid[i]
    BY <1>2, <2>1
  <2> QED
    BY <1>1, <2>1, <2>2, <2>3, FlagsFrame
<1>6. CASE Add
  <2>1. /\ UNCHANGED <<runs, executed, successd, valid, base, completeQueue, workerPc,
                       workerBase, mainBase>>
        /\ mainPc = "adding" /\ mainPc' = mainRet /\ mainRet' = mainRet
        /\ runningQueue' = Append(runningQueue, mainAdd)
    BY <1>6 DEF Add, Running!FifoPush, history, jobVars
  <2>2. Members(Append(runningQueue, mainAdd)) = Members(runningQueue) \cup {mainAdd}
    BY <1>2, <2>1, AppendMembers
  <2>3. Members(Added) = {mainAdd} /\ Members(Added)' = {}
    BY <1>2, <2>1 DEF Added, Members
  <2>4. ToRun' = ToRun
    <3>1. Members(runningQueue)' = Members(runningQueue) \cup {mainAdd}
      BY <2>1, <2>2 DEF Members
    <3> QED
      BY <2>1, <2>3, <3>1 DEF ToRun
  <2>5. HasRun' = HasRun
    <3>1. InCallback' = InCallback
      BY <1>2, <2>1 DEF InCallback
    <3> QED
      BY <2>1, <3>1 DEF HasRun, Members
  <2> QED
    BY <1>1, <2>1, <2>4, <2>5, FlagsFrame
<1>7. CASE LoopRead
  <2>1. /\ UNCHANGED <<runs, executed, successd, valid, base, runningQueue, workerPc,
                       workerBase, mainAdd, mainRet>>
        /\ mainPc = "loop" /\ mainPc' = "callback"
        /\ completeQueue # <<>> /\ completeQueue' = Tail(completeQueue)
        /\ mainBase' = Head(completeQueue)
    BY <1>7 DEF LoopRead, Complete!FifoRead, history, jobVars, workerVars
  <2>2. Members(completeQueue) = {Head(completeQueue)} \cup Members(Tail(completeQueue))
    BY <1>2, <2>1, TailMembers
  <2>3. ToRun' = ToRun
    BY <2>1 DEF ToRun, Members, Added
  <2>4. HasRun' = HasRun
    <3>1. Members(completeQueue)' = Members(Tail(completeQueue))
      BY <2>1 DEF Members
    <3>2. InCallback = {} /\ InCallback' = {Head(completeQueue)}
      BY <2>1 DEF InCallback
    <3> QED
      BY <2>1, <2>2, <3>1, <3>2 DEF HasRun
  <2> QED
    BY <1>1, <2>1, <2>3, <2>4, FlagsFrame
<1>8. CASE OnComplete
  <2>1. /\ UNCHANGED <<runs, runningQueue, completeQueue, workerPc, workerBase, mainAdd,
                       mainRet, mainBase>>
        /\ mainPc = "callback" /\ mainPc' \in {"loop", "logic"}
        /\ base' = [base EXCEPT ![mainBase] = "released"]
        /\ valid' = [valid EXCEPT ![mainBase] = TRUE]
        /\ executed' = [executed EXCEPT ![mainBase] = FALSE]
        /\ successd' = [successd EXCEPT ![mainBase] = FALSE]
    BY <1>8 DEF OnComplete, workerVars
  <2>2. InCallback = {mainBase} /\ InCallback' = {}
    BY <2>1 DEF InCallback
  <2>3. mainBase \notin Members(InFlight)
    BY <1>1, <2>2
  <2>4. ToRun' = ToRun /\ HasRun' \subseteq HasRun
    BY <2>1, <2>2 DEF ToRun, HasRun, Members, Added
  <2>5. mainBase \notin ToRun' /\ mainBase \notin HasRun'
    <3>1. /\ HasRun' = Members(completeQueue)
                         \cup (IF workerPc = "push" THEN {workerBase} ELSE {})
          /\ ToRun' = Members(runningQueue) \cup Members(Added)
                         \cup (IF workerPc \in {"check", "execute"} THEN {workerBase} ELSE {})
      BY <2>1, <2>2, <2>4 DEF HasRun, ToRun, Members
    <3>2. HasJob => Members(Held) = {workerBase}
      BY DEF Held, Members
    <3>3. workerPc \in {"check", "execute", "push"} => mainBase # workerBase
      BY <1>3, <2>3, <3>2 DEF HasJob
    <3> QED
      BY <1>3, <2>3, <3>1, <3>3
  <2>6. ASSUME NEW j \in Job
        PROVE  /\ base'[j] = "none" \/ j \in ToRun' => Untouched(j)'
               /\ j \in HasRun' => Finished(j)'
    <3>1. CASE j = mainBase
      <4>1. base'[j] = "released"
        BY <1>2, <2>1, <3>1
      <4> QED
        BY <2>5, <3>1, <4>1
    <3>2. CASE j # mainBase
      <4>1. /\ base'[j] = base[j] /\ valid'[j] = valid[j] /\ executed'[j] = executed[j]
            /\ successd'[j] = successd[j] /\ runs'[j] = runs[j]
        BY <1>2, <2>1, <3>2
      <4>2. (Untouched(j) => Untouched(j)') /\ (Finished(j) => Finished(j)')
        BY <4>1 DEF Untouched, Finished
      <4> QED
        BY <1>1, <2>4, <4>1, <4>2 DEF Flags
    <3> QED
      BY <3>1, <3>2
  <2> QED
    BY <2>6 DEF Flags
<1>9. CASE WorkerRead
  <2>1. /\ UNCHANGED <<runs, executed, successd, valid, base, completeQueue, mainPc,
                       mainAdd, mainRet, mainBase>>
        /\ workerPc = "read" /\ workerPc' = "check"
        /\ runningQueue # <<>> /\ runningQueue' = Tail(runningQueue)
        /\ workerBase' = Head(runningQueue)
    BY <1>9 DEF WorkerRead, Running!FifoRead, history, jobVars, mainVars
  <2>2. Members(runningQueue) = {Head(runningQueue)} \cup Members(Tail(runningQueue))
    BY <1>2, <2>1, TailMembers
  <2>3. ToRun' = ToRun
    <3>1. /\ Members(runningQueue)' = Members(Tail(runningQueue))
          /\ Members(Added)' = Members(Added)
      BY <2>1 DEF Members, Added
    <3> QED
      BY <2>1, <2>2, <3>1 DEF ToRun
  <2>4. HasRun' = HasRun
    BY <2>1 DEF HasRun, Members, InCallback
  <2> QED
    BY <1>1, <2>1, <2>3, <2>4, FlagsFrame
<1>10. CASE WorkerCheck
  <2>1. /\ UNCHANGED <<runs, executed, successd, valid, base, completeQueue, runningQueue,
                       mainPc, mainAdd, mainRet, mainBase, workerBase>>
        /\ workerPc = "check" /\ workerPc' = IF valid[workerBase] THEN "execute" ELSE "push"
    BY <1>10 DEF WorkerCheck, history, jobVars, mainVars
  <2>2. /\ Members(completeQueue)' = Members(completeQueue)
        /\ Members(runningQueue)' = Members(runningQueue)
        /\ Members(Added)' = Members(Added) /\ InCallback' = InCallback
    BY <2>1 DEF Members, Added, InCallback
  <2>3. ToRun' \subseteq ToRun
    BY <2>1, <2>2 DEF ToRun
  <2>4. \A j \in HasRun' : j \in HasRun \/ (j \in ToRun /\ ~valid[j])
    BY <2>1, <2>2 DEF ToRun, HasRun
  <2> QED
    BY <1>1, <2>1, <2>3, <2>4, FlagsFrame
<1>11. CASE WorkerExecute
  <2>1. /\ UNCHANGED <<valid, base, completeQueue, runningQueue, mainPc, mainAdd, mainRet,
                       mainBase, workerBase>>
        /\ workerPc = "execute" /\ workerPc' = "push"
        /\ executed' = [executed EXCEPT ![workerBase] = TRUE]
        /\ runs' = [runs EXCEPT ![workerBase] = @ + 1]
    BY <1>11 DEF WorkerExecute, mainVars
  <2>2. PICK ok \in BOOLEAN : successd' = [successd EXCEPT ![workerBase] = ok]
    BY <1>11 DEF WorkerExecute
  <2>3. workerBase \in Job /\ Members(Held) = {workerBase}
    BY <1>2, <2>1 DEF HasJob, Held, Members
  <2>4. /\ Members(completeQueue)' = Members(completeQueue)
        /\ Members(runningQueue)' = Members(runningQueue)
        /\ Members(Added)' = Members(Added) /\ InCallback' = InCallback
    BY <2>1 DEF Members, Added, InCallback
  <2>5. /\ workerBase \notin Members(completeQueue) /\ workerBase \notin Members(runningQueue)
        /\ workerBase \notin Members(Added)
        /\ workerBase \in Members(InFlight)
    BY <1>3, <2>3
  <2>6. ToRun' = ToRun \ {workerBase} /\ HasRun' = HasRun \cup {workerBase}
    BY <2>1, <2>4, <2>5 DEF ToRun, HasRun
  <2>7. workerBase \in ToRun /\ base[workerBase] # "none"
    <3>1. base[workerBase] = "live"
      BY <1>1, <2>3, <2>5
    <3> QED
      BY <2>1, <3>1 DEF ToRun
  <2>8. Finished(workerBase)'
    <3>1. runs[workerBase] = 0
      BY <1>1, <2>3, <2>7 DEF Flags, Untouched
    <3>2. runs'[workerBase] = 1 /\ executed'[workerBase]
      BY <1>2, <2>1, <2>3, <3>1
    <3> QED
      BY <2>1, <3>2 DEF Finished
  <2>9. ASSUME NEW j \in Job
        PROVE  /\ base'[j] = "none" \/ j \in ToRun' => Untouched(j)'
               /\ j \in HasRun' => Finished(j)'
    <3>1. CASE j = workerBase
      BY <2>1, <2>6, <2>7, <2>8, <3>1 DEF Finished
    <3>2. CASE j # workerBase
      <4>1. /\ executed'[j] = executed[j] /\ successd'[j] = successd[j] /\ runs'[j] = runs[j]
        BY <1>2, <2>1, <2>2, <3>2
      <4>2. (Untouched(j) => Untouched(j)') /\ (Finished(j) => Finished(j)')
        BY <2>1, <4>1 DEF Untouched, Finished
      <4> QED
        BY <1>1, <2>1, <2>6, <3>2, <4>2 DEF Flags
    <3> QED
      BY <3>1, <3>2
  <2> QED
    BY <2>9 DEF Flags
<1>12. CASE WorkerPush
  <2>1. /\ UNCHANGED <<runs, executed, successd, valid, base, runningQueue, mainPc,
                       mainAdd, mainRet, mainBase, workerBase>>
        /\ workerPc = "push" /\ workerPc' = "test"
        /\ completeQueue' = Append(completeQueue, workerBase)
    BY <1>12 DEF WorkerPush, Complete!FifoPush, history, jobVars
  <2>2. Members(Append(completeQueue, workerBase)) = Members(completeQueue) \cup {workerBase}
    BY <1>2, <2>1, AppendMembers DEF HasJob
  <2>3. ToRun' = ToRun
    BY <2>1 DEF ToRun, Members, Added
  <2>4. HasRun' = HasRun
    <3>1. /\ Members(completeQueue)' = Members(completeQueue) \cup {workerBase}
          /\ InCallback' = InCallback
      BY <2>1, <2>2 DEF Members, InCallback
    <3> QED
      BY <2>1, <3>1 DEF HasRun
  <2> QED
    BY <1>1, <2>1, <2>3, <2>4, FlagsFrame
<1>13. CASE EnterLoop \/ LoopEmpty \/ Terminate \/ Joined \/ WorkerTest \/ WorkerEmpty
              \/ UNCHANGED vars
  <2>1. /\ UNCHANGED <<runs, executed, successd, valid, base, runningQueue, completeQueue,
                       mainAdd, mainRet, mainBase, workerBase>>
        /\ (workerPc' = workerPc \/ {workerPc, workerPc'} \subseteq {"test", "read", "exited"})
        /\ (mainPc' = mainPc
              \/ {mainPc, mainPc'} \subseteq {"logic", "loop", "joining", "destroyed"})
    BY <1>13 DEF EnterLoop, LoopEmpty, Terminate, Joined, WorkerTest, WorkerEmpty, vars,
                 jobVars, mainVars, workerVars, history
  <2>2. Added' = Added /\ InCallback' = InCallback
    BY <2>1 DEF Added, InCallback
  <2>3. ToRun' = ToRun /\ HasRun' = HasRun
    BY <2>1, <2>2 DEF ToRun, HasRun, Members
  <2> QED
    BY <1>1, <2>1, <2>3, FlagsFrame
<1> QED
  BY <1>4, <1>5, <1>6, <1>7, <1>8, <1>9, <1>10, <1>11, <1>12, <1>13
  DEF Next, MainLoop, Worker

\* onFailed(nonviolent = false) tells the truth: who is told that he was cancelled was
\* stopped and never ran, and everybody else ran once (AsyncBase::onComplete).
THEOREM OutcomeTrue == Spec => OutcomeTellsTheTruth
<1> DEFINE Truth == \A j \in Job : outcome'[j] # outcome[j] =>
                      /\ outcome'[j] = "cancelled" <=> runs[j] = 0
                      /\ outcome'[j] = "cancelled" => ~valid[j]
                      /\ runs[j] <= 1
<1>1. ASSUME FlagInv, Next PROVE Truth \/ UNCHANGED vars
  <2>1. CASE OnComplete
    <3>1. /\ outcome \in [Job -> {"none", "success", "failed", "cancelled"}]
          /\ mainPc = "callback"
      BY <1>1, <2>1 DEF FlagInv, PlacesInv, AsyncTypes, TypeOK, OnComplete
    <3>2. mainBase \in HasRun /\ mainBase \in Job
      BY <1>1, <3>1 DEF FlagInv, PlacesInv, AsyncTypes, HasRun, InCallback
    <3>3. Finished(mainBase)
      BY <1>1, <3>2 DEF FlagInv, Flags
    <3>4. outcome' = [outcome EXCEPT ![mainBase] =
                        IF successd[mainBase] THEN "success"
                        ELSE IF executed[mainBase] THEN "failed" ELSE "cancelled"]
      BY <2>1 DEF OnComplete
    <3>5. \A j \in Job : outcome'[j] # outcome[j] => j = mainBase
      BY <3>1, <3>4
    <3>6. outcome'[mainBase] = IF successd[mainBase] THEN "success"
                               ELSE IF executed[mainBase] THEN "failed" ELSE "cancelled"
      BY <3>1, <3>2, <3>4
    <3>7. /\ outcome'[mainBase] = "cancelled" <=> runs[mainBase] = 0
          /\ outcome'[mainBase] = "cancelled" => ~valid[mainBase]
          /\ runs[mainBase] <= 1
      BY <3>3, <3>6 DEF Finished
    <3> QED
      BY <3>5, <3>7
  <2>2. CASE ~OnComplete
    <3>1. outcome' = outcome
      BY <1>1, <2>2 DEF Next, MainLoop, Worker, Start, Stop, Add, EnterLoop, LoopRead, LoopEmpty,
                        Joined, Terminate, WorkerTest, WorkerRead, WorkerEmpty, WorkerCheck,
                        WorkerExecute, WorkerPush, history
    <3> QED
      BY <3>1
  <2> QED
    BY <2>1, <2>2
<1>2. FlagInv /\ [Next]_vars => [Truth]_vars
  BY <1>1
<1> QED
  BY <1>2, FlagInit, FlagStep, PTL DEF Spec, OutcomeTellsTheTruth
=============================================================================
