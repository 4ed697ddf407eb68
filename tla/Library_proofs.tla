---------------------------- MODULE Library_proofs ----------------------------
(***************************************************************************)
(* Proofs about the two components of src/src/sllib that the models treat  *)
(* by themselves.                                                          *)
(*                                                                         *)
(* ThreadPool, for pools of any size and any number of tasks: its types,   *)
(* that no signal of addTask is lost, and that a task is in one place at a *)
(* time.                                                                   *)
(*                                                                         *)
(* TimerWheel, for any number of gears of any size and any timers: its     *)
(* types, that a timer is in one list or in one's hands, that it fires as  *)
(* often as was asked, and that the wheel implements TimerQueue, the list  *)
(* of timers with their deadlines.                                         *)
(***************************************************************************)
EXTENDS ThreadPool, TimerWheel, FiniteSetTheorems, WellFoundedInduction, TLAPS

-----------------------------------------------------------------------------
\* The thread pool.

\* A worker beyond the test refers to a task, and to a second one while it changes to the
\* next.
HasTask ==
  \A t \in Thread : /\ pc[t] \in {"work", "next", "set", "finish", "clear"} => cur[t] # NoTask
                    /\ pc[t] \in {"next", "set"} => popped[t] # NoTask

\* The inductive invariant.
PoolInv == TypeOK /\ HasTask /\ NoLostSignal

-----------------------------------------------------------------------------
LEMMA Threads ==
  /\ NoThread \notin Thread
  /\ 1..DefaultCount \subseteq Thread
  /\ \A S \in SUBSET Thread : Cardinality(S) \in Nat
<1>1. 1..DefaultCount \subseteq Thread /\ NoThread \notin Thread
  BY PoolAssumption DEF Thread, NoThread
<1>2. IsFiniteSet(Thread)
  <2>1. \E a, b \in Int : Thread = a..b
    BY PoolAssumption DEF Thread
  <2> QED
    BY <2>1, FS_Interval
<1>3. ASSUME NEW S \in SUBSET Thread PROVE Cardinality(S) \in Nat
  BY <1>2, FS_Subset, FS_CardinalityType
<1> QED
  BY <1>1, <1>3

\* Sequences without one of their elements.
LEMMA Without ==
  ASSUME NEW S, NEW q \in Seq(S), NEW i \in DOMAIN q
  PROVE  RemoveAt(q, i) \in Seq(S)
<1>1. SubSeq(q, 1, i - 1) \in Seq(S)
  OBVIOUS
<1>2. SubSeq(q, i + 1, Len(q)) \in Seq(S)
  OBVIOUS
<1> QED
  BY <1>1, <1>2 DEF RemoveAt

LEMMA HeadTail ==
  ASSUME NEW S, NEW q \in Seq(S), q # <<>>
  PROVE  Head(q) \in S /\ Tail(q) \in Seq(S)
OBVIOUS

LEMMA Appended ==
  ASSUME NEW S, NEW q \in Seq(S), NEW x \in S
  PROVE  Append(q, x) \in Seq(S)
OBVIOUS

\* addTask keeps the types, and it is to signal the thread that got the task.
LEMMA AddTaskKeeps ==
  ASSUME PoolInv, NEW k \in Task, AddTask(k), signalling = NoThread
  PROVE  /\ all' \subseteq Thread /\ busy' \subseteq Thread /\ timed' \subseteq Thread
         /\ event' \subseteq Thread /\ free' \in Seq(Thread)
         /\ pc' \in [Thread -> {"none", "look", "wait", "reset", "hang", "test", "work",
                                "next", "set", "finish", "clear", "rest"}]
         /\ cur' \in [Thread -> Task \union {NoTask}] /\ popped' = popped
         /\ buffered' \in Seq(Task) /\ signalling' \in Thread \union {NoThread}
         /\ HasTask' /\ NoLostSignal'
<1> USE PoolAssumption DEF PoolInv, TypeOK
<1>1. CASE GiveTask(k)
  <2>1. Head(free) \in Thread /\ Tail(free) \in Seq(Thread)
    BY <1>1, HeadTail DEF GiveTask
  <2>2. cur' \in [Thread -> Task \union {NoTask}]
    BY <1>1, <2>1 DEF GiveTask
  <2>3. NoLostSignal'
    <3>1. \A t \in Thread : t # signalling
      BY Threads
    <3>2. \A t \in Thread : t # Head(free) => cur'[t] = cur[t]
      BY <1>1 DEF GiveTask
    <3> QED
      BY <1>1, <3>1, <3>2 DEF GiveTask, NoLostSignal
  <2>4. HasTask'
    BY <1>1, <2>1 DEF GiveTask, HasTask
  <2> QED
    BY <1>1, <2>1, <2>2, <2>3, <2>4 DEF GiveTask
<1>2. CASE BufferTask(k) /\ UNCHANGED <<all, free, timed, pc>>
  <2>1. buffered' \in Seq(Task)
    BY <1>2, Appended DEF BufferTask
  <2> QED
    BY <1>2, <2>1 DEF BufferTask, NoLostSignal, HasTask
<1>3. CASE BufferTask(k) /\ CreateThreads
  <2>1. buffered' \in Seq(Task)
    BY <1>3, Appended DEF BufferTask
  <2>2. PICK new \in [1..NewCount -> Thread \ all] :
           /\ all' = all \union Range(new)
           /\ free' = free \o new
           /\ timed' = timed \union Range(new)
           /\ pc' = [t \in Thread |-> IF t \in Range(new) THEN "look" ELSE pc[t]]
    BY <1>3 DEF CreateThreads
  <2>3. Range(new) \subseteq Thread
    BY DEF Range
  <2>4. new \in Seq(Thread)
    BY PoolAssumption
  <2>5. free' \in Seq(Thread)
    BY <2>2, <2>4
  <2>6. pc' \in [Thread -> {"none", "look", "wait", "reset", "hang", "test", "work",
                            "next", "set", "finish", "clear", "rest"}]
    BY <2>2
  <2>7. NoLostSignal'
    BY <1>3, <2>2 DEF BufferTask, NoLostSignal
  <2>8. HasTask'
    BY <1>3, <2>2 DEF BufferTask, HasTask
  <2> QED
    BY <1>3, <2>1, <2>2, <2>3, <2>5, <2>6, <2>7, <2>8 DEF BufferTask
<1> QED
  BY <1>1, <1>2, <1>3 DEF AddTask, BufferTask

-----------------------------------------------------------------------------
LEMMA InvInit == Init => PoolInv
<1> SUFFICES ASSUME Init PROVE PoolInv
  OBVIOUS
<1>1. free \in Seq(Thread)
  BY Threads, PoolAssumption DEF Init
<1>2. buffered \in Seq(Task) /\ fini \in Seq(Task) /\ batch \in Seq(Task)
  BY DEF Init
<1>3. all \subseteq Thread /\ busy \subseteq Thread /\ timed \subseteq Thread /\ event \subseteq Thread
  BY Threads DEF Init
<1>4. /\ pc \in [Thread -> {"none", "look", "wait", "reset", "hang", "test", "work",
                            "next", "set", "finish", "clear", "rest"}]
      /\ cur \in [Thread -> Task \union {NoTask}] /\ popped \in [Thread -> Task \union {NoTask}]
  BY DEF Init
<1>5. /\ signalling \in Thread \union {NoThread} /\ unused \subseteq Task
      /\ destroying \in Int /\ crashed \in BOOLEAN
  <2>1. -1 \in Int
    OBVIOUS
  <2> QED
    BY <2>1 DEF Init
<1>6. NoLostSignal /\ HasTask
  BY DEF Init, NoLostSignal, HasTask
<1> QED
  BY <1>1, <1>2, <1>3, <1>4, <1>5, <1>6 DEF PoolInv, TypeOK

\* The steps of the main thread.
LEMMA MainStep == ASSUME PoolInv, Main PROVE PoolInv'
<1> USE DEF PoolInv
<1>1. CASE SendCondSignal
  BY <1>1 DEF SendCondSignal, TypeOK, NoLostSignal, HasTask, lists
<1>2. CASE Tick
  <2>1. fini' \in Seq(Task) /\ batch' \in Seq(Task)
    BY <1>2 DEF Tick, TypeOK
  <2> QED
    BY <1>2, <2>1 DEF Tick, TypeOK, NoLostSignal, HasTask, lists, workers
<1>3. CASE Present
  <2>1. Head(batch) \in Task /\ Tail(batch) \in Seq(Task)
    BY <1>3, HeadTail DEF Present, TypeOK
  <2>2. CASE /\ unused' = unused \union {Head(batch)}
             /\ UNCHANGED <<lists, workers, buffered, fini, signalling>>
    BY <1>3, <2>1, <2>2 DEF Present, TypeOK, NoLostSignal, HasTask, lists, workers
  <2>3. CASE /\ fini' = Append(fini, Head(batch))
             /\ UNCHANGED <<lists, workers, buffered, signalling, unused>>
    <3>1. fini' \in Seq(Task)
      BY <2>1, <2>3, Appended DEF TypeOK
    <3> QED
      BY <1>3, <2>1, <2>3, <3>1 DEF Present, TypeOK, NoLostSignal, HasTask, lists, workers
  <2>4. CASE AddTask(Head(batch)) /\ UNCHANGED <<fini, unused>>
    BY <1>3, <2>1, <2>4, AddTaskKeeps DEF Present, TypeOK
  <2> QED
    BY <1>3, <2>2, <2>3, <2>4 DEF Present
<1>4. CASE Destroy
  <2>1. destroying' \in Int
    BY <1>4, Threads DEF Destroy, TypeOK
  <2> QED
    BY <1>4, <2>1 DEF Destroy, TypeOK, NoLostSignal, HasTask, lists, workers
<1>5. CASE WakeAll
  BY <1>5 DEF WakeAll, TypeOK, NoLostSignal, HasTask, lists, main
<1>6. ASSUME NEW k \in Task, Submit(k) PROVE PoolInv'
  BY <1>6, AddTaskKeeps DEF Submit, TypeOK
<1> QED
  BY <1>1, <1>2, <1>3, <1>4, <1>5, <1>6 DEF Main

\* The steps of a worker.
LEMMA WorkerStep == ASSUME PoolInv, NEW t \in Thread, Worker(t) \/ TimeOut(t) PROVE PoolInv'
<1> USE DEF PoolInv
<1>1. CASE Look(t)
  BY <1>1 DEF Look, TypeOK, NoLostSignal, HasTask, lists, main
<1>2. CASE Wake(t)
  BY <1>2 DEF Wake, TypeOK, NoLostSignal, HasTask, lists, main
<1>3. CASE Reset(t)
  BY <1>3 DEF Reset, TypeOK, NoLostSignal, HasTask, lists, main
<1>4. CASE TimeOut(t)
  BY <1>4 DEF TimeOut, TypeOK, NoLostSignal, HasTask, lists, main
<1>5. CASE RemoveHangThread(t)
  <2>1. free' \in Seq(Thread)
    BY <1>5, Without DEF RemoveHangThread, TypeOK
  <2> QED
    BY <1>5, <2>1 DEF RemoveHangThread, TypeOK, NoLostSignal, HasTask, main
<1>6. CASE Test(t)
  <2>1. crashed' \in BOOLEAN
    BY <1>6 DEF Test, isDestroyed
  <2> QED
    BY <1>6, <2>1 DEF Test, TypeOK, NoLostSignal, HasTask, lists, main
<1>8. CASE PopBufferTask(t)
  <2>1. buffered # <<>> => Head(buffered) \in Task /\ Tail(buffered) \in Seq(Task)
    BY HeadTail DEF TypeOK
  <2>2. /\ buffered' \in Seq(Task) /\ popped' \in [Thread -> Task \union {NoTask}]
        /\ pc'[t] = "next" => popped'[t] # NoTask
    BY <1>8, <2>1, PoolAssumption DEF PopBufferTask, TypeOK
  <2> QED
    BY <1>8, <2>2 DEF PopBufferTask, TypeOK, NoLostSignal, HasTask, lists, main
<1>9. CASE NextTask(t) \/ FinishTask(t)
  <2>1. cur[t] \in Task
    BY <1>9 DEF NextTask, FinishTask, TypeOK, HasTask
  <2>2. fini' \in Seq(Task)
    <3>1. fini' = Append(fini, cur[t]) /\ fini \in Seq(Task)
      BY <1>9 DEF NextTask, FinishTask, TypeOK
    <3> QED
      BY <2>1, <3>1, Appended
  <2>3. /\ UNCHANGED <<lists, event, cur, popped, buffered, main, crashed>>
        /\ \/ pc[t] = "next" /\ pc' = [pc EXCEPT ![t] = "set"]
           \/ pc[t] = "finish" /\ pc' = [pc EXCEPT ![t] = "clear"]
    BY <1>9 DEF NextTask, FinishTask
  <2>4. TypeOK'
    BY <2>2, <2>3 DEF TypeOK, lists, main
  <2>5. NoLostSignal' /\ HasTask'
    BY <2>3 DEF NoLostSignal, HasTask, TypeOK, main
  <2> QED
    BY <2>4, <2>5
<1>7. CASE SetTask(t)
  <2>1. popped[t] \in Task
    BY <1>7 DEF SetTask, TypeOK, HasTask
  <2> QED
    BY <1>7, <2>1 DEF SetTask, TypeOK, NoLostSignal, HasTask, lists, main
<1>10. CASE ClearTask(t)
  BY <1>10 DEF ClearTask, TypeOK, NoLostSignal, HasTask, lists, main
<1>11. CASE AddFreeThread(t)
  <2>1. free' \in Seq(Thread)
    BY <1>11, Appended DEF AddFreeThread, TypeOK
  <2> QED
    BY <1>11, <2>1 DEF AddFreeThread, TypeOK, NoLostSignal, HasTask, main
<1> QED
  BY <1>1, <1>2, <1>3, <1>4, <1>5, <1>6, <1>7, <1>8, <1>9, <1>10, <1>11 DEF Worker

LEMMA InvStep == PoolInv /\ [Next]_vars => PoolInv'
<1> SUFFICES ASSUME PoolInv, [Next]_vars PROVE PoolInv'
  OBVIOUS
<1>1. CASE UNCHANGED vars
  BY <1>1 DEF vars, lists, workers, main, PoolInv, TypeOK, HasTask, NoLostSignal
<1> QED
  BY <1>1, MainStep, WorkerStep DEF Next

\* The strengthened invariant holds throughout.
THEOREM InductiveInvariant == Spec => []PoolInv
BY InvInit, InvStep, PTL DEF Spec

\* Every variable of the pool keeps its type; in particular only tasks get into the list of
\* finished ones, never NULL (SLThreadPool, TPThread).
THEOREM PoolTypeCorrect == Spec => []TypeOK
<1>1. PoolInv => TypeOK
  BY DEF PoolInv
<1> QED
  BY <1>1, InductiveInvariant, PTL

\* A worker that waits with a task has its signal or is about to get it, however addTask,
\* the wait and the reset of the event interleave (SLThreadPool::addTask,
\* TPThread::onWaitCondSignal).
THEOREM SignalsAreNotLost == Spec => []NoLostSignal
<1>1. PoolInv => NoLostSignal
  BY DEF PoolInv
<1> QED
  BY <1>1, InductiveInvariant, PTL

-----------------------------------------------------------------------------
(* A task is in one place. *)

\* A free thread has no task and is free once; a thread holds a second task only while it
\* changes to it; what is not in the pool holds none.
FreeIdle ==
  /\ \A i, j \in DOMAIN free : free[i] = free[j] => i = j
  /\ \A i \in DOMAIN free : /\ free[i] \in all \ busy /\ cur[free[i]] = NoTask
                            /\ pc[free[i]] # "rest"
  /\ busy \subseteq all
  /\ \A t \in Thread : /\ t \notin all => cur[t] = NoTask
                       /\ pc[t] = "rest" => cur[t] = NoTask
                       /\ pc[t] \notin {"next", "set"} => popped[t] = NoTask

\* The elements of sequences that lose or get one.
LEMMA TailItems ==
  ASSUME NEW S, NEW q \in Seq(S), q # <<>>
  PROVE  /\ Tail(q) \in Seq(S) /\ 1 \in DOMAIN q /\ Head(q) = q[1]
         /\ \A i \in DOMAIN Tail(q) : i + 1 \in DOMAIN q /\ i + 1 # 1 /\ Tail(q)[i] = q[i + 1]
         /\ \A i \in DOMAIN q : i # 1 => i - 1 \in DOMAIN Tail(q) /\ Tail(q)[i - 1] = q[i]
OBVIOUS

LEMMA AppendItems ==
  ASSUME NEW S, NEW q \in Seq(S), NEW x \in S
  PROVE  /\ Append(q, x) \in Seq(S)
         /\ DOMAIN Append(q, x) = DOMAIN q \union {Len(q) + 1} /\ Len(q) + 1 \notin DOMAIN q
         /\ Append(q, x)[Len(q) + 1] = x
         /\ \A i \in DOMAIN q : Append(q, x)[i] = q[i]
OBVIOUS

LEMMA RemovedItems ==
  ASSUME NEW S, NEW q \in Seq(S), NEW n \in DOMAIN q
  PROVE  /\ RemoveAt(q, n) \in Seq(S)
         /\ \A i \in DOMAIN RemoveAt(q, n) :
               LET o == IF i < n THEN i ELSE i + 1
               IN  o \in DOMAIN q /\ o # n /\ RemoveAt(q, n)[i] = q[o]
<1> DEFINE a == SubSeq(q, 1, n - 1)
           b == SubSeq(q, n + 1, Len(q))
<1>1. /\ a \in Seq(S) /\ Len(a) = n - 1
      /\ \A i \in 1..(n - 1) : a[i] = q[i]
  OBVIOUS
<1>2. /\ b \in Seq(S) /\ Len(b) = Len(q) - n
      /\ \A i \in 1..(Len(q) - n) : b[i] = q[n + i]
  OBVIOUS
<1>3. RemoveAt(q, n) = a \o b
  BY DEF RemoveAt
<1> HIDE DEF a, b
<1>4. a \o b \in Seq(S)
  BY <1>1, <1>2
<1>5. ASSUME NEW i \in DOMAIN (a \o b)
      PROVE  LET o == IF i < n THEN i ELSE i + 1
             IN  o \in DOMAIN q /\ o # n /\ (a \o b)[i] = q[o]
  <2>1. n \in 1..Len(q) /\ Len(q) \in Nat
    OBVIOUS
  <2>2. i \in 1..(Len(q) - 1)
    BY <1>1, <1>2, <1>5, <2>1
  <2>3. CASE i < n
    BY <1>1, <1>2, <2>1, <2>2, <2>3
  <2>4. CASE i >= n
    <3>1. (a \o b)[i] = b[i - (n - 1)]
      BY <1>1, <1>2, <2>1, <2>2, <2>4
    <3>2. i - (n - 1) \in 1..(Len(q) - n) /\ n + (i - (n - 1)) = i + 1
      BY <2>1, <2>2, <2>4
    <3>3. b[i - (n - 1)] = q[i + 1]
      BY <1>2, <3>2
    <3>4. i + 1 \in DOMAIN q /\ i + 1 # n /\ ~(i < n)
      BY <2>1, <2>2, <2>4
    <3> QED
      BY <3>1, <3>3, <3>4
  <2> QED
    BY <2>1, <2>2, <2>3, <2>4
<1> QED
  BY <1>3, <1>4, <1>5

LEMMA IdleInit == Init => FreeIdle
BY Threads DEF Init, FreeIdle

\* addTask takes the first free thread, or makes new ones of threads that are not there.
LEMMA IdleAddTask ==
  ASSUME PoolInv, FreeIdle, NEW k \in Task, AddTask(k)
  PROVE  FreeIdle'
<1> USE DEF PoolInv, TypeOK, FreeIdle
<1>1. CASE GiveTask(k)
  <2>1. /\ Tail(free) \in Seq(Thread) /\ 1 \in DOMAIN free /\ Head(free) = free[1]
        /\ \A i \in DOMAIN Tail(free) : i + 1 \in DOMAIN free /\ i + 1 # 1
                                        /\ Tail(free)[i] = free[i + 1]
    BY <1>1, TailItems DEF GiveTask
  <2>2. DOMAIN Tail(free) \subseteq Int
    BY <2>1
  <2> DEFINE h == Head(free)
  <2>3. /\ h \in Thread /\ h \in all /\ pc[h] # "rest"
        /\ \A i \in DOMAIN Tail(free) : Tail(free)[i] # h
    BY <2>1
  <2>4. /\ free' = Tail(free) /\ busy' = busy \union {h} /\ cur' = [cur EXCEPT ![h] = k]
        /\ UNCHANGED <<all, timed, event, pc, popped, buffered>>
    BY <1>1 DEF GiveTask
  <2> HIDE DEF h
  <2>5. \A i, j \in DOMAIN free' : free'[i] = free'[j] => i = j
    BY <2>1, <2>2, <2>4
  <2>6. ASSUME NEW i \in DOMAIN free'
        PROVE  free'[i] \in all' \ busy' /\ cur'[free'[i]] = NoTask /\ pc'[free'[i]] # "rest"
    BY <2>1, <2>3, <2>4
  <2> QED
    BY <2>3, <2>4, <2>5, <2>6
<1>2. CASE BufferTask(k) /\ UNCHANGED <<all, free, timed, pc>>
  BY <1>2 DEF BufferTask
<1>3. CASE BufferTask(k) /\ CreateThreads
  <2>1. PICK new \in [1..NewCount -> Thread \ all] :
           /\ \A i, j \in 1..NewCount : i < j => new[i] < new[j]
           /\ all' = all \union Range(new)
           /\ free' = free \o new
           /\ pc' = [t \in Thread |-> IF t \in Range(new) THEN "look" ELSE pc[t]]
    BY <1>3 DEF CreateThreads
  <2>2. free = <<>> /\ UNCHANGED <<busy, event, cur, popped, signalling>>
    BY <1>3 DEF BufferTask
  <2>3. new \in Seq(Thread) /\ Len(new) = NewCount
    BY PoolAssumption
  <2>4. free' = new
    BY <2>1, <2>2, <2>3
  <2>5. \A i \in 1..NewCount : new[i] \in Range(new) /\ new[i] \in Thread /\ new[i] \notin all
    BY DEF Range
  <2>6. \A i, j \in 1..NewCount : new[i] = new[j] => i = j
    <3>1. \A i \in 1..NewCount : i \in Int /\ new[i] \in Int
      BY <2>5 DEF Thread
    <3> QED
      BY <2>1, <3>1
  <2>7. ASSUME NEW i \in DOMAIN free'
        PROVE  free'[i] \in all' \ busy' /\ cur'[free'[i]] = NoTask /\ pc'[free'[i]] # "rest"
    <3>1. i \in 1..NewCount /\ free'[i] = new[i]
      BY <2>4, <2>7
    <3> QED
      BY <2>1, <2>2, <2>5, <3>1
  <2>8. \A i, j \in DOMAIN free' : free'[i] = free'[j] => i = j
    BY <2>4, <2>6
  <2>9. /\ busy' \subseteq all'
        /\ \A t \in Thread : /\ t \notin all' => cur'[t] = NoTask
                             /\ pc'[t] = "rest" => cur'[t] = NoTask
                             /\ pc'[t] \notin {"next", "set"} => popped'[t] = NoTask
    <3>1. \A t \in Range(new) : t \in Thread /\ t \notin all
      BY DEF Range
    <3>2. \A t \in Thread : t \notin all => pc[t] \notin {"next", "set"}
      BY DEF HasTask
    <3> QED
      BY <2>1, <2>2, <3>1, <3>2
  <2> QED
    BY <2>7, <2>8, <2>9
<1> QED
  BY <1>1, <1>2, <1>3 DEF AddTask, BufferTask

LEMMA IdleMain == ASSUME PoolInv, FreeIdle, Main PROVE FreeIdle'
<1> USE DEF FreeIdle
<1>1. CASE SendCondSignal
  BY <1>1 DEF SendCondSignal, lists
<1>2. CASE Tick
  BY <1>2 DEF Tick, lists, workers
<1>3. CASE Present
  <2>1. Head(batch) \in Task
    BY <1>3, HeadTail DEF Present, PoolInv, TypeOK
  <2>2. CASE AddTask(Head(batch))
    BY <2>1, <2>2, IdleAddTask
  <2>3. CASE UNCHANGED <<lists, workers>>
    BY <2>3 DEF lists, workers
  <2> QED
    BY <1>3, <2>2, <2>3 DEF Present
<1>4. CASE Destroy
  BY <1>4 DEF Destroy, lists, workers
<1>5. CASE WakeAll
  BY <1>5 DEF WakeAll, lists
<1>6. ASSUME NEW k \in Task, Submit(k) PROVE FreeIdle'
  BY <1>6, IdleAddTask DEF Submit
<1> QED
  BY <1>1, <1>2, <1>3, <1>4, <1>5, <1>6 DEF Main

LEMMA IdleWorker ==
  ASSUME PoolInv, FreeIdle, NEW t \in Thread, Worker(t) \/ TimeOut(t)
  PROVE  FreeIdle'
<1> USE DEF PoolInv, TypeOK, HasTask, FreeIdle
<1>1. CASE \/ Look(t) \/ Wake(t) \/ Reset(t) \/ TimeOut(t) \/ Test(t)
  <2>1. /\ UNCHANGED <<lists, cur, popped>>
        /\ \E s \in {"wait", "test", "reset", "hang", "look", "work"} :
              pc' = [pc EXCEPT ![t] = s]
        /\ pc[t] \notin {"next", "set"}
    BY <1>1 DEF Look, Wake, Reset, TimeOut, Test
  <2> QED
    BY <2>1 DEF lists
<1>2. CASE RemoveHangThread(t)
  <2>1. CASE t \in Range(free)
    <3>1. PICK n \in DOMAIN free : free[n] = t /\ free' = RemoveAt(free, n)
      BY <1>2, <2>1 DEF RemoveHangThread
    <3>2. /\ all' = all \ {t} /\ pc' = [pc EXCEPT ![t] = "none"]
          /\ UNCHANGED <<busy, cur, popped>>
      BY <1>2, <2>1 DEF RemoveHangThread
    <3>3. /\ free' \in Seq(Thread)
          /\ \A i \in DOMAIN free' :
                LET o == IF i < n THEN i ELSE i + 1
                IN  o \in DOMAIN free /\ o # n /\ free'[i] = free[o]
      BY <3>1, RemovedItems
    <3>4. \A i \in DOMAIN free' : \E o \in DOMAIN free : o # n /\ free'[i] = free[o]
      BY <3>3
    <3>5. \A i \in DOMAIN free' : i \in Int
      BY <3>3
    <3>6. \A i, j \in DOMAIN free' : free'[i] = free'[j] => i = j
      BY <3>3, <3>5
    <3>7. pc[t] # "next" /\ cur[t] = NoTask /\ t \notin busy
      BY <1>2, <3>1 DEF RemoveHangThread
    <3> QED
      BY <3>1, <3>2, <3>4, <3>6, <3>7
  <2>2. CASE t \notin Range(free)
    BY <1>2, <2>2 DEF RemoveHangThread
  <2> QED
    BY <2>1, <2>2
<1>3. CASE PopBufferTask(t)
  <2>1. /\ UNCHANGED lists /\ cur' = cur
        /\ \/ pc' = [pc EXCEPT ![t] = "finish"] /\ popped' = popped
           \/ /\ pc' = [pc EXCEPT ![t] = "next"]
              /\ popped' = [popped EXCEPT ![t] = Head(buffered)]
        /\ pc[t] = "work"
    BY <1>3 DEF PopBufferTask
  <2> QED
    BY <2>1 DEF lists
<1>4. CASE NextTask(t) \/ FinishTask(t)
  <2>1. /\ UNCHANGED <<lists, cur, popped>>
        /\ \/ pc[t] = "next" /\ pc' = [pc EXCEPT ![t] = "set"]
           \/ pc[t] = "finish" /\ pc' = [pc EXCEPT ![t] = "clear"]
    BY <1>4 DEF NextTask, FinishTask
  <2> QED
    BY <2>1 DEF lists
<1>5. CASE SetTask(t) \/ ClearTask(t)
  <2>1. cur[t] # NoTask /\ t \in all /\ \A i \in DOMAIN free : free[i] # t
    BY <1>5 DEF SetTask, ClearTask
  <2> QED
    BY <1>5, <2>1 DEF SetTask, ClearTask, lists
<1>6. CASE AddFreeThread(t)
  <2>1. /\ free' = Append(free, t) /\ t \in busy /\ busy' = busy \ {t} /\ cur[t] = NoTask
        /\ pc' = [pc EXCEPT ![t] = "look"] /\ UNCHANGED <<all, cur, popped>> /\ pc[t] = "rest"
    BY <1>6 DEF AddFreeThread
  <2>2. /\ DOMAIN free' = DOMAIN free \union {Len(free) + 1} /\ Len(free) + 1 \notin DOMAIN free
        /\ free'[Len(free) + 1] = t
        /\ \A i \in DOMAIN free : free'[i] = free[i]
    BY <2>1, AppendItems
  <2>3. \A i \in DOMAIN free : free[i] # t
    BY <2>1
  <2>4. \A i, j \in DOMAIN free' : free'[i] = free'[j] => i = j
    BY <2>2, <2>3
  <2>5. ASSUME NEW i \in DOMAIN free'
        PROVE  free'[i] \in all' \ busy' /\ cur'[free'[i]] = NoTask /\ pc'[free'[i]] # "rest"
    BY <2>1, <2>2, <2>3
  <2> QED
    BY <2>1, <2>4, <2>5
<1> QED
  BY <1>1, <1>2, <1>3, <1>4, <1>5, <1>6 DEF Worker

\* One of the places of a task, and no other.
One(S) == \E x : S = {x}

\* What each worker owns: its m_currTask until it has handed it over.
OwnTask == [t \in Thread |-> IF t \in HandedOver THEN NoTask ELSE cur[t]]

Alone(k) ==
  LET U == k \in unused            B == At(buffered, k)
      F == At(fini, k)             T == At(batch, k)
      C == Holders(OwnTask, k)     P == Holders(popped, k)
  IN  \/ U  /\ B = {} /\ F = {} /\ T = {} /\ C = {} /\ P = {}
      \/ ~U /\ One(B) /\ F = {} /\ T = {} /\ C = {} /\ P = {}
      \/ ~U /\ B = {} /\ One(F) /\ T = {} /\ C = {} /\ P = {}
      \/ ~U /\ B = {} /\ F = {} /\ One(T) /\ C = {} /\ P = {}
      \/ ~U /\ B = {} /\ F = {} /\ T = {} /\ One(C) /\ P = {}
      \/ ~U /\ B = {} /\ F = {} /\ T = {} /\ C = {} /\ One(P)

AllAlone == \A k \in Task : Alone(k)

\* A list that loses its head ...
LEMMA TailAt ==
  ASSUME NEW S, NEW q \in Seq(S), q # <<>>, NEW k
  PROVE  /\ Head(q) # k => /\ At(q, k) = {} => At(Tail(q), k) = {}
                           /\ One(At(q, k)) => One(At(Tail(q), k))
         /\ At(q, k) # {} \/ Head(q) # k
         /\ Head(q) = k /\ One(At(q, k)) => At(Tail(q), k) = {}
<1>1. /\ 1 \in DOMAIN q /\ Head(q) = q[1]
      /\ \A i \in DOMAIN Tail(q) : i + 1 \in DOMAIN q /\ i + 1 # 1 /\ Tail(q)[i] = q[i + 1]
      /\ \A i \in DOMAIN q : i # 1 => i - 1 \in DOMAIN Tail(q) /\ Tail(q)[i - 1] = q[i]
  BY TailItems
<1>2. (\A i \in DOMAIN Tail(q) : i \in Int) /\ (\A i \in DOMAIN q : i \in Int)
  BY TailItems
<1>3. At(q, k) # {} \/ Head(q) # k
  BY <1>1 DEF At
<1>4. At(q, k) = {} => At(Tail(q), k) = {}
  BY <1>1 DEF At
<1>5. ASSUME Head(q) # k, NEW x, At(q, k) = {x} PROVE At(Tail(q), k) = {x - 1}
  <2>1. x \in DOMAIN q /\ q[x] = k /\ x # 1 /\ x \in Int
    BY <1>1, <1>2, <1>5 DEF At
  <2>2. x - 1 \in At(Tail(q), k)
    BY <1>1, <2>1 DEF At
  <2>3. \A i \in At(Tail(q), k) : i + 1 = x /\ i \in Int
    BY <1>1, <1>2, <1>5 DEF At
  <2>4. \A i \in At(Tail(q), k) : i = x - 1
    BY <2>1, <2>3
  <2> QED
    BY <2>2, <2>4
<1>6. ASSUME Head(q) = k, NEW x, At(q, k) = {x} PROVE At(Tail(q), k) = {}
  <2>1. x = 1
    BY <1>1, <1>6 DEF At
  <2>2. \A i \in At(Tail(q), k) : i + 1 = x
    BY <1>1, <1>6 DEF At
  <2> QED
    BY <1>1, <2>1, <2>2 DEF At
<1> QED
  BY <1>3, <1>4, <1>5, <1>6 DEF One

\* ... and one that gets another element.
LEMMA AppendAt ==
  ASSUME NEW S, NEW q \in Seq(S), NEW x \in S, NEW k
  PROVE  /\ x # k => At(Append(q, x), k) = At(q, k)
         /\ x = k /\ At(q, k) = {} => One(At(Append(q, x), k))
<1>1. /\ DOMAIN Append(q, x) = DOMAIN q \union {Len(q) + 1} /\ Len(q) + 1 \notin DOMAIN q
      /\ Append(q, x)[Len(q) + 1] = x
      /\ \A i \in DOMAIN q : Append(q, x)[i] = q[i]
  BY AppendItems
<1>2. x # k => At(Append(q, x), k) = At(q, k)
  BY <1>1 DEF At
<1>3. x = k /\ At(q, k) = {} => At(Append(q, x), k) = {Len(q) + 1}
  BY <1>1 DEF At
<1> QED
  BY <1>2, <1>3 DEF One

\* A worker that gets v instead of what it held.
Gets(f, g, t, v) == DOMAIN f = Thread /\ g = [f EXCEPT ![t] = v]

LEMMA HeldAt ==
  ASSUME NEW f, NEW g, NEW t, NEW v, NEW k, t \in Thread, Gets(f, g, t, v)
  PROVE  /\ k # v /\ k # f[t] => Holders(g, k) = Holders(f, k)
         /\ k = v /\ Holders(f, k) = {} => One(Holders(g, k))
         /\ k # v /\ k = f[t] /\ One(Holders(f, k)) => Holders(g, k) = {}
         /\ k = f[t] => Holders(f, k) # {}
<1>1. /\ g[t] = v
      /\ \A x \in Thread : x # t => g[x] = f[x]
  BY DEF Gets
<1>2. k # v /\ k # f[t] => Holders(g, k) = Holders(f, k)
  BY <1>1 DEF Holders
<1>3. k = v /\ Holders(f, k) = {} => Holders(g, k) = {t}
  BY <1>1 DEF Holders
<1>4. ASSUME k # v, k = f[t], NEW x, Holders(f, k) = {x} PROVE Holders(g, k) = {}
  <2>1. \A y \in Thread : f[y] = k => y = t
    BY <1>4 DEF Holders
  <2> QED
    BY <1>1, <1>4, <2>1 DEF Holders
<1>5. k = f[t] => Holders(f, k) # {}
  BY DEF Holders
<1> QED
  BY <1>2, <1>3, <1>4, <1>5 DEF One

\* A place that is one is not empty.
LEMMA OneIsSome == \A S : One(S) => S # {}
BY DEF One

LEMMA AloneInit == Init => AllAlone
<1> SUFFICES ASSUME Init, NEW k \in Task PROVE Alone(k)
  BY DEF AllAlone
<1>1. At(buffered, k) = {} /\ At(fini, k) = {} /\ At(batch, k) = {}
  BY DEF Init, At
<1>2. Holders(OwnTask, k) = {} /\ Holders(popped, k) = {}
  BY PoolAssumption DEF Init, Holders, OwnTask
<1> QED
  BY <1>1, <1>2 DEF Init, Alone

\* A step that leaves the places alone.
LEMMA AloneStays ==
  ASSUME AllAlone, UNCHANGED <<unused, buffered, fini, batch, popped>>, OwnTask' = OwnTask
  PROVE  AllAlone'
<1> SUFFICES ASSUME NEW k \in Task PROVE Alone(k)'
  BY DEF AllAlone
<1>1. Alone(k)
  BY DEF AllAlone
<1>2. Holders(OwnTask, k)' = Holders(OwnTask, k)
  BY DEF Holders
<1> QED
  BY <1>1, <1>2 DEF Alone, At, Holders

\* What a worker owns changes with its m_currTask, and when it hands its task over.
LEMMA OwnTaskAt ==
  ASSUME TypeOK, NEW t \in Thread
  PROVE  OwnTask[t] = IF pc[t] \in {"set", "clear"} THEN NoTask ELSE cur[t]
BY DEF OwnTask, HandedOver

LEMMA OwnTaskStays ==
  ASSUME TypeOK, TypeOK',
         \A t \in Thread : /\ cur'[t] = cur[t]
                           /\ pc'[t] \in {"set", "clear"} <=> pc[t] \in {"set", "clear"}
  PROVE  OwnTask' = OwnTask
BY DEF OwnTask, HandedOver

LEMMA OwnTaskGets ==
  ASSUME TypeOK, TypeOK', NEW t \in Thread, NEW v,
         v = IF pc'[t] \in {"set", "clear"} THEN NoTask ELSE cur'[t],
         \A x \in Thread \ {t} : cur'[x] = cur[x] /\ pc'[x] = pc[x]
  PROVE  Gets(OwnTask, OwnTask', t, v)
BY DEF OwnTask, HandedOver, Gets

\* addTask gives a task that no worker has to a worker or to the buffer.
LEMMA AddTaskMoves ==
  ASSUME PoolInv, PoolInv', FreeIdle, NEW k \in Task, AddTask(k), At(buffered, k) = {},
         Holders(OwnTask, k) = {}
  PROVE  /\ popped' = popped
         /\ \/ One(Holders(OwnTask', k)) /\ At(buffered', k) = {}
            \/ One(At(buffered', k)) /\ Holders(OwnTask', k) = {}
         /\ \A j \in Task : j # k => /\ At(buffered', j) = At(buffered, j)
                                     /\ Holders(OwnTask', j) = Holders(OwnTask, j)
<1>1. CASE GiveTask(k)
  <2>1. Head(free) \in Thread /\ 1 \in DOMAIN free /\ Head(free) = free[1]
    BY <1>1, HeadTail, TailItems DEF GiveTask, PoolInv, TypeOK
  <2> DEFINE h == Head(free)
  <2>2. cur[h] = NoTask /\ pc[h] \notin {"set", "clear"}
    BY <2>1 DEF FreeIdle, PoolInv, HasTask
  <2>3. /\ cur' = [cur EXCEPT ![h] = k] /\ UNCHANGED <<pc, popped, buffered>>
    BY <1>1 DEF GiveTask
  <2>4. DOMAIN cur = Thread /\ k # NoTask /\ \A j \in Task : j # NoTask
    BY PoolAssumption DEF PoolInv, TypeOK
  <2> HIDE DEF h
  <2>5. Gets(OwnTask, OwnTask', h, k)
    <3>1. h \in Thread
      BY <2>1 DEF h
    <3>2. k = IF pc'[h] \in {"set", "clear"} THEN NoTask ELSE cur'[h]
      BY <2>2, <2>3, <2>4, <3>1
    <3>3. \A x \in Thread \ {h} : cur'[x] = cur[x] /\ pc'[x] = pc[x]
      BY <2>3, <2>4
    <3> QED
      BY <3>1, <3>2, <3>3, OwnTaskGets DEF PoolInv
  <2>6. h \in Thread /\ OwnTask[h] = NoTask
    BY <2>1, <2>2, OwnTaskAt DEF h, PoolInv
  <2>7. One(Holders(OwnTask', k))
    BY <2>4, <2>5, <2>6, HeldAt
  <2>8. \A j \in Task : j # k => Holders(OwnTask', j) = Holders(OwnTask, j)
    BY <2>4, <2>5, <2>6, HeldAt
  <2> QED
    BY <2>3, <2>7, <2>8
<1>2. CASE BufferTask(k)
  <2>1. buffered' = Append(buffered, k) /\ UNCHANGED <<cur, popped>> /\ buffered \in Seq(Task)
    BY <1>2 DEF BufferTask, PoolInv, TypeOK
  <2>2. One(At(buffered', k)) /\ \A j \in Task : j # k => At(buffered', j) = At(buffered, j)
    BY <2>1, AppendAt
  <2>3. ASSUME NEW t \in Thread
        PROVE  pc'[t] \in {"set", "clear"} <=> pc[t] \in {"set", "clear"}
    <3>1. CASE UNCHANGED pc
      BY <3>1
    <3>2. CASE CreateThreads
      <4>1. PICK new \in [1..NewCount -> Thread \ all] :
               pc' = [x \in Thread |-> IF x \in Range(new) THEN "look" ELSE pc[x]]
        BY <3>2 DEF CreateThreads
      <4>2. t \in Range(new) => t \notin all
        BY DEF Range
      <4>3. t \notin all => pc[t] \notin {"set", "clear"}
        BY DEF FreeIdle, PoolInv, HasTask
      <4> QED
        BY <4>1, <4>2, <4>3
    <3> QED
      BY <1>2, <3>1, <3>2 DEF BufferTask
  <2>4. OwnTask' = OwnTask
    BY <2>1, <2>3, OwnTaskStays DEF PoolInv
  <2> QED
    BY <2>1, <2>2, <2>4
<1> QED
  BY <1>1, <1>2 DEF AddTask

LEMMA AloneSubmit ==
  ASSUME PoolInv, PoolInv', FreeIdle, AllAlone, NEW k \in Task, Submit(k)
  PROVE  AllAlone'
<1> SUFFICES ASSUME NEW j \in Task PROVE Alone(j)'
  BY DEF AllAlone
<1>1. /\ k \in unused /\ unused' = unused \ {k} /\ AddTask(k) /\ UNCHANGED <<fini, batch>>
  BY DEF Submit
<1>2. Alone(j) /\ Alone(k)
  BY DEF AllAlone
<1>3. At(buffered, k) = {} /\ Holders(OwnTask, k) = {} /\ Holders(popped, k) = {}
      /\ At(fini, k) = {} /\ At(batch, k) = {}
  BY <1>1, <1>2 DEF Alone
<1>4. /\ popped' = popped
      /\ \/ One(Holders(OwnTask', k)) /\ At(buffered', k) = {}
         \/ One(At(buffered', k)) /\ Holders(OwnTask', k) = {}
      /\ j # k => At(buffered', j) = At(buffered, j) /\ Holders(OwnTask', j) = Holders(OwnTask, j)
  BY <1>1, <1>3, AddTaskMoves
<1>5. CASE j = k
  BY <1>1, <1>3, <1>4, <1>5 DEF Alone
<1>6. CASE j # k
  BY <1>1, <1>2, <1>4, <1>6 DEF Alone
<1> QED
  BY <1>5, <1>6

LEMMA AloneTick == ASSUME PoolInv, PoolInv', AllAlone, Tick PROVE AllAlone'
<1> SUFFICES ASSUME NEW j \in Task PROVE Alone(j)'
  BY DEF AllAlone
<1>1. /\ batch = <<>> /\ batch' = fini /\ fini' = <<>>
      /\ UNCHANGED <<unused, buffered, popped>> /\ OwnTask' = OwnTask
  BY OwnTaskStays DEF Tick, workers, PoolInv
<1>2. Alone(j)
  BY DEF AllAlone
<1>3. At(<<>>, j) = {}
  BY DEF At
<1>4. At(batch, j) = {} /\ At(fini', j) = {} /\ At(batch', j) = At(fini, j)
  BY <1>1, <1>3
<1> QED
  BY <1>1, <1>2, <1>4, OneIsSome DEF Alone

LEMMA AlonePresent == ASSUME PoolInv, PoolInv', FreeIdle, AllAlone, Present PROVE AllAlone'
<1> SUFFICES ASSUME NEW j \in Task PROVE Alone(j)'
  BY DEF AllAlone
<1> DEFINE k == Head(batch)
<1>1. k \in Task /\ batch # <<>> /\ batch' = Tail(batch) /\ batch \in Seq(Task)
  BY HeadTail DEF Present, PoolInv, TypeOK
<1>2. Alone(j) /\ Alone(k)
  BY <1>1 DEF AllAlone
<1>3. At(batch, k) # {}
  BY <1>1, TailAt
<1>4. /\ k \notin unused /\ At(buffered, k) = {} /\ At(fini, k) = {} /\ One(At(batch, k))
      /\ Holders(OwnTask, k) = {} /\ Holders(popped, k) = {}
  BY <1>2, <1>3, OneIsSome DEF Alone
<1>5. At(batch', k) = {}
  BY <1>1, <1>4, TailAt
<1>6. j # k => /\ At(batch, j) = {} => At(batch', j) = {}
               /\ One(At(batch, j)) => One(At(batch', j))
  BY <1>1, TailAt
<1>7. CASE unused' = unused \union {k} /\ UNCHANGED <<lists, workers, buffered, fini, signalling>>
  <2>1. UNCHANGED <<buffered, fini, popped>> /\ OwnTask' = OwnTask
    BY <1>7, OwnTaskStays DEF workers, PoolInv
  <2> HIDE DEF k
  <2>2. CASE j = k
    BY <1>4, <1>5, <1>7, <2>1, <2>2 DEF Alone
  <2>3. CASE j # k
    BY <1>2, <1>6, <1>7, <2>1, <2>3 DEF Alone
  <2> QED
    BY <2>2, <2>3
<1>8. CASE fini' = Append(fini, k) /\ UNCHANGED <<lists, workers, buffered, signalling, unused>>
  <2>1. UNCHANGED <<unused, buffered, popped>> /\ OwnTask' = OwnTask
    BY <1>8, OwnTaskStays DEF workers, PoolInv
  <2>2. One(At(fini', k)) /\ (j # k => At(fini', j) = At(fini, j))
    BY <1>1, <1>4, <1>8, AppendAt DEF PoolInv, TypeOK
  <2> HIDE DEF k
  <2>3. CASE j = k
    BY <1>4, <1>5, <2>1, <2>2, <2>3 DEF Alone
  <2>4. CASE j # k
    BY <1>2, <1>6, <2>1, <2>2, <2>4 DEF Alone
  <2> QED
    BY <2>3, <2>4
<1>9. CASE AddTask(k) /\ UNCHANGED <<fini, unused>>
  <2>1. /\ popped' = popped
        /\ \/ One(Holders(OwnTask', k)) /\ At(buffered', k) = {}
           \/ One(At(buffered', k)) /\ Holders(OwnTask', k) = {}
        /\ j # k => At(buffered', j) = At(buffered, j) /\ Holders(OwnTask', j) = Holders(OwnTask, j)
    BY <1>1, <1>4, <1>9, AddTaskMoves
  <2> HIDE DEF k
  <2>2. CASE j = k
    BY <1>4, <1>5, <1>9, <2>1, <2>2 DEF Alone
  <2>3. CASE j # k
    BY <1>2, <1>6, <1>9, <2>1, <2>3 DEF Alone
  <2> QED
    BY <2>2, <2>3
<1> QED
  BY <1>7, <1>8, <1>9 DEF Present

LEMMA AlonePop ==
  ASSUME PoolInv, PoolInv', FreeIdle, AllAlone, NEW t \in Thread, PopBufferTask(t), buffered # <<>>
  PROVE  AllAlone'
<1> SUFFICES ASSUME NEW j \in Task PROVE Alone(j)'
  BY DEF AllAlone
<1> DEFINE k == Head(buffered)
<1>1. /\ k \in Task /\ buffered \in Seq(Task) /\ k # NoTask /\ j # NoTask
      /\ DOMAIN popped = Thread /\ popped[t] = NoTask
  BY HeadTail, PoolAssumption DEF PopBufferTask, PoolInv, TypeOK, FreeIdle
<1>2. buffered' = Tail(buffered) /\ UNCHANGED <<unused, fini, batch>> /\ OwnTask' = OwnTask
  <2>1. \A x \in Thread : /\ cur'[x] = cur[x]
                          /\ pc'[x] \in {"set", "clear"} <=> pc[x] \in {"set", "clear"}
    BY DEF PopBufferTask, PoolInv, TypeOK
  <2> QED
    BY <2>1, OwnTaskStays DEF PopBufferTask, main, PoolInv
<1>3. Gets(popped, popped', t, k)
  BY <1>1 DEF PopBufferTask, Gets
<1>4. /\ At(buffered, k) # {} /\ (One(At(buffered, k)) => At(buffered', k) = {})
      /\ j # k => /\ At(buffered, j) = {} => At(buffered', j) = {}
                  /\ One(At(buffered, j)) => One(At(buffered', j))
  BY <1>1, <1>2, TailAt
<1>5. /\ Holders(popped, k) = {} => One(Holders(popped', k))
      /\ j # k => Holders(popped', j) = Holders(popped, j)
  BY <1>1, <1>3, HeldAt
<1>6. Alone(j)
  BY DEF AllAlone
<1> HIDE DEF k
<1>7. CASE j = k
  <2>1. /\ j \notin unused /\ At(fini, j) = {} /\ One(At(buffered, j)) /\ At(batch, j) = {}
        /\ Holders(OwnTask, j) = {} /\ Holders(popped, j) = {}
    BY <1>4, <1>6, <1>7, OneIsSome DEF Alone
  <2> QED
    BY <1>2, <1>4, <1>5, <1>7, <2>1 DEF Alone
<1>8. CASE j # k
  BY <1>2, <1>4, <1>5, <1>6, <1>8 DEF Alone
<1> QED
  BY <1>7, <1>8

\* A worker hands its task over: it is in the finished list now.
LEMMA AloneHandOver ==
  ASSUME PoolInv, PoolInv', FreeIdle, AllAlone, NEW t \in Thread, NextTask(t) \/ FinishTask(t)
  PROVE  AllAlone'
<1> SUFFICES ASSUME NEW j \in Task PROVE Alone(j)'
  BY DEF AllAlone
<1> DEFINE c == cur[t]
<1>1. /\ c \in Task /\ j # NoTask /\ c # NoTask /\ fini \in Seq(Task)
      /\ pc[t] \in {"next", "finish"}
  BY PoolAssumption DEF NextTask, FinishTask, PoolInv, TypeOK, HasTask
<1>2. /\ fini' = Append(fini, c) /\ UNCHANGED <<unused, batch, buffered, popped, cur>>
      /\ \E s \in {"set", "clear"} : pc' = [pc EXCEPT ![t] = s]
  BY DEF NextTask, FinishTask, main
<1>3. Gets(OwnTask, OwnTask', t, NoTask) /\ OwnTask[t] = c
  <2>1. /\ NoTask = IF pc'[t] \in {"set", "clear"} THEN NoTask ELSE cur'[t]
        /\ \A x \in Thread \ {t} : cur'[x] = cur[x] /\ pc'[x] = pc[x]
    BY <1>2 DEF PoolInv, TypeOK
  <2>2. OwnTask[t] = c
    BY <1>1, OwnTaskAt DEF PoolInv
  <2> QED
    BY <2>1, <2>2, OwnTaskGets DEF PoolInv
<1>4. Alone(j) /\ Alone(c)
  BY <1>1 DEF AllAlone
<1> HIDE DEF c
<1>5. Holders(OwnTask, c) # {}
  BY <1>3 DEF Holders
<1>6. /\ c \notin unused /\ At(buffered, c) = {} /\ At(fini, c) = {} /\ At(batch, c) = {}
      /\ One(Holders(OwnTask, c)) /\ Holders(popped, c) = {}
  BY <1>4, <1>5, OneIsSome DEF Alone
<1>7. One(At(fini', c)) /\ (j # c => At(fini', j) = At(fini, j))
  BY <1>1, <1>2, <1>6, AppendAt
<1>8. Holders(OwnTask', c) = {}
  BY <1>1, <1>3, <1>6, HeldAt
<1>9. j # c => Holders(OwnTask', j) = Holders(OwnTask, j)
  BY <1>1, <1>3, HeldAt
<1>10. CASE j = c
  BY <1>2, <1>6, <1>7, <1>8, <1>10 DEF Alone
<1>11. CASE j # c
  BY <1>2, <1>4, <1>7, <1>9, <1>11 DEF Alone
<1> QED
  BY <1>10, <1>11

\* A worker that has handed its task over takes the one it has popped.
LEMMA AloneSet ==
  ASSUME PoolInv, PoolInv', FreeIdle, AllAlone, NEW t \in Thread, SetTask(t)
  PROVE  AllAlone'
<1> SUFFICES ASSUME NEW j \in Task PROVE Alone(j)'
  BY DEF AllAlone
<1> DEFINE p == popped[t]
<1>1. /\ p \in Task /\ j # NoTask /\ p # NoTask
      /\ DOMAIN popped = Thread /\ pc[t] = "set" /\ NoTask \notin Task
  BY PoolAssumption DEF SetTask, PoolInv, TypeOK, HasTask
<1>2. /\ UNCHANGED <<unused, batch, buffered, fini>>
      /\ cur' = [cur EXCEPT ![t] = p] /\ pc' = [pc EXCEPT ![t] = "test"]
      /\ popped' = [popped EXCEPT ![t] = NoTask]
  BY DEF SetTask, main
<1>3. Gets(popped, popped', t, NoTask)
  BY <1>1, <1>2 DEF Gets
<1>4. Gets(OwnTask, OwnTask', t, p) /\ OwnTask[t] = NoTask
  <2>1. /\ p = IF pc'[t] \in {"set", "clear"} THEN NoTask ELSE cur'[t]
        /\ \A x \in Thread \ {t} : cur'[x] = cur[x] /\ pc'[x] = pc[x]
    BY <1>2 DEF PoolInv, TypeOK
  <2>2. OwnTask[t] = NoTask
    BY <1>1, OwnTaskAt DEF PoolInv
  <2> HIDE DEF p
  <2> QED
    BY <2>1, <2>2, OwnTaskGets DEF PoolInv
<1>5. Alone(j) /\ Alone(p) /\ Holders(popped, p) # {}
  BY <1>1 DEF AllAlone, Holders
<1>p. popped[t] = p
  OBVIOUS
<1> HIDE DEF p
<1>6. /\ p \notin unused /\ At(buffered, p) = {} /\ At(fini, p) = {} /\ At(batch, p) = {}
      /\ Holders(OwnTask, p) = {} /\ One(Holders(popped, p))
  BY <1>5, OneIsSome DEF Alone
<1>7. /\ One(Holders(OwnTask', p))
      /\ j # p => Holders(OwnTask', j) = Holders(OwnTask, j)
  BY <1>1, <1>4, <1>6, HeldAt
<1>8. /\ Holders(popped', p) = {}
      /\ j # p => Holders(popped', j) = Holders(popped, j)
  BY <1>1, <1>3, <1>p, <1>6, HeldAt
<1>9. CASE j = p
  BY <1>2, <1>6, <1>7, <1>8, <1>9 DEF Alone
<1>10. CASE j # p
  BY <1>2, <1>5, <1>7, <1>8, <1>10 DEF Alone
<1> QED
  BY <1>9, <1>10

LEMMA AloneStep == PoolInv /\ PoolInv' /\ FreeIdle /\ AllAlone /\ [Next]_vars => AllAlone'
<1> SUFFICES ASSUME PoolInv, PoolInv', FreeIdle, AllAlone, [Next]_vars PROVE AllAlone'
  OBVIOUS
<1>1. CASE SendCondSignal \/ Destroy \/ WakeAll \/ UNCHANGED vars
  <2>1. UNCHANGED <<unused, buffered, fini, batch, cur, popped, pc>>
    BY <1>1 DEF SendCondSignal, Destroy, WakeAll, vars, workers, main
  <2>2. OwnTask' = OwnTask
    BY <2>1, OwnTaskStays DEF PoolInv
  <2> QED
    BY <2>1, <2>2, AloneStays
<1>2. ASSUME NEW t \in Thread,
             \/ Look(t) \/ Wake(t) \/ Reset(t) \/ TimeOut(t) \/ Test(t)
             \/ RemoveHangThread(t) \/ AddFreeThread(t)
             \/ PopBufferTask(t) /\ buffered = <<>>
      PROVE  AllAlone'
  <2>1. /\ UNCHANGED <<unused, buffered, fini, batch, cur, popped>>
        /\ \/ pc' = pc
           \/ /\ pc[t] \notin {"set", "clear"}
              /\ \E s : s \notin {"set", "clear"} /\ pc' = [pc EXCEPT ![t] = s]
    BY <1>2 DEF Look, Wake, Reset, TimeOut, Test, RemoveHangThread, AddFreeThread,
                PopBufferTask, main
  <2>2. \A x \in Thread : /\ cur'[x] = cur[x]
                          /\ pc'[x] \in {"set", "clear"} <=> pc[x] \in {"set", "clear"}
    BY <2>1 DEF PoolInv, TypeOK
  <2>3. OwnTask' = OwnTask
    BY <2>2, OwnTaskStays DEF PoolInv
  <2> QED
    BY <2>1, <2>3, AloneStays
<1>3. ASSUME NEW t \in Thread, ClearTask(t) PROVE AllAlone'
  <2>1. /\ UNCHANGED <<unused, buffered, fini, batch, popped>> /\ pc[t] = "clear"
        /\ cur' = [cur EXCEPT ![t] = NoTask] /\ pc' = [pc EXCEPT ![t] = "rest"]
    BY <1>3 DEF ClearTask, main
  <2>2. OwnTask' = OwnTask
    BY <2>1 DEF PoolInv, TypeOK, OwnTask, HandedOver
  <2> QED
    BY <2>1, <2>2, AloneStays
<1> QED
  BY <1>1, <1>2, <1>3, AloneSubmit, AloneTick, AlonePresent, AlonePop, AloneHandOver, AloneSet
     DEF Next, Main, Worker

LEMMA IdleStep == PoolInv /\ FreeIdle /\ [Next]_vars => FreeIdle'
<1> SUFFICES ASSUME PoolInv, FreeIdle, [Next]_vars PROVE FreeIdle'
  OBVIOUS
<1>1. CASE UNCHANGED vars
  BY <1>1 DEF vars, lists, workers, FreeIdle
<1> QED
  BY <1>1, IdleMain, IdleWorker DEF Next

LEMMA AloneIsOwnedOnce == AllAlone => OwnedOnce
<1> SUFFICES ASSUME AllAlone, NEW k \in Task PROVE Cardinality(Places(k)) = 1
  BY DEF OwnedOnce
<1>1. Alone(k)
  BY DEF AllAlone
<1>3. Holders(OwnTask, k) = Owners(k)
  BY PoolAssumption DEF OwnTask, Owners, Holders, HandedOver
<1>2. \E x : Places(k) = {x}
  <2>1. CASE k \in unused
    <3>1. Places(k) = {<<"unused", k>>}
      BY <1>1, <1>3, <2>1 DEF Alone, Places, One
    <3> QED
      BY <3>1
  <2>2. CASE k \notin unused
    <3>1. PICK n, x : \/ n = "buffered" /\ At(buffered, k) = {x} /\ At(fini, k) = {} /\ At(batch, k) = {}
                         /\ Owners(k) = {} /\ Holders(popped, k) = {}
                      \/ n = "fini" /\ At(buffered, k) = {} /\ At(fini, k) = {x} /\ At(batch, k) = {}
                         /\ Owners(k) = {} /\ Holders(popped, k) = {}
                      \/ n = "batch" /\ At(buffered, k) = {} /\ At(fini, k) = {} /\ At(batch, k) = {x}
                         /\ Owners(k) = {} /\ Holders(popped, k) = {}
                      \/ n = "cur" /\ At(buffered, k) = {} /\ At(fini, k) = {} /\ At(batch, k) = {}
                         /\ Owners(k) = {x} /\ Holders(popped, k) = {}
                      \/ n = "popped" /\ At(buffered, k) = {} /\ At(fini, k) = {} /\ At(batch, k) = {}
                         /\ Owners(k) = {} /\ Holders(popped, k) = {x}
      BY <1>1, <1>3, <2>2 DEF Alone, One
    <3>2. Places(k) = {<<n, x>>}
      BY <2>2, <3>1 DEF Places
    <3> QED
      BY <3>2
  <2> QED
    BY <2>1, <2>2
<1> QED
  BY <1>2, FS_Singleton

\* A task is in one place at any time, so that it is never lost, never executed by two workers
\* and never presented or released before its worker has handed it over; and what m_currTask
\* refers to from then on is erased only when no other task has been put there
\* (slthread_pool.cpp addTask, mainThreadTick, popBufferTask, addFiniTask).
THEOREM TasksOwnedOnce == Spec => []OwnedOnce
<1>1. Init => PoolInv /\ FreeIdle /\ AllAlone
  BY InvInit, IdleInit, AloneInit
<1>2. PoolInv /\ FreeIdle /\ AllAlone /\ [Next]_vars => (PoolInv /\ FreeIdle /\ AllAlone)'
  BY InvStep, IdleStep, AloneStep
<1>3. PoolInv /\ FreeIdle /\ AllAlone => OwnedOnce
  BY AloneIsOwnedOnce
<1> QED
  BY <1>1, <1>2, <1>3, PTL DEF Spec

-----------------------------------------------------------------------------
\* The timer wheel: what its constants are, and the arithmetic of its gears.

LEMMA WheelConstants ==
  /\ NoTimer \notin Timer
  /\ NumGears \in Nat /\ NumGears >= 2 /\ 1 \in Gear /\ 2 \in Gear
  /\ \A g \in Gear : Size(g) \in Nat /\ Size(g) > 0 /\ g \in Nat /\ g >= 1 /\ g <= NumGears
  /\ \A g \in Gear : g # NumGears => g + 1 \in Gear
  /\ \A g \in Gear : g # 1 => g - 1 \in Gear
BY TimerAssumption DEF Gear, Size

\* A set of numbers has a least one.
LEMMA Least ==
  ASSUME NEW T \in SUBSET Nat, T # {}
  PROVE  \E x \in T : \A y \in T : x <= y
<1> DEFINE smaller == {p \in Nat \X Nat : p[1] < p[2]}
<1>1. IsWellFoundedOn(smaller, Nat)
  BY NatLessThanWellFounded DEF OpToRel
<1>2. \A x, y \in Nat : <<y, x>> \in smaller <=> y < x
  OBVIOUS
<1> HIDE DEF smaller
<1>3. PICK x \in T : \A y \in T : ~(<<y, x>> \in smaller)
  BY <1>1, WFMin
<1>4. \A y \in T : y \in Nat /\ x \in Nat /\ ~(y < x)
  BY <1>2, <1>3
<1>5. \A y \in T : x <= y
  BY <1>4
<1> QED
  BY <1>5

\* What holds of 0 and passes from each number to the next one holds of all.
LEMMA FromBelow ==
  ASSUME NEW S \in SUBSET Nat, 0 \in S, \A n \in Nat : n \in S => n + 1 \in S
  PROVE  S = Nat
<1> SUFFICES ASSUME Nat \ S # {} PROVE FALSE
  OBVIOUS
<1>1. PICK x \in Nat \ S : \A y \in Nat \ S : x <= y
  BY Least
<1>2. x # 0 /\ x \in Nat
  BY <1>1
<1>3. x - 1 \in Nat /\ ~(x <= x - 1) /\ (x - 1) + 1 = x
  BY <1>2
<1>4. x - 1 \in S
  BY <1>1, <1>3
<1> QED
  BY <1>1, <1>3, <1>4

-----------------------------------------------------------------------------
\* Division with remainder.

LEMMA Divided ==
  ASSUME NEW P \in Nat \ {0}, NEW e \in Nat
  PROVE  /\ e \div P \in Nat /\ e % P \in 0 .. P - 1
         /\ P * (e \div P) <= e /\ e < P * ((e \div P) + 1)
<1>1. e = P * (e \div P) + (e % P) /\ e \div P \in Int /\ e % P \in 0 .. P - 1
  OBVIOUS
<1>2. PICK q \in Int : q = e \div P
  BY <1>1
<1>3. PICK r \in 0 .. P - 1 : r = e % P
  BY <1>1
<1>4. e = P * q + r
  BY <1>1, <1>2, <1>3
<1>5. q >= 0
  <2> SUFFICES ASSUME q <= -1 PROVE FALSE
    OBVIOUS
  <2>1. P * q <= -P
    OBVIOUS
  <2> QED
    BY <1>4, <2>1
<1>6. P * (q + 1) = P * q + P
  OBVIOUS
<1> QED
  BY <1>1, <1>2, <1>3, <1>4, <1>5, <1>6

\* Quotient and remainder are the only ones.
LEMMA Remainder ==
  ASSUME NEW S \in Nat \ {0}, NEW d \in Int, NEW r \in 0 .. S - 1
  PROVE  (S * d + r) % S = r
<1> DEFINE a == S * d + r
           q == a \div S
           m == a % S
<1>1. a = S * q + m /\ q \in Int /\ m \in 0 .. S - 1 /\ a \in Int
  OBVIOUS
<1>2. S * (d - q) = m - r
  <2>1. a = S * d + r
    OBVIOUS
  <2> HIDE DEF a, q, m
  <2>2. S * (d - q) = S * d - S * q
    BY <1>1
  <2> QED
    BY <1>1, <2>1, <2>2
<1> HIDE DEF q, m, a
<1>3. d - q = 0
  <2>1. d - q >= 1 => S * (d - q) >= S
    BY <1>1
  <2>2. d - q <= -1 => S * (d - q) <= -S
    BY <1>1
  <2> QED
    BY <1>1, <1>2, <2>1, <2>2
<1>4. m = r
  BY <1>1, <1>2, <1>3
<1> QED
  BY <1>4 DEF m, a

LEMMA NextRemainder ==
  ASSUME NEW S \in Nat \ {0}, NEW c \in Nat
  PROVE  (c + 1) % S = IF (c % S) + 1 >= S THEN 0 ELSE (c % S) + 1
<1>1. PICK q \in Nat, r \in 0 .. S - 1 : c = S * q + r /\ r = c % S
  <2>1. c = S * (c \div S) + (c % S)
    OBVIOUS
  <2> QED
    BY <2>1, Divided
<1>2. CASE r + 1 >= S
  <2>1. c + 1 = S * (q + 1) + 0 /\ 0 \in 0 .. S - 1
    BY <1>1, <1>2
  <2>2. (S * (q + 1) + 0) % S = 0
    BY <2>1, Remainder
  <2> QED
    BY <1>1, <1>2, <2>1, <2>2
<1>3. CASE ~(r + 1 >= S)
  <2>1. PICK m \in 0 .. S - 1 : m = r + 1
    BY <1>1, <1>3
  <2>2. c + 1 = S * q + m
    BY <1>1, <2>1
  <2>3. (S * q + m) % S = m
    BY Remainder
  <2> QED
    BY <1>1, <1>3, <2>1, <2>2, <2>3
<1> QED
  BY <1>2, <1>3

\* Between n and n + P there is one multiple of P, P * c.
LEMMA OneMultiple ==
  ASSUME NEW P \in Nat \ {0}, NEW n \in Int, NEW c \in Int, NEW d \in Int,
         n <= P * c, P * c < n + P, n <= P * d, P * d < n + P
  PROVE  c = d
<1>1. P * (c - d) = P * c - P * d
  OBVIOUS
<1>2. c - d >= 1 => P * (c - d) >= P
  OBVIOUS
<1>3. c - d <= -1 => P * (c - d) <= -P
  OBVIOUS
<1> QED
  BY <1>1, <1>2, <1>3

-----------------------------------------------------------------------------
\* The periods of the gears: the definition has a solution, because it has one for the
\* first n gears, for every n.
PeriodsUpTo(f, n) ==
  /\ f \in [1 .. n -> Nat \ {0}]
  /\ \A g \in 1 .. n : f[g] = IF g = 1 THEN 1 ELSE f[g - 1] * Size(g - 1)

LEMMA Periods ==
  /\ Period \in [Gear -> Nat \ {0}] /\ Period[1] = 1
  /\ \A g \in Gear : g # NumGears => Period[g + 1] = Period[g] * Size(g)
<1> DEFINE solved == {n \in Nat : n <= NumGears => \E f : PeriodsUpTo(f, n)}
<1>1. 0 \in solved
  <2>1. PeriodsUpTo([g \in 1 .. 0 |-> 1], 0)
    BY DEF PeriodsUpTo
  <2> QED
    BY <2>1
<1>2. ASSUME NEW n \in Nat, n \in solved PROVE n + 1 \in solved
  <2> SUFFICES ASSUME n + 1 <= NumGears PROVE \E f : PeriodsUpTo(f, n + 1)
    OBVIOUS
  <2>1. PICK f : PeriodsUpTo(f, n)
    BY <1>2, WheelConstants
  <2>2. PICK p \in Nat \ {0} : p = IF n = 0 THEN 1 ELSE f[n] * Size(n)
    <3>1. CASE n = 0
      BY <3>1
    <3>2. CASE n # 0
      <4>1. f[n] \in Nat \ {0} /\ Size(n) \in Nat \ {0}
        BY <2>1, <3>2, WheelConstants DEF PeriodsUpTo, Gear
      <4>2. \A a, b \in Nat \ {0} : a * b \in Nat \ {0}
        OBVIOUS
      <4> QED
        BY <3>2, <4>1, <4>2
    <3> QED
      BY <3>1, <3>2
  <2> DEFINE h == [g \in 1 .. n + 1 |-> IF g = n + 1 THEN p ELSE f[g]]
  <2>3. h \in [1 .. n + 1 -> Nat \ {0}]
    BY <2>1, <2>2 DEF PeriodsUpTo
  <2>4. ASSUME NEW g \in 1 .. n + 1
        PROVE  h[g] = IF g = 1 THEN 1 ELSE h[g - 1] * Size(g - 1)
    <3>1. CASE g = n + 1 /\ n = 0
      BY <2>2, <3>1
    <3>2. CASE g = n + 1 /\ n # 0
      <4>1. g - 1 = n /\ g # 1 /\ n \in 1 .. n + 1 /\ n # n + 1
        BY <3>2
      <4> QED
        BY <2>2, <3>2, <4>1
    <3>3. CASE g # n + 1
      <4>1. g \in 1 .. n /\ (g # 1 => g - 1 \in 1 .. n + 1 /\ g - 1 # n + 1)
        BY <3>3
      <4>2. f[g] = IF g = 1 THEN 1 ELSE f[g - 1] * Size(g - 1)
        BY <2>1, <4>1 DEF PeriodsUpTo
      <4> QED
        BY <3>3, <4>1, <4>2
    <3> QED
      BY <3>1, <3>2, <3>3
  <2> HIDE DEF h
  <2> QED
    BY <2>3, <2>4 DEF PeriodsUpTo
<1>3. NumGears \in solved
  <2> HIDE DEF solved
  <2>1. solved = Nat
    BY <1>1, <1>2, FromBelow DEF solved
  <2> QED
    BY <2>1, WheelConstants
<1>4. PICK f : PeriodsUpTo(f, NumGears)
  BY <1>3, WheelConstants
<1> DEFINE Solves(f0) == f0 = [g \in Gear |-> IF g = 1 THEN 1 ELSE f0[g - 1] * Size(g - 1)]
<1>5. Solves(f)
  BY <1>4 DEF PeriodsUpTo, Gear
<1>6. Period = CHOOSE f0 : Solves(f0)
  BY DEF Period
<1>7. Solves(Period)
  <2> HIDE DEF Solves
  <2> QED
    BY <1>5, <1>6
<1>8. \A g \in Gear : Period[g] = IF g = 1 THEN 1 ELSE Period[g - 1] * Size(g - 1)
  BY <1>7
<1>9. DOMAIN Period = Gear /\ Period = [g \in Gear |-> Period[g]]
  BY <1>7
<1> HIDE DEF Solves
<1> DEFINE good == {n \in Nat : n + 1 \in Gear => Period[n + 1] \in Nat \ {0}}
<1>10. 0 \in good
  BY <1>8, WheelConstants
<1>11. ASSUME NEW n \in Nat, n \in good PROVE n + 1 \in good
  <2> SUFFICES ASSUME n + 1 + 1 \in Gear PROVE Period[n + 1 + 1] \in Nat \ {0}
    OBVIOUS
  <2>1. n + 1 \in Gear /\ n + 1 + 1 # 1 /\ (n + 1 + 1) - 1 = n + 1
    BY WheelConstants DEF Gear
  <2>2. Period[n + 1 + 1] = Period[n + 1] * Size(n + 1)
    BY <1>8, <2>1
  <2>3. Period[n + 1] \in Nat \ {0} /\ Size(n + 1) \in Nat \ {0}
    BY <1>11, <2>1, WheelConstants
  <2>4. \A a, b \in Nat \ {0} : a * b \in Nat \ {0}
    OBVIOUS
  <2> QED
    BY <2>2, <2>3, <2>4
<1>12. good = Nat
  <2> HIDE DEF good
  <2> QED
    BY <1>10, <1>11, FromBelow DEF good
<1>13. ASSUME NEW g \in Gear PROVE Period[g] \in Nat \ {0}
  <2>1. g - 1 \in Nat /\ (g - 1) + 1 = g
    BY WheelConstants
  <2> QED
    BY <1>12, <2>1
<1>14. ASSUME NEW g \in Gear, g # NumGears PROVE Period[g + 1] = Period[g] * Size(g)
  <2>1. g + 1 \in Gear /\ g + 1 # 1 /\ (g + 1) - 1 = g
    BY <1>14, WheelConstants
  <2> QED
    BY <1>8, <2>1
<1> QED
  BY <1>8, <1>9, <1>13, <1>14, WheelConstants

-----------------------------------------------------------------------------
\* The lists.

LEMMA Lists ==
  /\ \A g, s : <<g, s>> \in Slots <=> g \in Gear /\ s \in 0 .. Size(g) - 1
  /\ RunList \notin Slots /\ NoList \notin Slots /\ RunList # NoList
  /\ \A g \in Gear : \A s : <<g, s>> # RunList /\ <<g, s>> # NoList
<1>1. \A g, s : <<g, s>> \in Slots <=> g \in Gear /\ s \in 0 .. Size(g) - 1
  <2>1. ASSUME NEW g, NEW s, <<g, s>> \in Slots PROVE g \in Gear /\ s \in 0 .. Size(g) - 1
    <3>1. PICK h \in Gear : \E r \in 0 .. Size(h) - 1 : <<g, s>> = <<h, r>>
      BY <2>1 DEF Slots
    <3>2. PICK r \in 0 .. Size(h) - 1 : <<g, s>> = <<h, r>>
      BY <3>1
    <3>3. g = h /\ s = r
      BY <3>2
    <3> QED
      BY <3>2, <3>3
  <2>2. ASSUME NEW g \in Gear, NEW s \in 0 .. Size(g) - 1 PROVE <<g, s>> \in Slots
    BY DEF Slots
  <2> QED
    BY <2>1, <2>2
<1>2. 0 \notin Gear
  BY DEF Gear
<1>3. RunList # NoList
  BY DEF RunList, NoList
<1>4. \A g \in Gear : \A s : <<g, s>> # RunList /\ <<g, s>> # NoList
  BY <1>2 DEF RunList, NoList
<1> QED
  BY <1>1, <1>2, <1>3, <1>4 DEF RunList, NoList

\* A timer in a slot of a higher gear whose deadline is e: the gear comes to the slot in
\* the period in which e lies, and not before n.
High(p, e, n) ==
  \E g \in Gear, k \in Nat : /\ g # 1 /\ p = <<g, k % Size(g)>>
                             /\ n <= Period[g] * k /\ Period[g] * k <= e
\* In the first gear it is due when the clock leaves e ...
Low(p, e, n) == p = <<1, e % FirstSize>> /\ n <= e /\ e < n + FirstSize
\* ... unless it was paused then.
Stuck(p, e, n) == p = <<1, e % FirstSize>> /\ e < n

Ahead(p, e, n) == High(p, e, n) \/ Low(p, e, n)

LEMMA InSlots ==
  ASSUME NEW p, NEW e \in Nat, NEW n, Ahead(p, e, n) \/ Stuck(p, e, n)
  PROVE  p \in Slots
<1>1. CASE High(p, e, n)
  <2>1. PICK g \in Gear, k \in Nat : p = <<g, k % Size(g)>>
    BY <1>1 DEF High
  <2>2. Size(g) \in Nat \ {0}
    BY WheelConstants
  <2>3. k % Size(g) \in 0 .. Size(g) - 1
    BY <2>2, Divided
  <2> QED
    BY <2>1, <2>3, Lists
<1>2. CASE p = <<1, e % FirstSize>>
  <2>1. FirstSize \in Nat \ {0} /\ 1 \in Gear /\ Size(1) = FirstSize
    BY WheelConstants, TimerAssumption DEF Size
  <2>2. e % FirstSize \in 0 .. FirstSize - 1
    BY <2>1, Divided
  <2> QED
    BY <1>2, <2>1, <2>2, Lists
<1> QED
  BY <1>1, <1>2 DEF Ahead, Low, Stuck

\* findTimerList's gear reaches as far as rest, and those below it do not.
LEMMA GearFound ==
  ASSUME NEW rest \in Nat \ {0}
  PROVE  /\ GearFor(rest) \in Gear
         /\ GearFor(rest) = 1 => rest < FirstSize
         /\ GearFor(rest) # 1 => rest >= Period[GearFor(rest)]
<1> DEFINE reaches(g) == g = NumGears \/ rest < Period[g + 1]
           fits(g) == reaches(g) /\ \A h \in 1 .. g - 1 : rest >= Period[h + 1]
           some == {g \in Gear : reaches(g)}
<1>1. NumGears \in some /\ some \in SUBSET Nat
  BY WheelConstants DEF Gear
<1>2. PICK g \in some : \A h \in some : g <= h
  <2> HIDE DEF some
  <2> QED
    BY <1>1, Least
<1>3. fits(g) /\ g \in Gear
  <2>1. g \in Gear /\ reaches(g)
    BY <1>2
  <2>2. ASSUME NEW h \in 1 .. g - 1 PROVE rest >= Period[h + 1]
    <3>1. h \in Gear /\ h # NumGears /\ h + 1 \in Gear /\ ~(g <= h)
      BY <2>1, WheelConstants DEF Gear
    <3>2. ~(rest < Period[h + 1])
      BY <1>2, <3>1
    <3> QED
      BY <3>1, <3>2, Periods
  <2> QED
    BY <2>1, <2>2
<1>4. GearFor(rest) = CHOOSE x \in Gear : fits(x)
  BY DEF GearFor
<1>5. GearFor(rest) \in Gear /\ fits(GearFor(rest))
  <2> HIDE DEF fits
  <2> QED
    BY <1>3, <1>4
<1>6. GearFor(rest) = 1 => rest < FirstSize
  <2>1. 1 # NumGears /\ 1 \in Gear /\ Period[2] = Period[1] * Size(1) /\ Period[1] = 1
    BY WheelConstants, Periods
  <2>2. Period[2] = FirstSize
    BY <2>1, TimerAssumption DEF Size
  <2> QED
    BY <1>5, <2>1, <2>2
<1>7. GearFor(rest) # 1 => rest >= Period[GearFor(rest)]
  <2> SUFFICES ASSUME NEW x \in Gear, x # 1, \A h \in 1 .. x - 1 : rest >= Period[h + 1]
               PROVE  rest >= Period[x]
    BY <1>5
  <2>1. x - 1 \in 1 .. x - 1 /\ (x - 1) + 1 = x
    BY WheelConstants
  <2> QED
    BY <2>1
<1> QED
  BY <1>5, <1>6, <1>7

\* schedule puts a timer where it is found in time.
LEMMA Scheduled ==
  ASSUME now \in Nat, NEW e \in Nat
  PROVE  /\ e <= now => FindTimerList(e) = RunList
         /\ e > now => /\ Ahead(FindTimerList(e), e, now) /\ Ahead(FindTimerList(e), e, now + 1)
                       /\ FindTimerList(e) \in Slots
<1>1. CASE e <= now
  BY <1>1 DEF FindTimerList
<1>2. CASE e > now
  <2>1. PICK rest \in Nat \ {0} : rest = e - now
    BY <1>2
  <2>2. PICK g \in Gear : /\ g = GearFor(rest)
                          /\ g = 1 => rest < FirstSize
                          /\ g # 1 => rest >= Period[g]
    BY GearFound
  <2>3. FindTimerList(e) = <<g, (e \div Period[g]) % Size(g)>>
    BY <1>2, <2>1, <2>2 DEF FindTimerList
  <2>4. CASE g = 1
    <3>1. Period[g] = 1 /\ Size(g) = FirstSize /\ e \div 1 = e
      BY <2>4, Periods DEF Size
    <3>2. now < e /\ e < now + FirstSize /\ FirstSize \in Nat
      BY <1>2, <2>1, <2>2, <2>4, TimerAssumption
    <3>3. FindTimerList(e) = <<1, e % FirstSize>>
      BY <2>3, <2>4, <3>1
    <3>4. Low(FindTimerList(e), e, now) /\ Low(FindTimerList(e), e, now + 1)
      BY <3>2, <3>3 DEF Low
    <3> QED
      BY <1>2, <3>4, InSlots DEF Ahead
  <2>5. CASE g # 1
    <3>1. Period[g] \in Nat \ {0}
      BY Periods
    <3>2. PICK P \in Nat \ {0} : P = Period[g]
      BY <3>1
    <3>3. PICK k \in Nat : k = e \div P /\ P * k <= e /\ e < P * (k + 1)
      BY Divided
    <3>4. now < P * k
      <4>1. P * (k + 1) = P * k + P
        OBVIOUS
      <4>2. P * k \in Nat /\ e - now >= P
        BY <2>1, <2>2, <2>5, <3>2
      <4> QED
        BY <3>3, <4>1, <4>2
    <3>5. now <= P * k /\ now + 1 <= P * k
      BY <3>4
    <3>6. FindTimerList(e) = <<g, k % Size(g)>>
      BY <2>3, <3>2, <3>3
    <3>7. High(FindTimerList(e), e, now) /\ High(FindTimerList(e), e, now + 1)
      BY <2>5, <3>2, <3>3, <3>5, <3>6 DEF High
    <3> QED
      BY <1>2, <3>7, InSlots DEF Ahead
  <2> QED
    BY <1>2, <2>4, <2>5
<1> QED
  BY <1>1, <1>2

-----------------------------------------------------------------------------
\* The gears.

\* The slot that gear g uses next: that of the first multiple of its period from now on.
GearAt(g) == \E c \in Nat : /\ Wrapped(g) = c % Size(g)
                            /\ now <= Period[g] * c /\ Period[g] * c < now + Period[g]

Gears == \A g \in Gear : GearAt(g)

Multiple(n, P) == \E q \in Nat : n = P * q

LEMMA NextMultiple ==
  ASSUME NEW P \in Nat \ {0}, NEW S \in Nat \ {0}, NEW n \in Nat, NEW c \in Nat,
         n <= P * c, P * c < n + P
  PROVE  Multiple(n, P * S) <=> Multiple(n, P) /\ c % S = 0
<1>1. ASSUME Multiple(n, P), c % S = 0 PROVE Multiple(n, P * S)
  <2>1. PICK q \in Nat : n = P * q
    BY <1>1 DEF Multiple
  <2>2. q = c
    BY <2>1, OneMultiple
  <2>3. PICK d \in Nat : d = c \div S /\ S * d <= c /\ c < S * (d + 1)
    BY Divided
  <2>4. c = S * (c \div S) + (c % S)
    OBVIOUS
  <2>5. c = S * d
    BY <1>1, <2>3, <2>4
  <2>6. P * (S * d) = (P * S) * d
    OBVIOUS
  <2> QED
    BY <2>1, <2>2, <2>5, <2>6 DEF Multiple
<1>2. ASSUME Multiple(n, P * S) PROVE Multiple(n, P) /\ c % S = 0
  <2>1. PICK d \in Nat : n = (P * S) * d
    BY <1>2 DEF Multiple
  <2>2. PICK q \in Nat : q = S * d
    OBVIOUS
  <2>3. P * (S * d) = (P * S) * d
    OBVIOUS
  <2>4. n = P * q
    BY <2>1, <2>2, <2>3
  <2>5. q = c
    BY <2>4, OneMultiple
  <2>6. (S * d + 0) % S = 0
    BY Remainder
  <2>7. c % S = 0
    BY <2>2, <2>5, <2>6
  <2> QED
    BY <2>4, <2>7 DEF Multiple
<1> QED
  BY <1>1, <1>2

\* A gear turns exactly when the clock is at a multiple of its period.
LEMMA TurningGears ==
  ASSUME now \in Nat, Gears
  PROVE  \A g \in Gear : g \in Turning <=> g # 1 /\ Multiple(now, Period[g])
<1> DEFINE allZero(g) == \A h \in 1 .. g - 1 : Wrapped(h) = 0
           right == {n \in Nat : n + 1 \in Gear => (allZero(n + 1) <=> Multiple(now, Period[n + 1]))}
<1>1. 0 \in right
  <2>1. Period[1] = 1 /\ now = 1 * now /\ 1 .. (0 + 1) - 1 = {} /\ 0 + 1 = 1
    BY Periods
  <2>2. Multiple(now, Period[1])
    BY <2>1 DEF Multiple
  <2> QED
    BY <2>1, <2>2
<1>2. ASSUME NEW n \in Nat, n \in right PROVE n + 1 \in right
  <2> SUFFICES ASSUME n + 1 + 1 \in Gear
               PROVE  allZero(n + 1 + 1) <=> Multiple(now, Period[n + 1 + 1])
    OBVIOUS
  <2>1. PICK g : g = n + 1
    OBVIOUS
  <2>2. g \in Gear /\ g # NumGears /\ g + 1 = n + 1 + 1
    BY <2>1, WheelConstants DEF Gear
  <2>3. PICK P \in Nat \ {0}, S \in Nat \ {0} : P = Period[g] /\ S = Size(g) /\ Period[g + 1] = P * S
    BY <2>2, Periods, WheelConstants
  <2>4. PICK c \in Nat : Wrapped(g) = c % S /\ now <= P * c /\ P * c < now + P
    BY <2>2, <2>3 DEF Gears, GearAt
  <2>5. Multiple(now, P * S) <=> Multiple(now, P) /\ c % S = 0
    BY <2>4, NextMultiple
  <2>6. allZero(g) <=> Multiple(now, P)
    BY <1>2, <2>1, <2>2, <2>3
  <2>7. 1 .. (g + 1) - 1 = (1 .. g - 1) \cup {g}
    BY <2>1
  <2>8. allZero(g + 1) <=> allZero(g) /\ Wrapped(g) = 0
    BY <2>7
  <2> QED
    BY <2>2, <2>3, <2>4, <2>5, <2>6, <2>8
<1>3. right = Nat
  <2> HIDE DEF right
  <2> QED
    BY <1>1, <1>2, FromBelow DEF right
<1>4. ASSUME NEW g \in Gear PROVE allZero(g) <=> Multiple(now, Period[g])
  <2>1. g - 1 \in Nat /\ (g - 1) + 1 = g
    BY WheelConstants
  <2>2. g - 1 \in right
    BY <1>3, <2>1
  <2> QED
    BY <2>1, <2>2
<1> QED
  BY <1>4 DEF Turning

LEMMA AtCount ==
  ASSUME NEW g \in Gear, NEW c \in Nat, Wrapped(g)' = (c + 1) % Size(g),
         now' <= Period[g] * (c + 1), Period[g] * (c + 1) < now' + Period[g]
  PROVE  GearAt(g)'
<1>1. PICK k \in Nat : k = c + 1
  OBVIOUS
<1>2. Wrapped(g)' = k % Size(g) /\ now' <= Period[g] * k /\ Period[g] * k < now' + Period[g]
  BY <1>1
<1> QED
  BY <1>2 DEF GearAt, Wrapped, Size

\* The gears go on by one where they turn.
LEMMA GearsTurn ==
  ASSUME now \in Nat, nowSlot \in [Gear -> Nat], \A g \in Gear : nowSlot[g] <= Size(g),
         Gears, OnJiffiesUpdate
  PROVE  /\ nowSlot' \in [Gear -> Nat] /\ \A g \in Gear : nowSlot'[g] <= Size(g)
         /\ Gears'
<1>1. /\ now' = now + 1
      /\ nowSlot' = [g \in Gear |-> IF g = 1 THEN (Wrapped(1) + 1) % FirstSize
                                    ELSE IF g \in Turning THEN Wrapped(g) + 1 ELSE nowSlot[g]]
  BY DEF OnJiffiesUpdate
<1>2. ASSUME NEW g \in Gear
      PROVE  nowSlot'[g] \in Nat /\ nowSlot'[g] <= Size(g) /\ GearAt(g)'
  <2>1. PICK P \in Nat \ {0}, S \in Nat \ {0} : P = Period[g] /\ S = Size(g)
    BY Periods, WheelConstants
  <2>2. PICK c \in Nat : Wrapped(g) = c % S /\ now <= P * c /\ P * c < now + P
    BY <2>1 DEF Gears, GearAt
  <2>3. c % S \in 0 .. S - 1 /\ (c + 1) % S = IF (c % S) + 1 >= S THEN 0 ELSE (c % S) + 1
    BY Divided, NextRemainder
  <2>4. PICK w \in 0 .. S - 1 : w = Wrapped(g) /\ (c + 1) % S = IF w + 1 >= S THEN 0 ELSE w + 1
    BY <2>2, <2>3
  <2>5. P * (c + 1) = P * c + P /\ P * c \in Nat
    OBVIOUS
  <2>6. CASE nowSlot'[g] = w + 1 /\ now = P * c
    <3>1. Wrapped(g)' = (c + 1) % S
      BY <2>1, <2>4, <2>6 DEF Wrapped, Size
    <3>2. now' <= P * (c + 1) /\ P * (c + 1) < now' + P
      BY <1>1, <2>5, <2>6
    <3>3. nowSlot'[g] \in Nat /\ nowSlot'[g] <= S
      BY <2>6
    <3> QED
      BY <2>1, <3>1, <3>2, <3>3, AtCount
  <2>7. CASE g = 1
    <3>1. P = 1 /\ S = FirstSize /\ now = P * c
      BY <2>1, <2>2, <2>7, Periods DEF Size
    <3>2. nowSlot'[g] = (w + 1) % S
      BY <1>1, <2>4, <2>7, <3>1
    <3>3. PICK v \in 0 .. S - 1 : v = (w + 1) % S /\ v = (c + 1) % S
      <4>1. w + 1 \in Nat /\ (w + 1) % S \in 0 .. S - 1
        BY Divided
      <4>2. w % S = w
        <5>1. (S * 0 + w) % S = w /\ S * 0 + w = w
          BY Remainder
        <5> QED
          BY <5>1
      <4>3. (w + 1) % S = IF (w % S) + 1 >= S THEN 0 ELSE (w % S) + 1
        <5>1. w \in Nat
          OBVIOUS
        <5> QED
          BY <5>1, NextRemainder
      <4> QED
        BY <2>4, <4>1, <4>2, <4>3
    <3>4. nowSlot'[g] = v /\ v \in Nat /\ ~(v >= S) /\ v < S
      BY <3>2, <3>3
    <3>6. Wrapped(g)' = (c + 1) % S
      BY <2>1, <3>3, <3>4 DEF Wrapped, Size
    <3>5. now' <= P * (c + 1) /\ P * (c + 1) < now' + P
      BY <1>1, <2>5, <3>1
    <3>7. GearAt(g)'
      BY <2>1, <3>5, <3>6, AtCount
    <3> QED
      BY <2>1, <3>4, <3>7
  <2>8. CASE g # 1 /\ g \in Turning
    <3>1. Multiple(now, P)
      BY <2>1, <2>8, TurningGears
    <3>2. PICK q \in Nat : now = P * q
      BY <3>1 DEF Multiple
    <3>3. q = c
      BY <2>2, <3>2, OneMultiple
    <3> QED
      BY <1>1, <2>4, <2>6, <2>8, <3>2, <3>3
  <2>9. CASE g # 1 /\ g \notin Turning
    <3>1. ~Multiple(now, P)
      BY <2>1, <2>9, TurningGears
    <3>2. now # P * c
      BY <3>1 DEF Multiple
    <3>3. nowSlot'[g] = nowSlot[g]
      BY <1>1, <2>9
    <3>4. now' <= P * c /\ P * c < now' + P
      BY <1>1, <2>2, <2>5, <3>2
    <3>5. Wrapped(g)' = Wrapped(g)
      BY <3>3 DEF Wrapped, Size
    <3>6. nowSlot[g] \in Nat /\ nowSlot[g] <= Size(g)
      OBVIOUS
    <3> QED
      BY <2>1, <2>2, <3>3, <3>4, <3>5, <3>6 DEF GearAt, Size
  <2> QED
    BY <2>7, <2>8, <2>9
<1>3. nowSlot' \in [Gear -> Nat]
  BY <1>1, <1>2
<1> QED
  BY <1>2, <1>3 DEF Gears

-----------------------------------------------------------------------------
\* What a jiffy does to a timer.

LEMMA SameRemainder ==
  ASSUME NEW F \in Nat \ {0}, NEW a \in Nat, NEW b \in Nat, a <= b, b < a + F, a % F = b % F
  PROVE  a = b
<1>1. PICK p \in Nat, q \in Nat, r \in 0 .. F - 1 : a = F * p + r /\ b = F * q + r
  <2>1. a = F * (a \div F) + (a % F) /\ b = F * (b \div F) + (b % F)
    OBVIOUS
  <2> QED
    BY <2>1, Divided
<1>2. F * (q - p) = F * q - F * p
  OBVIOUS
<1>3. q - p >= 1 => F * (q - p) >= F
  OBVIOUS
<1>4. q - p <= -1 => F * (q - p) <= -F
  OBVIOUS
<1> QED
  BY <1>1, <1>2, <1>3, <1>4

\* A timer in a slot has its deadline ahead, or was paused when that passed.
Placed(t) == \/ place[t] \in {RunList, NoList}
             \/ Ahead(place[t], expire[t], now)
             \/ Stuck(place[t], expire[t], now) /\ stat[t] = "paused"

\* What the step makes of a timer at p with the deadline e.
Ticked(p, e, q, paused) ==
  /\ p \notin Slots => q = p
  /\ p \in Slots => q \in Slots \cup {RunList}
  /\ p \in Slots /\ q = RunList => e = now
  /\ p \in Slots /\ e = now /\ ~paused => q = RunList
  /\ q \in Slots => Ahead(q, e, now + 1) \/ (Stuck(q, e, now + 1) /\ paused)

LEMMA FirstGear ==
  ASSUME now \in Nat, Gears
  PROVE  Wrapped(1) = now % FirstSize
<1>1. 1 \in Gear /\ Period[1] = 1 /\ Size(1) = FirstSize
  BY Periods, WheelConstants DEF Size
<1>2. PICK c \in Nat : Wrapped(1) = c % FirstSize /\ now <= 1 * c /\ 1 * c < now + 1
  BY <1>1 DEF Gears, GearAt
<1>3. c = now
  BY <1>2
<1> QED
  BY <1>2, <1>3

LEMMA NotDue ==
  ASSUME now \in Nat, NEW e \in Nat, e > now, NEW q, Ahead(q, e, now)
  PROVE  q # <<1, now % FirstSize>>
<1>1. FirstSize \in Nat \ {0}
  BY TimerAssumption
<1>2. ASSUME Low(q, e, now), q = <<1, now % FirstSize>> PROVE FALSE
  <2>1. e % FirstSize = now % FirstSize /\ e < now + FirstSize
    BY <1>2 DEF Low
  <2>2. PICK n \in Nat : n = now
    OBVIOUS
  <2>3. n <= e /\ e < n + FirstSize /\ n % FirstSize = e % FirstSize /\ n # e
    BY <2>1, <2>2
  <2> QED
    BY <1>1, <2>3, SameRemainder
<1>3. High(q, e, now) => q # <<1, now % FirstSize>>
  BY DEF High
<1> QED
  BY <1>2, <1>3 DEF Ahead

LEMMA TickPlaces ==
  ASSUME now \in Nat, Gears, DOMAIN place = Timer, OnJiffiesUpdate,
         NEW t \in Timer, NEW e \in Nat, e = expire[t], Placed(t)
  PROVE  Ticked(place[t], e, place'[t], stat[t] = "paused")
<1> DEFINE due == <<1, now % FirstSize>>
           paused == stat[t] = "paused"
<1>1. PICK p, d, q : p = place[t] /\ d = Dealt[t] /\ q = place'[t]
  OBVIOUS
<1>2. d = IF \E g \in Turning : p = <<g, Wrapped(g)>> THEN FindTimerList(e) ELSE p
  BY <1>1 DEF Dealt
<1>3. q = IF d = due /\ ~paused THEN RunList ELSE d
  BY <1>1, FirstGear DEF OnJiffiesUpdate, MoveDue
<1>4. \/ p \in {RunList, NoList}
      \/ Ahead(p, e, now)
      \/ Stuck(p, e, now) /\ paused
  BY <1>1 DEF Placed
<1>5. /\ Turning \subseteq Gear /\ 1 \notin Turning
      /\ FirstSize \in Nat \ {0} /\ 1 \in Gear
  BY TimerAssumption, WheelConstants DEF Turning
<1>6. RunList # due /\ NoList # due
  BY <1>5, Lists
<1> HIDE DEF due, paused
<1>7. CASE p \in {RunList, NoList}
  <2>1. \A g \in Turning : p # <<g, Wrapped(g)>>
    BY <1>5, <1>7, Lists
  <2>2. q = p
    BY <1>2, <1>3, <1>6, <1>7, <2>1
  <2> QED
    BY <1>1, <1>7, <2>2, Lists DEF Ticked, paused
<1>8. CASE p = <<1, e % FirstSize>>
  <2>1. d = p /\ p \in Slots
    <3>1. \A g \in Turning : p # <<g, Wrapped(g)>>
      BY <1>5, <1>8
    <3>2. e % FirstSize \in 0 .. FirstSize - 1 /\ Size(1) = FirstSize
      BY <1>5, Divided DEF Size
    <3> QED
      BY <1>2, <1>5, <1>8, <3>1, <3>2, Lists
  <2>2. CASE Stuck(p, e, now) /\ paused
    <3>1. q = p /\ Stuck(q, e, now + 1) /\ e < now
      BY <1>3, <1>8, <2>1, <2>2 DEF Stuck
    <3> QED
      BY <1>1, <2>1, <2>2, <3>1, Lists DEF Ticked, paused
  <2>3. CASE Low(p, e, now) /\ e = now
    <3>1. p = due
      BY <1>8, <2>3 DEF due
    <3>2. Stuck(p, e, now + 1)
      BY <1>8, <2>3 DEF Stuck
    <3> QED
      BY <1>1, <1>3, <2>1, <2>3, <3>1, <3>2, Lists DEF Ticked, paused
  <2>4. CASE Low(p, e, now) /\ e # now
    <3>1. e > now /\ e < now + FirstSize
      BY <1>5, <2>4 DEF Low
    <3>2. p # due
      BY <2>4, <3>1, NotDue DEF Ahead, due
    <3>3. q = p /\ Low(q, e, now + 1)
      BY <1>3, <1>5, <1>8, <2>1, <3>1, <3>2 DEF Low
    <3> QED
      BY <1>1, <2>1, <3>1, <3>3, Lists DEF Ticked, Ahead, paused
  <2> QED
    BY <1>4, <1>7, <1>8, <2>2, <2>3, <2>4 DEF Ahead, High
<1>9. CASE High(p, e, now)
  <2>1. PICK g \in Gear, k \in Nat : /\ g # 1 /\ p = <<g, k % Size(g)>>
                                     /\ now <= Period[g] * k /\ Period[g] * k <= e
    BY <1>9 DEF High
  <2>2. PICK P \in Nat \ {0} : P = Period[g]
    BY Periods
  <2>3. p \in Slots /\ e >= now
    <3>1. P * k \in Nat
      OBVIOUS
    <3> QED
      BY <1>9, <2>1, <2>2, <3>1, InSlots DEF Ahead
  <2>4. CASE \E h \in Turning : p = <<h, Wrapped(h)>>
    <3>1. d = FindTimerList(e)
      BY <1>2, <2>4
    <3>2. CASE e = now
      <4>1. q = RunList
        BY <1>3, <1>6, <3>1, <3>2, Scheduled
      <4> QED
        BY <1>1, <2>3, <3>2, <4>1, Lists DEF Ticked, paused
    <3>3. CASE e # now
      <4>1. e > now
        BY <2>3, <3>3
      <4>2. Ahead(d, e, now) /\ Ahead(d, e, now + 1) /\ d \in Slots
        BY <3>1, <4>1, Scheduled
      <4>3. q = d
        BY <1>3, <4>1, <4>2, NotDue DEF due
      <4> QED
        BY <1>1, <2>3, <3>3, <4>2, <4>3, Lists DEF Ticked, paused
    <3> QED
      BY <3>2, <3>3
  <2>5. CASE ~\E h \in Turning : p = <<h, Wrapped(h)>>
    <3>1. q = p
      BY <1>2, <1>3, <2>1, <2>5 DEF due
    <3>2. now # P * k
      <4> SUFFICES ASSUME now = P * k PROVE FALSE
        OBVIOUS
      <4>1. Multiple(now, Period[g])
        BY <2>2 DEF Multiple
      <4>2. g \in Turning
        BY <2>1, <4>1, TurningGears
      <4>3. PICK c \in Nat : Wrapped(g) = c % Size(g) /\ now <= P * c /\ P * c < now + P
        BY <2>2 DEF Gears, GearAt
      <4>4. c = k
        <5>1. now <= P * k /\ P * k < now + P
          OBVIOUS
        <5> QED
          BY <4>3, <5>1, OneMultiple
      <4> QED
        BY <2>1, <2>5, <4>2, <4>3, <4>4
    <3>3. now + 1 <= P * k /\ now < e
      <4>1. P * k \in Nat /\ now <= P * k /\ P * k <= e
        BY <2>1, <2>2
      <4> QED
        BY <3>2, <4>1
    <3>4. High(q, e, now + 1)
      BY <2>1, <2>2, <3>1, <3>3 DEF High
    <3> QED
      BY <1>1, <2>3, <3>1, <3>3, <3>4, Lists DEF Ticked, Ahead, paused
  <2> QED
    BY <2>4, <2>5
<1> QED
  BY <1>4, <1>7, <1>8, <1>9 DEF Ahead, Low, Stuck

-----------------------------------------------------------------------------
\* The invariant.

\* What is still to be called, and what has been, make up what was asked for.
Counted(t) ==
  /\ asked[t] \in Nat \cup {-1}
  /\ stat[t] = "free" => fired[t] = 0
  /\ stat[t] # "free" /\ asked[t] <= 0 => count[t] = asked[t] /\ fired[t] = 0
  /\ stat[t] # "free" /\ asked[t] > 0 =>
       /\ count[t] >= 1
       /\ polled = t /\ ~fresh[t] => fired[t] + count[t] = asked[t] + 1
       /\ ~(polled = t /\ ~fresh[t]) => fired[t] + count[t] = asked[t]

TimerInv(t) == Placed(t) /\ pausedAt[t] <= now /\ Counted(t)

\* The inductive invariant.
WheelInv == WheelTypeOK /\ HeldOnce /\ Gears /\ \A t \in Timer : TimerInv(t)

LEMMA WheelTypes ==
  ASSUME WheelTypeOK
  PROVE  /\ now \in Nat /\ expire \in [Timer -> Nat] /\ DOMAIN place = Timer
         /\ nowSlot \in [Gear -> Nat] /\ \A g \in Gear : nowSlot[g] <= Size(g)
<1>1. now \in 0 .. MaxNow
  BY DEF WheelTypeOK
<1> QED
  BY <1>1, TimerAssumption DEF WheelTypeOK

LEMMA WheelInvInit == WheelInit => WheelInv
<1> SUFFICES ASSUME WheelInit PROVE WheelInv
  OBVIOUS
<1>1. 0 \in 0 .. MaxNow /\ \A g \in Gear : 0 <= Size(g)
  BY TimerAssumption, WheelConstants
<1>2. WheelTypeOK
  BY <1>1 DEF WheelInit, WheelTypeOK
<1>3. HeldOnce
  BY WheelConstants DEF WheelInit, HeldOnce
<1>4. ASSUME NEW g \in Gear PROVE GearAt(g)
  <2>1. PICK P \in Nat \ {0}, S \in Nat \ {0} : P = Period[g] /\ S = Size(g)
    BY Periods, WheelConstants
  <2>2. Wrapped(g) = 0
    BY <2>1 DEF Wrapped, WheelInit
  <2>3. 0 % S = 0
    <3>1. (S * 0 + 0) % S = 0 /\ S * 0 + 0 = 0
      BY Remainder
    <3> QED
      BY <3>1
  <2>4. now = 0 /\ P * 0 = 0
    BY DEF WheelInit
  <2> QED
    BY <2>1, <2>2, <2>3, <2>4 DEF GearAt
<1>5. \A t \in Timer : TimerInv(t)
  BY DEF WheelInit, TimerInv, Placed, Counted
<1> QED
  BY <1>2, <1>3, <1>4, <1>5 DEF WheelInv, Gears

\* schedule, for timer t and the deadline e.
PutIn(t, e) == /\ expire' = [expire EXCEPT ![t] = e]
               /\ place' = [place EXCEPT ![t] = FindTimerList(e)]
               /\ UNCHANGED <<now, nowSlot>>

LEMMA PutInPlaces ==
  ASSUME WheelInv, NEW t \in Timer, NEW e \in Nat, PutIn(t, e),
         \A u \in Timer : u # t => stat'[u] = stat[u]
  PROVE  /\ expire' \in [Timer -> Nat] /\ place' \in [Timer -> Slots \cup {RunList, NoList}]
         /\ place'[t] # NoList
         /\ \A u \in Timer : u # t => place'[u] = place[u]
         /\ \A u \in Timer : Placed(u)'
         /\ Gears'
<1> USE DEF WheelInv
<1>1. /\ now \in Nat /\ now' = now /\ nowSlot' = nowSlot
      /\ expire' = [expire EXCEPT ![t] = e] /\ place' = [place EXCEPT ![t] = FindTimerList(e)]
      /\ expire \in [Timer -> Nat] /\ place \in [Timer -> Slots \cup {RunList, NoList}]
  BY WheelTypes DEF PutIn, WheelTypeOK
<1>2. /\ FindTimerList(e) \in Slots \cup {RunList}
      /\ FindTimerList(e) = RunList \/ Ahead(FindTimerList(e), e, now)
  BY <1>1, Scheduled
<1>3. expire' \in [Timer -> Nat] /\ place' \in [Timer -> Slots \cup {RunList, NoList}]
  BY <1>1, <1>2
<1>4. place'[t] = FindTimerList(e) /\ expire'[t] = e
      /\ \A u \in Timer : u # t => place'[u] = place[u] /\ expire'[u] = expire[u]
  BY <1>1
<1>5. place'[t] # NoList
  BY <1>2, <1>4, Lists
<1>6. ASSUME NEW u \in Timer PROVE Placed(u)'
  <2>1. CASE u = t
    BY <1>1, <1>2, <1>4, <2>1 DEF Placed, Ahead, High, Low
  <2>2. CASE u # t
    BY <1>1, <1>4, <2>2 DEF TimerInv, Placed, Ahead, High, Low, Stuck
  <2> QED
    BY <2>1, <2>2
<1>7. Gears'
  BY <1>1 DEF Gears, GearAt, Wrapped, Size
<1> QED
  BY <1>3, <1>4, <1>5, <1>6, <1>7

\* The actions, one by one.

LEMMA OnJiffiesUpdateKeeps ==
  ASSUME WheelInv, OnJiffiesUpdate
  PROVE  WheelInv'
<1> USE DEF WheelInv
<1>1. /\ now \in Nat /\ now' = now + 1 /\ polled = NoTimer /\ now' \in 0 .. MaxNow
      /\ UNCHANGED <<stat, polled, dataVars>>
  BY TimerAssumption DEF OnJiffiesUpdate, WheelTypeOK
<1>2. ASSUME NEW t \in Timer PROVE Ticked(place[t], expire[t], place'[t], stat[t] = "paused")
  BY <1>1, TickPlaces, WheelTypes DEF TimerInv
<1>3. DOMAIN place' = Timer /\ place' = [t \in Timer |-> place'[t]]
  BY DEF OnJiffiesUpdate, MoveDue
<1>4. /\ place' \in [Timer -> Slots \cup {RunList, NoList}]
      /\ \A t \in Timer : place'[t] = NoList <=> place[t] = NoList
  <2>1. ASSUME NEW t \in Timer
        PROVE  /\ place'[t] \in Slots \cup {RunList, NoList}
               /\ place'[t] = NoList <=> place[t] = NoList
    BY <1>2, Lists DEF Ticked, WheelTypeOK
  <2> QED
    BY <1>3, <2>1
<1>5. /\ nowSlot' \in [Gear -> Nat] /\ \A g \in Gear : nowSlot'[g] <= Size(g)
      /\ Gears'
  BY <1>1, GearsTurn, WheelTypes
<1>6. WheelTypeOK'
  BY <1>1, <1>4, <1>5 DEF WheelTypeOK, dataVars, Size
<1>7. HeldOnce'
  BY <1>1, <1>4 DEF HeldOnce
<1>8. ASSUME NEW t \in Timer PROVE TimerInv(t)'
  <2>1. Placed(t)'
    <3>1. place'[t] \in Slots => \/ Ahead(place'[t], expire[t], now + 1)
                                 \/ Stuck(place'[t], expire[t], now + 1) /\ stat[t] = "paused"
      BY <1>2 DEF Ticked
    <3>2. PICK p, e, n : p = place'[t] /\ e = expire[t] /\ e = expire'[t] /\ n = now + 1 /\ n = now'
      BY <1>1 DEF dataVars
    <3>3. p \in {RunList, NoList} \/ Ahead(p, e, n) \/ (Stuck(p, e, n) /\ stat'[t] = "paused")
      BY <1>1, <1>4, <3>1, <3>2
    <3> QED
      BY <3>2, <3>3 DEF Placed, Ahead, High, Low, Stuck
  <2>2. pausedAt'[t] <= now'
    BY <1>1 DEF TimerInv, WheelTypeOK, dataVars
  <2>3. Counted(t)'
    BY <1>1 DEF TimerInv, Counted, dataVars
  <2> QED
    BY <2>1, <2>2, <2>3 DEF TimerInv
<1> QED
  BY <1>5, <1>6, <1>7, <1>8

LEMMA StartTimerKeeps ==
  ASSUME WheelInv, NEW t \in Timer, NEW delay \in Delay, NEW cnt \in Count, NEW iv \in Interval,
         StartTimer(t, delay, cnt, iv)
  PROVE  WheelInv'
<1> USE DEF WheelInv
<1>1. /\ stat[t] = "free" /\ stat' = [stat EXCEPT ![t] = "recreate"]
      /\ count' = [count EXCEPT ![t] = cnt] /\ interval' = [interval EXCEPT ![t] = iv]
      /\ asked' = [asked EXCEPT ![t] = cnt]
      /\ UNCHANGED <<now, nowSlot, polled, pausedAt, fresh, fired>>
  BY DEF StartTimer
<1>2. PICK e \in Nat : e = now + delay /\ PutIn(t, e)
  <2>1. now \in Nat /\ delay \in Nat
    BY WheelTypes, TimerAssumption
  <2>2. PICK e \in Nat : e = now + delay
    BY <2>1
  <2>3. PutIn(t, e)
    BY <1>1, <2>2 DEF StartTimer, PutIn
  <2> QED
    BY <2>2, <2>3
<1>3. stat \in [Timer -> {"free", "recreate", "paused", "destory"}]
  BY DEF WheelTypeOK
<1>4. \A u \in Timer : u # t => stat'[u] = stat[u]
  BY <1>1, <1>3
<1>5. /\ expire' \in [Timer -> Nat] /\ place' \in [Timer -> Slots \cup {RunList, NoList}]
      /\ place'[t] # NoList
      /\ \A u \in Timer : u # t => place'[u] = place[u]
      /\ \A u \in Timer : Placed(u)'
      /\ Gears'
  BY <1>2, <1>4, PutInPlaces
<1>6. cnt \in Nat \cup {-1} /\ cnt \in Int /\ iv \in Nat
  BY TimerAssumption
<1>7. WheelTypeOK'
  BY <1>1, <1>5, <1>6 DEF WheelTypeOK, Size
<1>8. HeldOnce'
  BY <1>1, <1>3, <1>5 DEF HeldOnce
<1>9. ASSUME NEW u \in Timer PROVE TimerInv(u)'
  <2>1. pausedAt'[u] <= now'
    BY <1>1 DEF TimerInv
  <2>2. Counted(u)'
    <3>1. CASE u = t
      <4>1. polled # t /\ fired'[t] = 0 /\ count'[t] = cnt /\ asked'[t] = cnt /\ stat'[t] = "recreate"
            /\ polled' = polled
        BY <1>1 DEF HeldOnce, TimerInv, Counted, WheelTypeOK
      <4> QED
        BY <1>6, <3>1, <4>1 DEF Counted
    <3>2. CASE u # t
      BY <1>1, <3>2 DEF TimerInv, Counted, WheelTypeOK
    <3> QED
      BY <3>1, <3>2
  <2> QED
    BY <1>5, <2>1, <2>2 DEF TimerInv
<1> QED
  BY <1>5, <1>7, <1>8, <1>9

\* What leaves the lists, the clock and the gears alone.
LEMMA OthersPlaced ==
  ASSUME WheelInv, NEW t \in Timer, UNCHANGED <<now, nowSlot>>,
         \A u \in Timer : u # t => place'[u] = place[u] /\ expire'[u] = expire[u]
                                                       /\ stat'[u] = stat[u],
         \/ place'[t] \in {RunList, NoList}
         \/ place'[t] = place[t] /\ expire'[t] = expire[t] /\ stat'[t] \in {stat[t], "paused"}
  PROVE  (\A u \in Timer : Placed(u)') /\ Gears'
<1> USE DEF WheelInv
<1>1. ASSUME NEW u \in Timer PROVE Placed(u)'
  <2>1. Placed(u) /\ now' = now
    BY DEF TimerInv
  <2>2. \/ place'[u] \in {RunList, NoList}
        \/ place'[u] = place[u] /\ expire'[u] = expire[u] /\ (stat[u] = "paused" => stat'[u] = "paused")
    OBVIOUS
  <2> QED
    BY <2>1, <2>2 DEF Placed, Ahead, High, Low, Stuck
<1>2. Gears'
  BY DEF Gears, GearAt, Wrapped, Size
<1> QED
  BY <1>1, <1>2

LEMMA ReleaseKeeps ==
  ASSUME WheelInv, NEW t \in Timer, Release(t), polled' \in {polled, NoTimer}, polled' # t,
         \A u \in Timer : u # t => (polled' = u <=> polled = u)
  PROVE  WheelInv'
<1> USE DEF WheelInv
<1>1. /\ place' = [place EXCEPT ![t] = NoList] /\ stat' = [stat EXCEPT ![t] = "free"]
      /\ expire' = [expire EXCEPT ![t] = 0] /\ pausedAt' = [pausedAt EXCEPT ![t] = 0]
      /\ fresh' = [fresh EXCEPT ![t] = TRUE] /\ count' = [count EXCEPT ![t] = 0]
      /\ interval' = [interval EXCEPT ![t] = 0] /\ asked' = [asked EXCEPT ![t] = 0]
      /\ fired' = [fired EXCEPT ![t] = 0] /\ UNCHANGED <<now, nowSlot>>
  BY DEF Release
<1>2. WheelTypeOK'
  BY <1>1 DEF WheelTypeOK, Size
<1>3. HeldOnce'
  BY <1>1 DEF HeldOnce, WheelTypeOK
<1>4. (\A u \in Timer : Placed(u)') /\ Gears'
  <2>1. /\ \A u \in Timer : u # t => place'[u] = place[u] /\ expire'[u] = expire[u]
                                                         /\ stat'[u] = stat[u]
        /\ place'[t] \in {RunList, NoList}
    BY <1>1 DEF WheelTypeOK
  <2> QED
    BY <1>1, <2>1, OthersPlaced
<1>5. ASSUME NEW u \in Timer PROVE TimerInv(u)'
  <2>1. pausedAt'[u] <= now'
    BY <1>1, WheelTypes DEF TimerInv, WheelTypeOK
  <2>2. Counted(u)'
    <3>1. CASE u = t
      BY <1>1, <3>1 DEF Counted, WheelTypeOK
    <3>2. CASE u # t
      BY <1>1, <3>2 DEF TimerInv, Counted, WheelTypeOK
    <3> QED
      BY <3>1, <3>2
  <2> QED
    BY <1>4, <2>1, <2>2 DEF TimerInv
<1> QED
  BY <1>2, <1>3, <1>4, <1>5

LEMMA KillTimerKeeps ==
  ASSUME WheelInv, NEW t \in Timer, KillTimer(t)
  PROVE  WheelInv'
<1> USE DEF WheelInv
<1>1. CASE t # polled /\ Release(t) /\ UNCHANGED polled
  BY <1>1, ReleaseKeeps
<1>2. CASE /\ t = polled /\ stat' = [stat EXCEPT ![t] = "destory"]
           /\ UNCHANGED <<now, nowSlot, place, polled, dataVars>>
  <2>1. stat[t] \in {"recreate", "paused"}
    BY DEF KillTimer, Live
  <2>2. place[t] = NoList
    BY <1>2, <2>1 DEF HeldOnce
  <2>3. stat' \in [Timer -> {"free", "recreate", "paused", "destory"}]
        /\ stat'[t] = "destory" /\ \A u \in Timer : u # t => stat'[u] = stat[u]
    BY <1>2 DEF WheelTypeOK
  <2>4. WheelTypeOK'
    BY <1>2, <2>3 DEF WheelTypeOK, Size, dataVars
  <2>5. HeldOnce'
    BY <1>2, <2>2, <2>3 DEF HeldOnce
  <2>6. (\A u \in Timer : Placed(u)') /\ Gears'
    <3>1. /\ \A u \in Timer : u # t => place'[u] = place[u] /\ expire'[u] = expire[u]
                                                           /\ stat'[u] = stat[u]
          /\ place'[t] \in {RunList, NoList}
      BY <1>2, <2>2, <2>3 DEF dataVars
    <3> QED
      BY <1>2, <3>1, OthersPlaced
  <2>7. ASSUME NEW u \in Timer PROVE TimerInv(u)'
    <3>1. stat'[u] = "free" <=> stat[u] = "free"
      BY <2>1, <2>3
    <3> QED
      BY <1>2, <2>6, <3>1 DEF TimerInv, Counted, dataVars
  <2> QED
    BY <2>4, <2>5, <2>6, <2>7
<1> QED
  BY <1>1, <1>2 DEF KillTimer

LEMMA PauseTimerKeeps ==
  ASSUME WheelInv, NEW t \in Timer, PauseTimer(t)
  PROVE  WheelInv'
<1> USE DEF WheelInv
<1>1. /\ stat[t] \in {"recreate", "paused"}
      /\ stat' = [stat EXCEPT ![t] = "paused"] /\ pausedAt' = [pausedAt EXCEPT ![t] = now]
      /\ UNCHANGED <<now, nowSlot, place, polled, expire, fresh, count, interval, asked, fired>>
  BY DEF PauseTimer, Live
<1>2. now \in Nat
  BY WheelTypes
<1>3. stat' \in [Timer -> {"free", "recreate", "paused", "destory"}]
      /\ stat'[t] = "paused" /\ \A u \in Timer : u # t => stat'[u] = stat[u]
  BY <1>1 DEF WheelTypeOK
<1>4. WheelTypeOK'
  BY <1>1, <1>2, <1>3 DEF WheelTypeOK, Size
<1>5. \A u \in Timer : stat'[u] = "free" <=> stat[u] = "free"
  BY <1>1, <1>3
<1>6. HeldOnce'
  BY <1>1, <1>5 DEF HeldOnce
<1>7. (\A u \in Timer : Placed(u)') /\ Gears'
  BY <1>1, <1>3, OthersPlaced
<1>8. ASSUME NEW u \in Timer PROVE TimerInv(u)'
  <2>1. pausedAt'[u] <= now'
    BY <1>1, <1>2 DEF TimerInv, WheelTypeOK
  <2> QED
    BY <1>1, <1>5, <1>7, <2>1 DEF TimerInv, Counted
<1> QED
  BY <1>4, <1>6, <1>7, <1>8

LEMMA ResumeTimerKeeps ==
  ASSUME WheelInv, NEW t \in Timer, ResumeTimer(t)
  PROVE  WheelInv'
<1> USE DEF WheelInv
<1>1. /\ stat[t] = "paused" /\ t # polled /\ stat' = [stat EXCEPT ![t] = "recreate"]
      /\ UNCHANGED <<now, nowSlot, polled, pausedAt, fresh, count, interval, asked, fired>>
  BY DEF ResumeTimer
<1>2. PICK e \in Nat : e = now + expire[t] - pausedAt[t] /\ PutIn(t, e)
  <2>1. now \in Nat /\ expire[t] \in Nat /\ pausedAt[t] \in Nat /\ pausedAt[t] <= now
    BY WheelTypes DEF WheelTypeOK, TimerInv
  <2>2. PICK e \in Nat : e = now + expire[t] - pausedAt[t]
    BY <2>1
  <2>3. PutIn(t, e)
    BY <1>1, <2>2 DEF ResumeTimer, PutIn
  <2> QED
    BY <2>2, <2>3
<1>3. stat' \in [Timer -> {"free", "recreate", "paused", "destory"}]
      /\ stat'[t] = "recreate" /\ \A u \in Timer : u # t => stat'[u] = stat[u]
  BY <1>1 DEF WheelTypeOK
<1>4. /\ expire' \in [Timer -> Nat] /\ place' \in [Timer -> Slots \cup {RunList, NoList}]
      /\ place'[t] # NoList
      /\ \A u \in Timer : u # t => place'[u] = place[u]
      /\ \A u \in Timer : Placed(u)'
      /\ Gears'
  BY <1>2, <1>3, PutInPlaces
<1>5. WheelTypeOK'
  BY <1>1, <1>3, <1>4 DEF WheelTypeOK, Size
<1>6. HeldOnce'
  BY <1>1, <1>3, <1>4 DEF HeldOnce
<1>7. \A u \in Timer : stat'[u] = "free" <=> stat[u] = "free"
  BY <1>1, <1>3
<1>8. ASSUME NEW u \in Timer PROVE TimerInv(u)'
  BY <1>1, <1>4, <1>7 DEF TimerInv, Counted
<1> QED
  BY <1>4, <1>5, <1>6, <1>8

LEMMA PollTimerKeeps ==
  ASSUME WheelInv, NEW t \in Timer, PollTimer(t)
  PROVE  WheelInv'
<1> USE DEF WheelInv
<1>1. /\ polled = NoTimer /\ place[t] = RunList /\ polled' = t
      /\ place' = [place EXCEPT ![t] = NoList]
      /\ UNCHANGED <<now, nowSlot, stat, expire, pausedAt, fresh, count, interval, asked>>
  BY DEF PollTimer
<1>2. PICK more \in BOOLEAN : more <=> ~fresh[t] /\ count[t] > 0
  OBVIOUS
<1>3. fired' = [fired EXCEPT ![t] = IF more THEN fired[t] + 1 ELSE fired[t]]
  BY <1>2 DEF PollTimer
<1>4. stat[t] # "free" /\ \A u \in Timer : polled # u
  BY <1>1, Lists, WheelConstants DEF HeldOnce
<1>5. /\ fired' \in [Timer -> Nat] /\ fired'[t] = (IF more THEN fired[t] + 1 ELSE fired[t])
      /\ \A u \in Timer : u # t => fired'[u] = fired[u]
  BY <1>3 DEF WheelTypeOK
<1>6. /\ place' \in [Timer -> Slots \cup {RunList, NoList}]
      /\ place'[t] = NoList /\ \A u \in Timer : u # t => place'[u] = place[u]
  BY <1>1 DEF WheelTypeOK
<1>7. WheelTypeOK'
  BY <1>1, <1>5, <1>6 DEF WheelTypeOK, Size
<1>8. HeldOnce'
  BY <1>1, <1>4, <1>6 DEF HeldOnce
<1>9. (\A u \in Timer : Placed(u)') /\ Gears'
  BY <1>1, <1>6, OthersPlaced
<1>10. ASSUME NEW u \in Timer PROVE TimerInv(u)'
  <2>1. pausedAt'[u] <= now'
    BY <1>1 DEF TimerInv
  <2>2. Counted(u)'
    <3>1. CASE u = t
      <4>1. /\ stat'[t] # "free" /\ asked'[t] = asked[t] /\ count'[t] = count[t]
            /\ asked[t] \in Nat \cup {-1} /\ count[t] \in Int /\ fired[t] \in Nat
            /\ asked[t] <= 0 => count[t] = asked[t] /\ fired[t] = 0
            /\ asked[t] > 0 => count[t] >= 1 /\ fired[t] + count[t] = asked[t]
            /\ fresh'[t] = fresh[t]
        BY <1>1, <1>4 DEF TimerInv, Counted, WheelTypeOK
      <4>2. CASE more
        <5>1. ~fresh[t] /\ asked[t] > 0
          BY <1>2, <4>1, <4>2
        <5>2. fired'[t] + count'[t] = asked'[t] + 1
          BY <1>5, <4>1, <4>2, <5>1
        <5> QED
          BY <1>1, <3>1, <4>1, <5>1, <5>2 DEF Counted
      <4>3. CASE ~more
        <5>1. fired'[t] = fired[t] /\ (asked[t] > 0 => fresh[t])
          BY <1>2, <1>5, <4>1, <4>3
        <5> QED
          BY <1>1, <3>1, <4>1, <5>1 DEF Counted
      <4> QED
        BY <4>2, <4>3
    <3>2. CASE u # t
      <4>1. Counted(u) /\ fired'[u] = fired[u] /\ polled # u /\ polled' # u
        BY <1>1, <1>4, <1>5, <3>2 DEF TimerInv
      <4> QED
        BY <1>1, <4>1 DEF Counted
    <3> QED
      BY <3>1, <3>2
  <2> QED
    BY <1>9, <2>1, <2>2 DEF TimerInv
<1> QED
  BY <1>7, <1>8, <1>9, <1>10

\* reCreateTimer's deadline is one.
LEMMA Adjusted ==
  ASSUME now \in Nat, NEW e \in Nat, NEW iv \in Nat
  PROVE  AdjustExpireTime(e, iv) \in Nat
<1>1. CASE iv > 0 /\ now - e > iv
  <2>1. PICK late \in Nat, n \in Nat \ {0} : late = now - e /\ n = iv
    BY <1>1
  <2>2. late \div n \in Nat
    BY Divided
  <2> QED
    BY <1>1, <2>1, <2>2 DEF AdjustExpireTime
<1> QED
  BY <1>1 DEF AdjustExpireTime

\* A round that does not end timer t puts it in again.
LEMMA PolledAgain ==
  ASSUME WheelInv, NEW t \in Timer, ReCreateTimer(t), UNCHANGED <<now, nowSlot>>
  PROVE  \E e \in Nat : PutIn(t, e)
<1>1. now \in Nat /\ expire[t] \in Nat /\ interval[t] \in Nat
  BY WheelTypes DEF WheelInv, WheelTypeOK
<1>2. PICK e0 \in Nat : e0 = expire[t] + interval[t]
  BY <1>1
<1>3. PICK e \in Nat : e = AdjustExpireTime(e0, interval[t])
  BY <1>1, Adjusted
<1>4. PutIn(t, e)
  BY <1>2, <1>3 DEF ReCreateTimer, PutIn
<1> QED
  BY <1>4

LEMMA PolledKeeps ==
  ASSUME WheelInv, NEW t \in Timer, Polled(t)
  PROVE  WheelInv'
<1> USE DEF WheelInv
<1>1. polled = t /\ polled' = NoTimer /\ NoTimer \notin Timer
  BY WheelConstants DEF Polled
<1>2. CASE Release(t)
  BY <1>1, <1>2, ReleaseKeeps
<1>3. CASE /\ stat[t] # "destory" /\ (fresh[t] \/ count[t] \notin {0, 1})
           /\ ReCreateTimer(t)
           /\ fresh' = [fresh EXCEPT ![t] = FALSE]
           /\ count' = [count EXCEPT ![t] = IF ~fresh[t] /\ @ > 0 THEN @ - 1 ELSE @]
           /\ UNCHANGED <<now, nowSlot, stat, pausedAt, interval, asked, fired>>
  <2>1. PICK e \in Nat : PutIn(t, e)
    BY <1>1, <1>3, PolledAgain
  <2>2. /\ expire' \in [Timer -> Nat] /\ place' \in [Timer -> Slots \cup {RunList, NoList}]
        /\ place'[t] # NoList
        /\ \A u \in Timer : u # t => place'[u] = place[u]
        /\ \A u \in Timer : Placed(u)'
        /\ Gears'
    BY <1>3, <2>1, PutInPlaces
  <2>3. PICK down \in BOOLEAN : down <=> ~fresh[t] /\ count[t] > 0
    OBVIOUS
  <2>4. count' = [count EXCEPT ![t] = IF down THEN count[t] - 1 ELSE count[t]]
    BY <1>3, <2>3
  <2>5. /\ count' \in [Timer -> Int] /\ count'[t] = (IF down THEN count[t] - 1 ELSE count[t])
        /\ \A u \in Timer : u # t => count'[u] = count[u]
    BY <2>4 DEF WheelTypeOK
  <2>6. /\ fresh' \in [Timer -> BOOLEAN] /\ fresh'[t] = FALSE
        /\ \A u \in Timer : u # t => fresh'[u] = fresh[u]
    BY <1>3 DEF WheelTypeOK
  <2>7. WheelTypeOK'
    BY <1>1, <1>3, <2>2, <2>5, <2>6 DEF WheelTypeOK, Size
  <2>8. stat[t] # "free"
    BY <1>1 DEF HeldOnce
  <2>9. HeldOnce'
    BY <1>1, <1>3, <2>2, <2>8 DEF HeldOnce
  <2>10. ASSUME NEW u \in Timer PROVE TimerInv(u)'
    <3>1. pausedAt'[u] <= now'
      BY <1>3 DEF TimerInv
    <3>2. Counted(u)'
      <4>1. CASE u = t
        <5>1. /\ stat'[t] # "free" /\ asked'[t] = asked[t] /\ fired'[t] = fired[t]
              /\ polled' # t
              /\ asked[t] \in Nat \cup {-1} /\ count[t] \in Int /\ fired[t] \in Nat
              /\ asked[t] <= 0 => count[t] = asked[t] /\ fired[t] = 0
              /\ asked[t] > 0 => /\ count[t] >= 1
                                 /\ ~fresh[t] => fired[t] + count[t] = asked[t] + 1
                                 /\ fresh[t] => fired[t] + count[t] = asked[t]
          BY <1>1, <1>3, <2>8 DEF TimerInv, Counted, WheelTypeOK
        <5>2. asked[t] > 0 => count'[t] >= 1 /\ fired[t] + count'[t] = asked[t]
          BY <1>3, <2>3, <2>5, <5>1
        <5>3. asked[t] <= 0 => count'[t] = asked[t]
          BY <2>3, <2>5, <5>1
        <5> QED
          BY <4>1, <5>1, <5>2, <5>3 DEF Counted
      <4>2. CASE u # t
        BY <1>1, <1>3, <2>5, <2>6, <4>2 DEF TimerInv, Counted
      <4> QED
        BY <4>1, <4>2
    <3> QED
      BY <2>2, <3>1, <3>2 DEF TimerInv
  <2> QED
    BY <2>2, <2>7, <2>9, <2>10
<1> QED
  BY <1>2, <1>3 DEF Polled

LEMMA WheelInvNext == WheelInv /\ [WheelNext]_wheelVars => WheelInv'
<1> SUFFICES ASSUME WheelInv, [WheelNext]_wheelVars PROVE WheelInv'
  OBVIOUS
<1>1. CASE OnJiffiesUpdate
  BY <1>1, OnJiffiesUpdateKeeps
<1>2. ASSUME NEW t \in Timer, NEW d \in Delay, NEW c \in Count, NEW iv \in Interval,
             StartTimer(t, d, c, iv)
      PROVE  WheelInv'
  BY <1>2, StartTimerKeeps
<1>3. ASSUME NEW t \in Timer, KillTimer(t) PROVE WheelInv'
  BY <1>3, KillTimerKeeps
<1>4. ASSUME NEW t \in Timer, PauseTimer(t) PROVE WheelInv'
  BY <1>4, PauseTimerKeeps
<1>5. ASSUME NEW t \in Timer, ResumeTimer(t) PROVE WheelInv'
  BY <1>5, ResumeTimerKeeps
<1>6. ASSUME NEW t \in Timer, PollTimer(t) PROVE WheelInv'
  BY <1>6, PollTimerKeeps
<1>7. ASSUME NEW t \in Timer, Polled(t) PROVE WheelInv'
  BY <1>7, PolledKeeps
<1>8. CASE UNCHANGED wheelVars
  BY <1>8 DEF WheelInv, WheelTypeOK, HeldOnce, Gears, GearAt, Wrapped, TimerInv, Placed, Ahead,
              High, Low, Stuck, Counted, wheelVars, dataVars
<1> QED
  BY <1>1, <1>2, <1>3, <1>4, <1>5, <1>6, <1>7, <1>8 DEF WheelNext

-----------------------------------------------------------------------------
\* What is proved of the timer manager, for every number and size of gears and every set of
\* timers.

\* The inductive invariant: every timer is in the slot, or in the run list, in which the
\* gears will come to it in time; every gear stands at the next multiple of its period; and
\* the calls made and still to be made are as many as were asked for.
THEOREM WheelInvariant == WheelSpec => []WheelInv
BY WheelInvInit, WheelInvNext, PTL DEF WheelSpec

\* Type correctness: findTimerList never leaves a gear's slots.
THEOREM WheelTypeCorrect == WheelSpec => []WheelTypeOK
<1>1. WheelInv => WheelTypeOK
  BY DEF WheelInv
<1> QED
  BY <1>1, WheelInvariant, PTL

\* Whatever a callback kills, pauses, resumes or starts, a timer in use is in one list or
\* being polled, and one of the pool is in none (killTimer, process).
THEOREM WheelHoldsOnce == WheelSpec => []HeldOnce
<1>1. WheelInv => HeldOnce
  BY DEF WheelInv
<1> QED
  BY <1>1, WheelInvariant, PTL

LEMMA EndsWhenFired ==
  ASSUME WheelInv, WheelNext, NEW t \in Timer, polled = t, polled' # t, stat[t] # "destory"
  PROVE  (stat'[t] = "free") = (~fresh[t] /\ fired[t] = asked[t])
<1>1. Polled(t)
  <2>1. NoTimer # t
    BY WheelConstants
  <2> QED
    BY <2>1 DEF WheelNext, OnJiffiesUpdate, StartTimer, KillTimer, PauseTimer, ResumeTimer,
                PollTimer, Polled
<1>2. /\ stat[t] # "free" /\ fresh[t] \in BOOLEAN /\ DOMAIN stat = Timer
      /\ asked[t] \in Nat \cup {-1} /\ count[t] \in Int /\ fired[t] \in Nat
      /\ asked[t] <= 0 => count[t] = asked[t] /\ fired[t] = 0
      /\ asked[t] > 0 /\ ~fresh[t] => count[t] >= 1 /\ fired[t] + count[t] = asked[t] + 1
  BY DEF WheelInv, WheelTypeOK, HeldOnce, TimerInv, Counted
<1>3. ~fresh[t] => (count[t] \in {0, 1} <=> fired[t] = asked[t])
  BY <1>2
<1>4. CASE ~fresh[t] /\ count[t] \in {0, 1}
  <2>1. stat'[t] = "free"
    BY <1>1, <1>2, <1>4 DEF Polled, Release
  <2> QED
    BY <1>3, <1>4, <2>1
<1>5. CASE fresh[t] \/ count[t] \notin {0, 1}
  <2>1. stat' = stat
    BY <1>1, <1>2, <1>5 DEF Polled
  <2> QED
    BY <1>2, <1>3, <1>5, <2>1
<1> QED
  BY <1>4, <1>5

\* process() ends a timer by itself exactly when onTime has been called as often as the
\* start asked for (pollTimer).
THEOREM WheelFires == WheelSpec => FiresAsAsked
<1>1. WheelInv /\ [WheelNext]_wheelVars =>
        [\A t \in Timer : polled = t /\ polled' # t /\ stat[t] # "destory"
           => (stat'[t] = "free") = (~fresh[t] /\ fired[t] = asked[t])]_wheelVars
  BY EndsWhenFired
<1> QED
  BY <1>1, WheelInvariant, PTL DEF WheelSpec, FiresAsAsked

-----------------------------------------------------------------------------
\* The wheel implements the list of timers with their deadlines.

waitingTimers == {t \in Timer : place[t] \in Slots}
dueTimers == {t \in Timer : place[t] = RunList}
pausedTimers == {t \in Timer : stat[t] = "paused"}

\* What happens to one timer, in the terms of the list.
LEMMA OnlyPlace ==
  ASSUME NEW t \in Timer, DOMAIN place = Timer, DOMAIN place' = Timer,
         \A u \in Timer : u # t => place'[u] = place[u]
  PROVE  /\ place'[t] \in Slots => /\ waitingTimers' = waitingTimers \cup {t}
                                   /\ dueTimers' = dueTimers \ {t}
         /\ place'[t] = RunList => /\ waitingTimers' = waitingTimers \ {t}
                                   /\ dueTimers' = dueTimers \cup {t}
         /\ place'[t] = NoList => /\ waitingTimers' = waitingTimers \ {t}
                                  /\ dueTimers' = dueTimers \ {t}
<1>1. RunList \notin Slots /\ NoList \notin Slots /\ RunList # NoList
  BY Lists
<1>2. Slots' = Slots /\ RunList' = RunList
  BY DEF Slots, RunList, Size, Gear
<1>3. ASSUME NEW u \in Timer
      PROVE  /\ u \in waitingTimers <=> place[u] \in Slots
             /\ u \in waitingTimers' <=> place'[u] \in Slots
             /\ u \in dueTimers <=> place[u] = RunList
             /\ u \in dueTimers' <=> place'[u] = RunList
  BY <1>2 DEF waitingTimers, dueTimers
<1>4. /\ waitingTimers \subseteq Timer /\ waitingTimers' \subseteq Timer
      /\ dueTimers \subseteq Timer /\ dueTimers' \subseteq Timer
  BY DEF waitingTimers, dueTimers
<1>5. CASE place'[t] \in Slots
  BY <1>1, <1>3, <1>4, <1>5
<1>6. CASE place'[t] = RunList
  BY <1>1, <1>3, <1>4, <1>6
<1>7. CASE place'[t] = NoList
  BY <1>1, <1>3, <1>4, <1>7
<1> QED
  BY <1>1, <1>5, <1>6, <1>7

\* What the abstract list does, in the words of the wheel.
ListPutsIn(t) ==
  /\ expire' \in [Timer -> Int]
  /\ \A u \in Timer \ {t} : expire'[u] = expire[u]
  /\ IF expire'[t] <= now
     THEN waitingTimers' = waitingTimers \ {t} /\ dueTimers' = dueTimers \cup {t}
     ELSE waitingTimers' = waitingTimers \cup {t} /\ dueTimers' = dueTimers \ {t}
  /\ now' = now

LEMMA PutsIn ==
  ASSUME WheelInv, NEW t \in Timer, NEW e \in Nat, PutIn(t, e),
         \A u \in Timer : u # t => stat'[u] = stat[u]
  PROVE  ListPutsIn(t)
<1>1. /\ now \in Nat /\ expire \in [Timer -> Nat] /\ DOMAIN place = Timer
      /\ place' = [place EXCEPT ![t] = FindTimerList(e)]
      /\ expire' = [expire EXCEPT ![t] = e] /\ now' = now
  BY WheelTypes DEF WheelInv, PutIn
<1>2. /\ expire' \in [Timer -> Int] /\ expire'[t] = e
      /\ \A u \in Timer \ {t} : expire'[u] = expire[u]
      /\ DOMAIN place' = Timer /\ place'[t] = FindTimerList(e)
      /\ \A u \in Timer : u # t => place'[u] = place[u]
  BY <1>1
<1>3. IF e <= now THEN place'[t] = RunList ELSE place'[t] \in Slots
  BY <1>1, <1>2, Scheduled
<1>4. IF e <= now
      THEN waitingTimers' = waitingTimers \ {t} /\ dueTimers' = dueTimers \cup {t}
      ELSE waitingTimers' = waitingTimers \cup {t} /\ dueTimers' = dueTimers \ {t}
  <2>1. CASE e <= now
    BY <1>1, <1>2, <1>3, <2>1, OnlyPlace
  <2>2. CASE ~(e <= now)
    BY <1>1, <1>2, <1>3, <2>2, OnlyPlace
  <2> QED
    BY <2>1, <2>2
<1> QED
  BY <1>1, <1>2, <1>4 DEF ListPutsIn

\* Every step of the wheel is one of the list.
ListTick ==
  \E slipped \in SUBSET ({t \in waitingTimers : expire[t] = now} \cap pausedTimers) :
    LET up == ({t \in waitingTimers : expire[t] = now} \ pausedTimers) \cup slipped
    IN  /\ now' = now + 1
        /\ waitingTimers' = waitingTimers \ up
        /\ dueTimers' = dueTimers \cup up
        /\ expire' = expire /\ pausedTimers' = pausedTimers

LEMMA Ticks ==
  ASSUME WheelInv, OnJiffiesUpdate
  PROVE  ListTick
<1> DEFINE slipped == {t \in Timer : place[t] \in Slots /\ place'[t] = RunList /\ stat[t] = "paused"}
           reached == {t \in waitingTimers : expire[t] = now}
           up == (reached \ pausedTimers) \cup slipped
<1>1. /\ now \in Nat /\ now' = now + 1
      /\ UNCHANGED <<stat, polled, dataVars>> /\ expire' = expire
  BY WheelTypes DEF WheelInv, OnJiffiesUpdate, dataVars
<1>2. ASSUME NEW t \in Timer PROVE Ticked(place[t], expire[t], place'[t], stat[t] = "paused")
  BY <1>1, TickPlaces, WheelTypes DEF WheelInv, TimerInv
<1>3. Slots' = Slots /\ RunList' = RunList
  BY DEF Slots, RunList, Size, Gear
<1>4. ASSUME NEW t \in Timer
      PROVE  /\ t \in waitingTimers <=> place[t] \in Slots
             /\ t \in waitingTimers' <=> place'[t] \in Slots
             /\ t \in dueTimers <=> place[t] = RunList
             /\ t \in dueTimers' <=> place'[t] = RunList
             /\ t \in pausedTimers <=> stat[t] = "paused"
  BY <1>3 DEF waitingTimers, dueTimers, pausedTimers
<1>5. /\ waitingTimers \subseteq Timer /\ waitingTimers' \subseteq Timer
      /\ dueTimers \subseteq Timer /\ dueTimers' \subseteq Timer
  BY DEF waitingTimers, dueTimers
<1>6. pausedTimers' = pausedTimers
  BY <1>1 DEF pausedTimers
<1>7. slipped \in SUBSET (reached \cap pausedTimers)
  BY <1>2, <1>4, Lists DEF Ticked
<1>8. ASSUME NEW t \in Timer PROVE t \in up <=> place[t] \in Slots /\ place'[t] = RunList
  BY <1>2, <1>4, Lists DEF Ticked
<1>9. up \subseteq Timer
  BY <1>5
<1>10. ASSUME NEW t \in Timer
       PROVE  /\ t \in waitingTimers' <=> t \in waitingTimers /\ t \notin up
              /\ t \in dueTimers' <=> t \in dueTimers \/ t \in up
  BY <1>2, <1>4, <1>8, Lists DEF Ticked
<1> HIDE DEF up
<1>11. waitingTimers' = waitingTimers \ up /\ dueTimers' = dueTimers \cup up
  BY <1>5, <1>9, <1>10
<1> QED
  BY <1>1, <1>6, <1>7, <1>11 DEF ListTick, up

LEMMA TickMaps == ASSUME ListTick PROVE Queue!Tick
BY DEF ListTick, Queue!Tick, waitingTimers, dueTimers, pausedTimers

LEMMA PutsInMaps ==
  ASSUME NEW t \in Timer, ListPutsIn(t)
  PROVE  Queue!PutsIn(t)
BY DEF ListPutsIn, Queue!PutsIn, Queue!SetsDeadline, waitingTimers, dueTimers

LEMMA InsertMaps ==
  ASSUME NEW t \in Timer, ListPutsIn(t), place[t] = NoList, pausedTimers' = pausedTimers
  PROVE  Queue!Insert(t)
<1>1. t \notin waitingTimers \cup dueTimers
  BY Lists DEF waitingTimers, dueTimers
<1> QED
  BY <1>1, PutsInMaps DEF Queue!Insert, waitingTimers, dueTimers, pausedTimers

LEMMA CancelMaps ==
  ASSUME NEW t \in Timer, expire' \in [Timer -> Int],
         \A u \in Timer \ {t} : expire'[u] = expire[u],
         waitingTimers' = waitingTimers \ {t}, dueTimers' = dueTimers \ {t},
         pausedTimers' = pausedTimers \ {t}, now' = now
  PROVE  Queue!Cancel(t)
BY DEF Queue!Cancel, Queue!SetsDeadline, waitingTimers, dueTimers, pausedTimers

LEMMA ReleaseMaps ==
  ASSUME WheelInv, NEW t \in Timer, Release(t)
  PROVE  Queue!Cancel(t)
<1>1. /\ place' = [place EXCEPT ![t] = NoList] /\ stat' = [stat EXCEPT ![t] = "free"]
      /\ expire' = [expire EXCEPT ![t] = 0] /\ now' = now
      /\ expire \in [Timer -> Nat] /\ DOMAIN place = Timer /\ DOMAIN stat = Timer
  BY DEF Release, WheelInv, WheelTypeOK
<1>2. /\ expire' \in [Timer -> Int] /\ \A u \in Timer \ {t} : expire'[u] = expire[u]
      /\ DOMAIN place' = Timer /\ place'[t] = NoList
      /\ \A u \in Timer : u # t => place'[u] = place[u]
  BY <1>1
<1>3. waitingTimers' = waitingTimers \ {t} /\ dueTimers' = dueTimers \ {t}
  BY <1>1, <1>2, OnlyPlace
<1>4. pausedTimers' = pausedTimers \ {t}
  BY <1>1 DEF pausedTimers
<1> QED
  BY <1>1, <1>2, <1>3, <1>4, CancelMaps

LEMMA StartMaps ==
  ASSUME WheelInv, NEW t \in Timer, NEW delay \in Delay, NEW cnt, NEW iv,
         StartTimer(t, delay, cnt, iv)
  PROVE  Queue!Insert(t)
<1>1. /\ stat[t] = "free" /\ stat' = [stat EXCEPT ![t] = "recreate"] /\ UNCHANGED <<now, nowSlot>>
      /\ now \in Nat /\ delay \in Nat /\ DOMAIN stat = Timer /\ place[t] = NoList
  BY WheelTypes, TimerAssumption DEF StartTimer, WheelInv, WheelTypeOK, HeldOnce
<1>2. PICK e \in Nat : e = now + delay
  BY <1>1
<1>3. PutIn(t, e)
  BY <1>1, <1>2 DEF StartTimer, PutIn
<1>4. ListPutsIn(t)
  BY <1>1, <1>3, PutsIn
<1>5. pausedTimers' = pausedTimers
  BY <1>1 DEF pausedTimers
<1> QED
  BY <1>1, <1>4, <1>5, InsertMaps

LEMMA KillMaps ==
  ASSUME WheelInv, NEW t \in Timer, KillTimer(t)
  PROVE  Queue!Cancel(t)
<1>1. CASE Release(t)
  BY <1>1, ReleaseMaps
<1>2. CASE /\ t = polled /\ stat' = [stat EXCEPT ![t] = "destory"]
           /\ UNCHANGED <<now, nowSlot, place, polled, dataVars>>
  <2>1. place[t] = NoList /\ DOMAIN stat = Timer /\ DOMAIN place = Timer
        /\ expire \in [Timer -> Nat]
    BY <1>2 DEF KillTimer, Live, WheelInv, WheelTypeOK, HeldOnce
  <2>2. waitingTimers' = waitingTimers \ {t} /\ dueTimers' = dueTimers \ {t}
    BY <1>2, <2>1, OnlyPlace
  <2>3. pausedTimers' = pausedTimers \ {t}
    BY <1>2, <2>1 DEF pausedTimers
  <2>4. expire' \in [Timer -> Int] /\ \A u \in Timer \ {t} : expire'[u] = expire[u]
    BY <1>2, <2>1 DEF dataVars
  <2> QED
    BY <1>2, <2>2, <2>3, <2>4, CancelMaps
<1> QED
  BY <1>1, <1>2 DEF KillTimer

LEMMA PauseMaps ==
  ASSUME WheelInv, NEW t \in Timer, PauseTimer(t)
  PROVE  Queue!Suspend(t)
<1>1. /\ stat' = [stat EXCEPT ![t] = "paused"] /\ UNCHANGED <<now, place, expire>>
      /\ DOMAIN stat = Timer
  BY DEF PauseTimer, WheelInv, WheelTypeOK
<1>2. pausedTimers' = pausedTimers \cup {t}
  BY <1>1 DEF pausedTimers
<1> QED
  BY <1>1, <1>2 DEF Queue!Suspend, pausedTimers

LEMMA ResumeMaps ==
  ASSUME WheelInv, NEW t \in Timer, ResumeTimer(t)
  PROVE  Queue!Continue(t)
<1>1. /\ stat[t] = "paused" /\ stat' = [stat EXCEPT ![t] = "recreate"]
      /\ UNCHANGED <<now, nowSlot>> /\ DOMAIN stat = Timer
      /\ now \in Nat /\ expire[t] \in Nat /\ pausedAt[t] \in Nat /\ pausedAt[t] <= now
  BY WheelTypes DEF ResumeTimer, WheelInv, WheelTypeOK, TimerInv
<1>2. PICK e \in Nat : e = now + expire[t] - pausedAt[t]
  BY <1>1
<1>3. PutIn(t, e)
  BY <1>1, <1>2 DEF ResumeTimer, PutIn
<1>4. ListPutsIn(t)
  BY <1>1, <1>3, PutsIn
<1>5. t \in pausedTimers /\ pausedTimers' = pausedTimers \ {t}
  BY <1>1 DEF pausedTimers
<1> QED
  BY <1>4, <1>5, PutsInMaps DEF Queue!Continue, pausedTimers

LEMMA PollMaps ==
  ASSUME WheelInv, NEW t \in Timer, PollTimer(t)
  PROVE  Queue!Take(t)
<1>1. /\ place[t] = RunList /\ place' = [place EXCEPT ![t] = NoList]
      /\ UNCHANGED <<now, stat, expire>> /\ DOMAIN place = Timer
  BY DEF PollTimer, WheelInv, WheelTypeOK
<1>2. waitingTimers' = waitingTimers \ {t} /\ dueTimers' = dueTimers \ {t}
  BY <1>1, OnlyPlace
<1>3. t \in dueTimers /\ t \notin waitingTimers
  BY <1>1, Lists DEF dueTimers, waitingTimers
<1>4. waitingTimers' = waitingTimers
  BY <1>2, <1>3
<1> QED
  BY <1>1, <1>2, <1>3, <1>4 DEF Queue!Take, waitingTimers, dueTimers

LEMMA PolledMaps ==
  ASSUME WheelInv, NEW t \in Timer, Polled(t)
  PROVE  Queue!Cancel(t) \/ Queue!Insert(t)
<1>1. polled = t
  BY DEF Polled
<1>2. CASE Release(t)
  BY <1>2, ReleaseMaps
<1>3. CASE ReCreateTimer(t) /\ UNCHANGED <<now, nowSlot, stat>>
  <2>1. PICK e \in Nat : PutIn(t, e)
    BY <1>1, <1>3, PolledAgain
  <2>2. ListPutsIn(t)
    BY <1>3, <2>1, PutsIn
  <2>3. place[t] = NoList
    BY <1>1 DEF WheelInv, HeldOnce
  <2>4. pausedTimers' = pausedTimers
    BY <1>3 DEF pausedTimers
  <2> QED
    BY <2>2, <2>3, <2>4, InsertMaps
<1> QED
  BY <1>2, <1>3 DEF Polled

LEMMA StepMaps == WheelInv /\ [WheelNext]_wheelVars => [Queue!QueueNext]_(Queue!queueVars)
<1> SUFFICES ASSUME WheelInv, [WheelNext]_wheelVars
             PROVE  Queue!QueueNext \/ UNCHANGED Queue!queueVars
  OBVIOUS
<1>1. CASE OnJiffiesUpdate
  BY <1>1, Ticks, TickMaps DEF Queue!QueueNext
<1>2. ASSUME NEW t \in Timer, NEW d \in Delay, NEW c \in Count, NEW iv \in Interval,
             StartTimer(t, d, c, iv)
      PROVE  Queue!QueueNext
  BY <1>2, StartMaps DEF Queue!QueueNext
<1>3. ASSUME NEW t \in Timer, KillTimer(t) PROVE Queue!QueueNext
  BY <1>3, KillMaps DEF Queue!QueueNext
<1>4. ASSUME NEW t \in Timer, PauseTimer(t) PROVE Queue!QueueNext
  BY <1>4, PauseMaps DEF Queue!QueueNext
<1>5. ASSUME NEW t \in Timer, ResumeTimer(t) PROVE Queue!QueueNext
  BY <1>5, ResumeMaps DEF Queue!QueueNext
<1>6. ASSUME NEW t \in Timer, PollTimer(t) PROVE Queue!QueueNext
  BY <1>6, PollMaps DEF Queue!QueueNext
<1>7. ASSUME NEW t \in Timer, Polled(t) PROVE Queue!QueueNext
  BY <1>7, PolledMaps DEF Queue!QueueNext
<1>8. CASE UNCHANGED wheelVars
  BY <1>8 DEF wheelVars, dataVars, Queue!queueVars
<1> QED
  BY <1>1, <1>2, <1>3, <1>4, <1>5, <1>6, <1>7, <1>8 DEF WheelNext

\* The wheel of gears behaves like a plain list of timers with their deadlines: the dealing
\* out of a higher gear's slot, the wrapping of a gear, a deadline beyond the last gear, and
\* a pause at any moment neither bring a timer forward nor put it off by a jiffy.
THEOREM WheelRefines == WheelSpec => ImplementsQueue
<1>1. WheelInit => Queue!QueueInit
  BY Lists DEF WheelInit, Queue!QueueInit
<1> QED
  BY <1>1, StepMaps, WheelInvariant, PTL DEF WheelSpec, ImplementsQueue, Queue!QueueSpec
===============================================================================
