----------------------------- MODULE ThreadPool ------------------------------
(***************************************************************************)
(* sl::thread::SLThreadPool and its workers TPThread                       *)
(* (src/src/sllib/slthread), the pool the database engine gives its tasks  *)
(* to.                                                                     *)
(*                                                                         *)
(* The main thread adds tasks and calls run once per round, which presents *)
(* the finished ones to it; the workers execute tasks and, after each, try *)
(* the buffer before they go back to sleep.  A worker sleeps on a Windows  *)
(* event that stays set until the worker resets it.                        *)
(*                                                                         *)
(* A step of the model is what runs under one of the pool's three mutexes  *)
(* or touches one event; only addTask keeps the thread list's mutex over   *)
(* more than one step, so that mutex is held exactly while signalling is   *)
(* not NoThread.  The counters of threads are the sizes of their lists,    *)
(* with which they change; m_finiTaskListCount is only reported.  A worker *)
(* that ends while the pool still has it calls end() through the null      *)
(* pointer of the task it has just cleared: the process dies there.        *)
(***************************************************************************)
EXTENDS Integers, Sequences, FiniteSets, SequencesExt

CONSTANTS Task,         \* the ITPTasks
          NoTask,       \* NULL
          NewCount,     \* m_extraNewAddThreadCount
          DefaultCount, \* m_defaultThreadCount
          MaxCount      \* m_maxThreadCount

ASSUME PoolAssumption == /\ NoTask \notin Task
                         /\ NewCount \in Nat /\ DefaultCount \in Nat \ {0}
                         /\ MaxCount \in Nat

\* addTask creates NewCount threads when it finds fewer than MaxCount.
Thread   == 1..(IF DefaultCount < MaxCount THEN MaxCount - 1 + NewCount ELSE DefaultCount)
NoThread == 0

VARIABLES all,        \* m_allThreadList
          free, busy, \* m_freeThreadList, m_busyThreadList
          timed,      \* the threads with an m_threadWaitSecond of 300, the others wait for ever
          event,      \* the threads whose m_cond is set
          pc,         \* thread -> where it is in threadFunc
          cur,        \* thread -> m_currTask
          popped,     \* thread -> pNewTask, between popBufferTask and setTask
          buffered,   \* m_bufferedTaskList
          fini,       \* m_finiTaskList
          batch,      \* finiTasks of mainThreadTick: those not presented yet
          signalling, \* the thread addTask has given a task and not signalled yet
          unused,     \* the tasks nobody has added yet
          destroying, \* -1, or destroy's count once it has set m_isDestroyed
          crashed     \* the process died

lists   == <<all, free, busy, timed>>
workers == <<event, pc, cur, popped>>
main    == <<batch, signalling, unused, destroying>>
vars    == <<lists, workers, buffered, fini, main, crashed>>

isDestroyed == destroying >= 0

\* start creates the default threads.
Init == /\ all = 1..DefaultCount
        /\ free = [i \in 1..DefaultCount |-> i]
        /\ busy = {} /\ timed = {} /\ event = {}
        /\ pc = [t \in Thread |-> IF t \in all THEN "look" ELSE "none"]
        /\ cur = [t \in Thread |-> NoTask]
        /\ popped = [t \in Thread |-> NoTask]
        /\ buffered = <<>> /\ fini = <<>> /\ batch = <<>>
        /\ signalling = NoThread
        /\ unused = Task
        /\ destroying = -1
        /\ crashed = FALSE

-----------------------------------------------------------------------------
\* The main thread.

\* addTask with a free thread: the first one gets the task.
GiveTask(k) == /\ free # <<>>
               /\ signalling' = Head(free)
               /\ free' = Tail(free)
               /\ busy' = busy \union {Head(free)}
               /\ cur' = [cur EXCEPT ![Head(free)] = k]
               /\ UNCHANGED <<all, timed, event, pc, popped, buffered>>

\* addTask without one: the task is buffered, and unless the pool has reached its
\* maximum, NewCount threads are created that wait for a limited time.  Nobody
\* signals them: they find out about the task when one of them gets another.
CreateThreads ==
    \E new \in [1..NewCount -> Thread \ all] :
        /\ \A i, j \in 1..NewCount : i < j => new[i] < new[j]
        /\ \A i \in 1..NewCount, t \in Thread \ all : t < new[i] => t \in Range(new)
        /\ all' = all \union Range(new)
        /\ free' = free \o new
        /\ timed' = timed \union Range(new)
        /\ pc' = [t \in Thread |-> IF t \in Range(new) THEN "look" ELSE pc[t]]

BufferTask(k) == /\ free = <<>>
                 /\ buffered' = Append(buffered, k)
                 /\ IF Cardinality(all) >= MaxCount
                    THEN UNCHANGED <<all, free, timed, pc>>
                    ELSE CreateThreads
                 /\ UNCHANGED <<busy, event, cur, popped, signalling>>

AddTask(k) == GiveTask(k) \/ BufferTask(k)

\* Mistake: addTask counts on the worker to look for its task.
SendNothing == /\ ~crashed /\ signalling # NoThread
               /\ signalling' = NoThread
               /\ UNCHANGED <<lists, workers, buffered, fini, batch, unused, destroying,
                              crashed>>

\* sendCondSignal, and addTask returns.
SendCondSignal == /\ ~crashed /\ signalling # NoThread
                  /\ event' = event \union {signalling}
                  /\ signalling' = NoThread
                  /\ UNCHANGED <<lists, pc, cur, popped, buffered, fini, batch, unused,
                                 destroying, crashed>>

\* Logic adds a task in any of its callbacks, those of other tasks included.
Submit(k) == /\ ~crashed /\ ~isDestroyed /\ signalling = NoThread
             /\ k \in unused
             /\ unused' = unused \ {k}
             /\ AddTask(k)
             /\ UNCHANGED <<fini, batch, destroying, crashed>>

\* mainThreadTick takes the finished tasks.
Tick == /\ ~crashed /\ ~isDestroyed /\ signalling = NoThread
        /\ batch = <<>> /\ fini # <<>>
        /\ batch' = fini /\ fini' = <<>>
        /\ UNCHANGED <<lists, workers, buffered, signalling, unused, destroying, crashed>>

\* ... and presents each: it is complete and released (its object may then serve
\* another task), goes back to the finished list, or is added again.
Present == /\ ~crashed /\ signalling = NoThread /\ batch # <<>>
           /\ batch' = Tail(batch)
           /\ \/ /\ unused' = unused \union {Head(batch)}
                 /\ UNCHANGED <<lists, workers, buffered, fini, signalling>>
              \/ /\ fini' = Append(fini, Head(batch))
                 /\ UNCHANGED <<lists, workers, buffered, signalling, unused>>
              \/ /\ AddTask(Head(batch))
                 /\ UNCHANGED <<fini, unused>>
           /\ UNCHANGED <<destroying, crashed>>

\* destroy reads the number of threads ...
Destroy == /\ ~crashed /\ ~isDestroyed /\ signalling = NoThread /\ batch = <<>>
           /\ destroying' = Cardinality(all)
           /\ UNCHANGED <<lists, workers, buffered, fini, batch, signalling, unused, crashed>>

\* ... and, as long as as many have not ended, wakes the others every 300 ms.  The first
\* that ends takes the process with it; the release of threads and tasks is not reached.
WakeAll == /\ ~crashed /\ destroying > 0
           /\ event' = event \union all
           /\ UNCHANGED <<lists, pc, cur, popped, buffered, fini, main, crashed>>

-----------------------------------------------------------------------------
\* A worker.

\* task() at the head of threadFunc's loop.
Look(t) == /\ ~crashed /\ pc[t] = "look"
           /\ pc' = [pc EXCEPT ![t] = IF cur[t] = NoTask THEN "wait" ELSE "test"]
           /\ UNCHANGED <<lists, event, cur, popped, buffered, fini, main, crashed>>

\* onWaitCondSignal: the wait returns, then the event is reset, then threadFunc goes on.
Wake(t) == /\ ~crashed /\ pc[t] = "wait" /\ t \in event
           /\ pc' = [pc EXCEPT ![t] = "reset"]
           /\ UNCHANGED <<lists, event, cur, popped, buffered, fini, main, crashed>>

Reset(t) == /\ ~crashed /\ pc[t] = "reset"
            /\ event' = event \ {t}
            /\ pc' = [pc EXCEPT ![t] = "test"]
            /\ UNCHANGED <<lists, cur, popped, buffered, fini, main, crashed>>

\* The time a thread of addTask's waits is over.
TimeOut(t) == /\ ~crashed /\ pc[t] = "wait" /\ t \in timed /\ t \notin event
              /\ pc' = [pc EXCEPT ![t] = "hang"]
              /\ UNCHANGED <<lists, event, cur, popped, buffered, fini, main, crashed>>

\* removeHangThread deletes a thread that is still free.  One that addTask has taken
\* in the meantime ends as well, with the task it was given.
RemoveHangThread(t) ==
    /\ ~crashed /\ pc[t] = "hang" /\ signalling = NoThread
    /\ event' = event \ {t}
    /\ IF t \in Range(free)
       THEN /\ \E i \in DOMAIN free : free[i] = t /\ free' = RemoveAt(free, i)
            /\ all' = all \ {t}
            /\ timed' = timed \ {t}
            /\ pc' = [pc EXCEPT ![t] = "none"]
            /\ UNCHANGED crashed
       ELSE /\ crashed' = TRUE
            /\ UNCHANGED <<all, free, timed, pc>>
    /\ UNCHANGED <<busy, cur, popped, buffered, fini, main>>

\* Behind the wait, and before each further task: the worker ends if the pool is
\* destroyed.
Test(t) == /\ ~crashed /\ pc[t] = "test"
           /\ crashed' = isDestroyed
           /\ pc' = [pc EXCEPT ![t] = IF cur[t] = NoTask THEN "look" ELSE "work"]
           /\ UNCHANGED <<lists, event, cur, popped, buffered, fini, main>>

\* Mistake: a worker does not look into the buffer.
PopNothing(t) == /\ ~crashed /\ pc[t] = "work"
                 /\ pc' = [pc EXCEPT ![t] = "finish"]
                 /\ UNCHANGED <<lists, event, cur, popped, buffered, fini, main, crashed>>

\* start, process and end of the task, which share nothing with the pool, and tryGetTask.
PopBufferTask(t) ==
    /\ ~crashed /\ pc[t] = "work"
    /\ IF buffered = <<>>
       THEN /\ pc' = [pc EXCEPT ![t] = "finish"]
            /\ UNCHANGED <<popped, buffered>>
       ELSE /\ pc' = [pc EXCEPT ![t] = "next"]
            /\ popped' = [popped EXCEPT ![t] = Head(buffered)]
            /\ buffered' = Tail(buffered)
    /\ UNCHANGED <<lists, event, cur, fini, main, crashed>>

\* Another task was buffered: the old one is finished ...
NextTask(t) == /\ ~crashed /\ pc[t] = "next"
               /\ fini' = Append(fini, cur[t])
               /\ pc' = [pc EXCEPT ![t] = "set"]
               /\ UNCHANGED <<lists, event, cur, popped, buffered, main, crashed>>

\* ... and setTask replaces it, without a lock.
SetTask(t) == /\ ~crashed /\ pc[t] = "set"
              /\ cur' = [cur EXCEPT ![t] = popped[t]]
              /\ popped' = [popped EXCEPT ![t] = NoTask]
              /\ pc' = [pc EXCEPT ![t] = "test"]
              /\ UNCHANGED <<lists, event, buffered, fini, main, crashed>>

\* Mistake: the worker clears its task before it hands it over.
FinishNothing(t) == /\ ~crashed /\ pc[t] = "finish"
                    /\ cur' = [cur EXCEPT ![t] = NoTask]
                    /\ fini' = Append(fini, cur'[t])
                    /\ pc' = [pc EXCEPT ![t] = "clear"]
                    /\ UNCHANGED <<lists, event, popped, buffered, main, crashed>>

\* None was: onTaskCompleted finishes the old one ...
FinishTask(t) == /\ ~crashed /\ pc[t] = "finish"
                 /\ fini' = Append(fini, cur[t])
                 /\ pc' = [pc EXCEPT ![t] = "clear"]
                 /\ UNCHANGED <<lists, event, cur, popped, buffered, main, crashed>>

\* ... clears m_currTask, without a lock ...
ClearTask(t) == /\ ~crashed /\ pc[t] = "clear"
                /\ cur' = [cur EXCEPT ![t] = NoTask]
                /\ pc' = [pc EXCEPT ![t] = "rest"]
                /\ UNCHANGED <<lists, event, popped, buffered, fini, main, crashed>>

\* ... and addFreeThread puts the thread back.
AddFreeThread(t) == /\ ~crashed /\ pc[t] = "rest" /\ signalling = NoThread
                    /\ t \in busy
                    /\ busy' = busy \ {t}
                    /\ free' = Append(free, t)
                    /\ pc' = [pc EXCEPT ![t] = "look"]
                    /\ UNCHANGED <<all, timed, event, cur, popped, buffered, fini, main,
                                   crashed>>

Worker(t) == \/ Look(t) \/ Wake(t) \/ Reset(t) \/ RemoveHangThread(t) \/ Test(t)
             \/ PopBufferTask(t) \/ NextTask(t) \/ SetTask(t)
             \/ FinishTask(t) \/ ClearTask(t) \/ AddFreeThread(t)

Main == \/ SendCondSignal \/ Tick \/ Present \/ Destroy \/ WakeAll
        \/ \E k \in Task : Submit(k)

Next == Main \/ \E t \in Thread : Worker(t) \/ TimeOut(t)

Spec == Init /\ [][Next]_vars

\* The system schedules every worker, tasks return, addTask runs to its end, and a
\* worker that wants the mutex of the thread lists gets it in the end (SF: the mutex is
\* not free all the time; all other steps of a worker stay enabled until it takes them).
\* Nothing is assumed of the logic that adds tasks or of the rounds that present them.
FairSpec == /\ Spec
            /\ WF_vars(SendCondSignal)
            /\ \A t \in Thread : SF_vars(Worker(t))

-----------------------------------------------------------------------------
TypeOK == /\ all \subseteq Thread /\ busy \subseteq Thread /\ timed \subseteq Thread
          /\ event \subseteq Thread
          /\ free \in Seq(Thread)
          /\ pc \in [Thread -> {"none", "look", "wait", "reset", "hang", "test", "work",
                                "next", "set", "finish", "clear", "rest"}]
          /\ cur \in [Thread -> Task \union {NoTask}]
          /\ popped \in [Thread -> Task \union {NoTask}]
          /\ buffered \in Seq(Task) /\ fini \in Seq(Task) /\ batch \in Seq(Task)
          /\ signalling \in Thread \union {NoThread}
          /\ unused \subseteq Task
          /\ destroying \in Int
          /\ crashed \in BOOLEAN

\* Where a task is in a list, and which workers hold it.
At(list, k)      == {i \in DOMAIN list : list[i] = k}
Holders(held, k) == {t \in Thread : held[t] = k}

\* The workers whose m_currTask still refers to the task they have handed over, and
\* those that own a task.
HandedOver == {t \in Thread : pc[t] \in {"set", "clear"}}
Owners(k)  == Holders(cur, k) \ HandedOver

\* The places of a task, each as often as the task is there.
Places(k) == ({"unused"} \X (unused \intersect {k}))
             \union ({"buffered"} \X At(buffered, k))
             \union ({"fini"} \X At(fini, k))
             \union ({"batch"} \X At(batch, k))
             \union ({"cur"} \X Owners(k))
             \union ({"popped"} \X Holders(popped, k))

\* A task is in one place: it is never lost, never executed by two workers at a
\* time, and never presented or released before the worker that executed it has
\* handed it over (slthread_pool.cpp addTask, mainThreadTick, popBufferTask,
\* addFiniTask).  From then on the worker only overwrites its m_currTask: the task
\* may be presented, released or given to another worker while m_currTask still
\* refers to it, and no task is put there that the worker would erase.
OwnedOnce == \A k \in Task : Cardinality(Places(k)) = 1

\* A worker that waits although it has been given a task has its signal or is about
\* to get it: none of the resets of the event can erase the signal of a task that
\* the worker then does not see (addTask against onWaitCondSignal).
NoLostSignal == \A t \in Thread : pc[t] = "wait" /\ cur[t] # NoTask
                                => t \in event \/ signalling = t

Dead == crashed \/ isDestroyed

\* A task that a thread has been given gets finished, unless the pool goes down.
GivenTasksFinish ==
    \A k \in Task : Owners(k) # {}
                    ~> (\E i \in DOMAIN fini : fini[i] = k) \/ Dead

\* A buffered task is taken if any worker works: a worker does not rest as long as
\* it finds a task in the buffer.  (One that is buffered when none works any more
\* stays until another task has been given to a worker and executed.)
BufferedTasksTaken ==
    \A k \in Task : (\E i \in DOMAIN buffered : buffered[i] = k)
                     /\ (\E t \in Thread : pc[t] \in {"work", "next", "set"})
                    ~> Owners(k) \union Holders(popped, k) # {} \/ Dead
=============================================================================
