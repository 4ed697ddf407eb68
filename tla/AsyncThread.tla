----------------------------- MODULE AsyncThread -----------------------------
(***************************************************************************)
(* The kernel's asynchronous jobs (src/src/kernel/async): AsyncEngine      *)
(* start/stop/loop/destory, one AsyncThread and its AsyncBase objects.     *)
(*                                                                         *)
(* The kernel's main thread pushes a job into runningQueue; the worker     *)
(* reads it, runs onExecute unless the job was stopped, and pushes it into *)
(* completeQueue; the main thread reads it in its next AsyncThread::loop,  *)
(* calls onSuccess or onFailed and onRelease, and deletes the AsyncBase.   *)
(* Both queues are sl::CycleQueues, modelled here by FifoQueue, which      *)
(* AsyncThread_proofs shows that they implement.  push spins on a full     *)
(* queue without looking at anything else.                                 *)
(*                                                                         *)
(* AsyncEngine keeps several such threads that share nothing but the main  *)
(* thread and treats each alike; one is modelled.                          *)
(***************************************************************************)
EXTENDS Naturals, Sequences, FiniteSets

CONSTANTS Job,       \* the IAsyncHandlers
          NoJob,     \* nullptr
          QueueSize  \* ASYNC_QUEUE_SIZE (8196 in the code)

ASSUME AsyncAssumption == /\ NoJob \notin Job
                          /\ QueueSize \in Nat \ {0}

VARIABLES runningQueue, completeQueue,
          terminate,   \* AsyncThread::_terminate
          base,        \* handler -> "none", "live" or "released": its AsyncBase
          valid, executed, successd,      \* the AsyncBase's flags
          mainPc,      \* what the main thread is doing
          mainAdd,     \* the job it is pushing into runningQueue
          mainRet,     \* where it goes on after that push
          mainBase,    \* the job AsyncThread::loop read last
          workerPc,    \* what the worker is doing
          workerBase,  \* the job threadProc read last
          runs,        \* handler -> how often onExecute was called (history)
          outcome      \* handler -> which callback it got (history)

jobVars    == <<base, valid, executed, successd>>
mainVars   == <<mainPc, mainAdd, mainRet, mainBase>>
workerVars == <<workerPc, workerBase>>
history    == <<runs, outcome>>
vars == <<runningQueue, completeQueue, terminate, jobVars, mainVars, workerVars, history>>

Running == INSTANCE FifoQueue WITH Item <- Job, NoItem <- NoJob, Capacity <- QueueSize,
                                   q <- runningQueue, got <- workerBase

Complete == INSTANCE FifoQueue WITH Item <- Job, NoItem <- NoJob, Capacity <- QueueSize,
                                    q <- completeQueue, got <- mainBase

Init == /\ Running!FifoInit
        /\ Complete!FifoInit
        /\ terminate = FALSE
        /\ base = [j \in Job |-> "none"]
        /\ valid = [j \in Job |-> TRUE]
        /\ executed = [j \in Job |-> FALSE]
        /\ successd = [j \in Job |-> FALSE]
        /\ mainPc = "logic" /\ mainAdd = NoJob /\ mainRet = "logic"
        /\ workerPc = "test"
        /\ runs = [j \in Job |-> 0]
        /\ outcome = [j \in Job |-> "none"]

-----------------------------------------------------------------------------
\* The main thread.  Logic code runs in network and timer callbacks ("logic")
\* and in the completion callbacks of jobs ("callback").

\* Mistake: the handler gets its base, but nullptr is pushed.
StartNothing(j) == /\ mainPc \in {"logic", "callback"}
                   /\ base[j] = "none"
                   /\ base' = [base EXCEPT ![j] = "live"]
                   /\ mainPc' = "adding" /\ mainAdd' = NoJob /\ mainRet' = mainPc
                   /\ UNCHANGED <<runningQueue, completeQueue, terminate, valid, executed,
                                  successd, mainBase, workerVars, history>>

\* AsyncEngine::start: a handler that has no base gets one, which is then added.
Start(j) == /\ mainPc \in {"logic", "callback"}
            /\ base[j] = "none"
            /\ base' = [base EXCEPT ![j] = "live"]
            /\ mainPc' = "adding" /\ mainAdd' = j /\ mainRet' = mainPc
            /\ UNCHANGED <<runningQueue, completeQueue, terminate, valid, executed,
                           successd, mainBase, workerVars, history>>

\* AsyncThread::add returns once the queue had room.
Add == /\ mainPc = "adding"
       /\ Running!FifoPush(mainAdd)
       /\ mainPc' = mainRet /\ mainAdd' = NoJob
       /\ UNCHANGED <<completeQueue, terminate, jobVars, mainRet, mainBase, workerPc,
                      history>>

\* AsyncEngine::stop, called while the handler exists.
Stop(j) == /\ mainPc \in {"logic", "callback"}
           /\ base[j] = "live"
           /\ valid' = [valid EXCEPT ![j] = FALSE]
           /\ UNCHANGED <<runningQueue, completeQueue, terminate, base, executed, successd,
                          mainVars, workerVars, history>>

\* Kernel::loop calls AsyncEngine::loop once per round.
EnterLoop == /\ mainPc = "logic"
             /\ mainPc' = "loop"
             /\ UNCHANGED <<runningQueue, completeQueue, terminate, jobVars, mainAdd,
                            mainRet, mainBase, workerVars, history>>

LoopRead == /\ mainPc = "loop"
            /\ Complete!FifoRead
            /\ mainPc' = "callback"
            /\ UNCHANGED <<runningQueue, terminate, jobVars, mainAdd, mainRet, workerVars,
                           history>>

LoopEmpty == /\ mainPc = "loop"
             /\ completeQueue = <<>>
             /\ mainPc' = "logic"
             /\ UNCHANGED <<runningQueue, completeQueue, terminate, jobVars, mainAdd,
                            mainRet, mainBase, workerVars, history>>

\* Mistake: the AsyncBase is not released.
OnCompleteKeeping == /\ mainPc = "callback"
                     /\ outcome' = [outcome EXCEPT ![mainBase] =
                                      IF successd[mainBase] THEN "success"
                                      ELSE IF executed[mainBase] THEN "failed"
                                      ELSE "cancelled"]
                     /\ mainPc' \in {"loop", "logic"}
                     /\ UNCHANGED <<runningQueue, completeQueue, terminate, jobVars, mainAdd,
                                    mainRet, mainBase, workerVars, runs>>

\* AsyncBase::onComplete and release; then the next read, or back to
\* Kernel::loop once overTime has passed.  The flags go with the AsyncBase.
OnComplete == /\ mainPc = "callback"
              /\ outcome' = [outcome EXCEPT ![mainBase] =
                               IF successd[mainBase] THEN "success"
                               ELSE IF executed[mainBase] THEN "failed" ELSE "cancelled"]
              /\ base' = [base EXCEPT ![mainBase] = "released"]
              /\ valid' = [valid EXCEPT ![mainBase] = TRUE]
              /\ executed' = [executed EXCEPT ![mainBase] = FALSE]
              /\ successd' = [successd EXCEPT ![mainBase] = FALSE]
              /\ mainPc' \in {"loop", "logic"}
              /\ UNCHANGED <<runningQueue, completeQueue, terminate, mainAdd, mainRet,
                             mainBase, workerVars, runs>>

\* Kernel::loop has ended and Kernel::destory reached AsyncThread::terminate,
\* which joins the worker before the queues are deleted.
Terminate == /\ mainPc = "logic"
             /\ terminate' = TRUE
             /\ mainPc' = "joining"
             /\ UNCHANGED <<runningQueue, completeQueue, jobVars, mainAdd, mainRet,
                            mainBase, workerVars, history>>

Joined == /\ mainPc = "joining"
          /\ workerPc = "exited"
          /\ mainPc' = "destroyed"
          /\ UNCHANGED <<runningQueue, completeQueue, terminate, jobVars, mainAdd,
                         mainRet, mainBase, workerVars, history>>

-----------------------------------------------------------------------------
\* AsyncThread::threadProc.

\* Mistake: the worker does not look at _terminate.
WorkerTestForever == /\ workerPc = "test"
                     /\ workerPc' = "read"
                     /\ UNCHANGED <<runningQueue, completeQueue, terminate, jobVars,
                                    mainVars, workerBase, history>>

WorkerTest == /\ workerPc = "test"
              /\ workerPc' = IF terminate THEN "exited" ELSE "read"
              /\ UNCHANGED <<runningQueue, completeQueue, terminate, jobVars, mainVars,
                             workerBase, history>>

WorkerRead == /\ workerPc = "read"
              /\ Running!FifoRead
              /\ workerPc' = "check"
              /\ UNCHANGED <<completeQueue, terminate, jobVars, mainVars, history>>

WorkerEmpty == /\ workerPc = "read"
               /\ runningQueue = <<>>
               /\ workerPc' = "test"
               /\ UNCHANGED <<runningQueue, completeQueue, terminate, jobVars, mainVars,
                              workerBase, history>>

\* Mistake: a stopped job is dropped.
WorkerCheckDropping == /\ workerPc = "check"
                       /\ workerPc' = IF valid[workerBase] THEN "execute" ELSE "test"
                       /\ UNCHANGED <<runningQueue, completeQueue, terminate, jobVars,
                                      mainVars, workerBase, history>>

\* AsyncBase::onExecute: the test of _valid and the handler's onExecute are two
\* steps, so that stop() may come between them.
WorkerCheck == /\ workerPc = "check"
               /\ workerPc' = IF valid[workerBase] THEN "execute" ELSE "push"
               /\ UNCHANGED <<runningQueue, completeQueue, terminate, jobVars, mainVars,
                              workerBase, history>>

\* Mistake: only a successful job is marked as executed.
WorkerExecuteSuccess == /\ workerPc = "execute"
                        /\ \E ok \in BOOLEAN :
                             /\ successd' = [successd EXCEPT ![workerBase] = ok]
                             /\ executed' = [executed EXCEPT ![workerBase] = ok]
                        /\ runs' = [runs EXCEPT ![workerBase] = @ + 1]
                        /\ workerPc' = "push"
                        /\ UNCHANGED <<runningQueue, completeQueue, terminate, base, valid,
                                       mainVars, workerBase, outcome>>

WorkerExecute == /\ workerPc = "execute"
                 /\ \E ok \in BOOLEAN : successd' = [successd EXCEPT ![workerBase] = ok]
                 /\ executed' = [executed EXCEPT ![workerBase] = TRUE]
                 /\ runs' = [runs EXCEPT ![workerBase] = @ + 1]
                 /\ workerPc' = "push"
                 /\ UNCHANGED <<runningQueue, completeQueue, terminate, base, valid,
                                mainVars, workerBase, outcome>>

WorkerPush == /\ workerPc = "push"
              /\ Complete!FifoPush(workerBase)
              /\ workerPc' = "test"
              /\ UNCHANGED <<runningQueue, terminate, jobVars, mainPc, mainAdd, mainRet,
                             workerBase, history>>

-----------------------------------------------------------------------------
Worker == \/ WorkerTest \/ WorkerRead \/ WorkerEmpty \/ WorkerCheck
          \/ WorkerExecute \/ WorkerPush

MainLoop == Add \/ EnterLoop \/ LoopRead \/ LoopEmpty \/ OnComplete \/ Joined

Next == \/ \E j \in Job : Start(j) \/ Stop(j)
        \/ MainLoop \/ Terminate
        \/ Worker

Spec == Init /\ [][Next]_vars

\* The operating system runs both threads; Kernel::loop goes round for ever and
\* calls AsyncEngine::loop each time.
FairSpec == Spec /\ WF_vars(MainLoop) /\ WF_vars(Worker)

-----------------------------------------------------------------------------
TypeOK ==
  /\ runningQueue \in Seq(Job) /\ completeQueue \in Seq(Job)
  /\ terminate \in BOOLEAN
  /\ base \in [Job -> {"none", "live", "released"}]
  /\ valid \in [Job -> BOOLEAN]
  /\ executed \in [Job -> BOOLEAN]
  /\ successd \in [Job -> BOOLEAN]
  /\ mainPc \in {"logic", "adding", "loop", "callback", "joining", "destroyed"}
  /\ mainAdd \in Job \cup {NoJob} /\ mainBase \in Job \cup {NoJob}
  /\ mainRet \in {"logic", "callback"}
  /\ workerPc \in {"test", "read", "check", "execute", "push", "exited"}
  /\ workerBase \in Job \cup {NoJob}
  /\ runs \in [Job -> Nat]
  /\ outcome \in [Job -> {"none", "success", "failed", "cancelled"}]

\* The jobs on their way, in the order in which they will be completed: those
\* done, the one the worker holds, those waiting, the one being added.
InFlight ==
  completeQueue
    \o (IF workerPc \in {"check", "execute", "push"} THEN <<workerBase>> ELSE <<>>)
    \o runningQueue
    \o (IF mainPc = "adding" THEN <<mainAdd>> ELSE <<>>)

Pipeline == INSTANCE FifoQueue WITH Item <- Job, NoItem <- NoJob,
                                    Capacity <- 2 * QueueSize + 2,
                                    q <- InFlight, got <- mainBase

\* Seen from the logic code, start and the completion callbacks are the two
\* ends of one FIFO queue: a thread's jobs complete in the order they were
\* started, none is lost or completed twice, and at most 2 * QueueSize + 2 of
\* them are on their way.
CompletesInOrder == Pipeline!FifoSpec

\* The job whose callback runs.
InCallback == IF mainPc = "callback" \/ (mainPc = "adding" /\ mainRet = "callback")
              THEN {mainBase} ELSE {}

\* An AsyncBase is deleted only when no queue and neither thread still refers
\* to it, and a job that has a base is always somewhere on its way.
LiveExactlyInFlight ==
  /\ \A i, k \in 1 .. Len(InFlight) : InFlight[i] = InFlight[k] => i = k
  /\ {j \in Job : base[j] = "live"}
       = {InFlight[i] : i \in 1 .. Len(InFlight)} \cup InCallback

\* onFailed(nonviolent = false) tells the truth: the handlers that are told they
\* were cancelled never ran and were stopped, all others ran exactly once,
\* however stop() races with the worker.
OutcomeTellsTheTruth ==
  [][\A j \in Job : outcome'[j] # outcome[j] =>
        /\ outcome'[j] = "cancelled" <=> runs[j] = 0
        /\ outcome'[j] = "cancelled" => ~valid[j]
        /\ runs[j] <= 1]_vars

\* Both threads spin in push, each waiting for the other one to read.
MutualSpin == /\ mainPc = "adding" /\ Len(runningQueue) = QueueSize
              /\ workerPc = "push" /\ Len(completeQueue) = QueueSize

\* Every job that was started gets its callbacks.  There are two ways out:
\* AsyncThread::terminate drops what is still queued, and main and worker hang
\* in their pushes once 2 * QueueSize + 2 jobs of the thread are outstanding.
EveryJobCompletes ==
  \A j \in Job : base[j] = "live" ~> base[j] = "released" \/ terminate \/ MutualSpin

\* terminate() returns if the worker has room for the one job it may still be
\* working on; a full completeQueue is not emptied any more.
JoinReturns ==
  (mainPc = "joining" /\ Len(completeQueue) < QueueSize) ~> mainPc = "destroyed"
=============================================================================
