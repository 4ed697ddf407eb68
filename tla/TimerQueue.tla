------------------------------ MODULE TimerQueue ------------------------------
(***************************************************************************)
(* What the timer manager (src/src/sllib/sltimer) promises, whatever data  *)
(* structure it keeps its timers in: a timer that is not paused becomes    *)
(* due in the very jiffy in which the clock leaves its deadline, one that  *)
(* is put in with a deadline that has passed is due at once.  A timer that *)
(* was paused before its deadline is held back, unless the wheel happens   *)
(* to deal it out in the jiffy of its deadline: updateToLowGear does not   *)
(* look at the state, as update does.                                      *)
(***************************************************************************)
EXTENDS Integers

CONSTANT Timer

VARIABLES now,       \* the clock, in jiffies
          deadline,  \* timer -> when it is to be called
          waiting,   \* the timers that wait for their deadline
          due,       \* the timers to be called as soon as the main loop gets to them
          paused

queueVars == <<now, deadline, waiting, due, paused>>

QueueInit == /\ now = 0
             /\ deadline = [t \in Timer |-> 0]
             /\ waiting = {} /\ due = {} /\ paused = {}

\* The clock leaves now.  A paused timer whose deadline that was may slip through.
Tick ==
  LET reached == {t \in waiting : deadline[t] = now}
  IN  \E slipped \in SUBSET (reached \cap paused) :
        LET up == (reached \ paused) \cup slipped
        IN  /\ now' = now + 1
            /\ waiting' = waiting \ up
            /\ due' = due \cup up
            /\ UNCHANGED <<deadline, paused>>

\* The deadlines of the other timers stay.
SetsDeadline(t) ==
  /\ deadline' \in [Timer -> Int]
  /\ \A u \in Timer \ {t} : deadline'[u] = deadline[u]

\* t, which is in neither set once it has been taken out of both, is put in.
PutsIn(t) ==
  /\ SetsDeadline(t)
  /\ IF deadline'[t] <= now
     THEN waiting' = waiting \ {t} /\ due' = due \cup {t}
     ELSE waiting' = waiting \cup {t} /\ due' = due \ {t}
  /\ UNCHANGED now

\* A timer is started, or started over after its callback.
Insert(t) == /\ t \notin waiting \cup due
             /\ PutsIn(t)
             /\ UNCHANGED paused

\* The main loop takes a due timer and calls it.
Take(t) == /\ t \in due
           /\ due' = due \ {t}
           /\ UNCHANGED <<now, deadline, waiting, paused>>

Cancel(t) == /\ waiting' = waiting \ {t}
             /\ due' = due \ {t}
             /\ paused' = paused \ {t}
             /\ SetsDeadline(t)
             /\ UNCHANGED now

Suspend(t) == /\ paused' = paused \cup {t}
              /\ UNCHANGED <<now, deadline, waiting, due>>

Continue(t) == /\ t \in paused
               /\ paused' = paused \ {t}
               /\ PutsIn(t)

QueueNext == \/ Tick
             \/ \E t \in Timer : \/ Insert(t) \/ Take(t) \/ Cancel(t) \/ Suspend(t)
                                 \/ Continue(t)

QueueSpec == QueueInit /\ [][QueueNext]_queueVars
=============================================================================
