------------------------------ MODULE TimerWheel ------------------------------
(***************************************************************************)
(* The timer manager: SLTimerMgr, its gears (SLTimerGear) and its timers   *)
(* (CSLTimerBase) in src/src/sllib/sltimer, as TimerEngine of the kernel   *)
(* drives it.  Timers wait in the slots of a hierarchy of wheels; with     *)
(* every jiffy one slot of the first gear becomes due, and whenever a gear *)
(* has gone round, a slot of the next one is dealt out to those below.     *)
(*                                                                         *)
(* Everything happens in the main thread.  The program starts, kills,      *)
(* pauses and resumes timers between two rounds of process() and from      *)
(* within onStart and onTime of any timer, the timer's own included.       *)
(* onInit, onPause, onResume and onTerminate of the repository's timers    *)
(* call nothing of the manager and are left out.                           *)
(*                                                                         *)
(* The order of the timers inside a slot and in the run list is left open: *)
(* any timer of the run list may be polled next.                           *)
(***************************************************************************)
EXTENDS Integers, FiniteSets

CONSTANTS
  Timer,        \* the CSLTimerBase objects of the pool
  NoTimer,
  NumGears,     \* 5 in the code
  FirstSize,    \* slots of the first gear: TQ_GEAR2_SIZE, 256 in the code
  HighSize,     \* slots of the other gears: TQ_GEAR1_SIZE, 64 in the code
  Delay, Interval, Count,   \* what startTimer is called with, in jiffies;
                            \* TIMER_BEAT_FOREVER is -1
  MaxNow        \* bound: where the clock stops

ASSUME TimerAssumption ==
  /\ NoTimer \notin Timer
  /\ NumGears \in Nat /\ NumGears >= 2
  /\ FirstSize \in Nat \ {0} /\ HighSize \in Nat \ {0}
  /\ Delay \subseteq Nat /\ Interval \subseteq Nat /\ Count \subseteq Nat \cup {-1}
  /\ MaxNow \in Nat

VARIABLES
  now,        \* m_currTimeJiffies
  nowSlot,    \* gear -> _nowSlot
  place,      \* timer -> the list it is in
  stat,       \* m_stat, or "free" in the pool
  expire,     \* m_expire
  pausedAt,   \* m_pause
  fresh,      \* m_bDelay: onStart has not been called
  count,      \* m_iCount
  interval,   \* m_interval
  polled,     \* the timer process() is polling
  asked,      \* the count the timer was started with (history)
  fired       \* how often onTime was called, for a timer with a count (history)

dataVars == <<expire, pausedAt, fresh, count, interval, asked, fired>>
wheelVars == <<now, nowSlot, place, stat, polled, dataVars>>

Gear == 1 .. NumGears

Size(g) == IF g = 1 THEN FirstSize ELSE HighSize

\* Jiffies between two steps of gear g.
Period[g \in Gear] == IF g = 1 THEN 1 ELSE Period[g - 1] * Size(g - 1)

\* The lists: slot s of gear g, or the run list.
Slots == UNION {{<<g, s>> : s \in 0 .. Size(g) - 1} : g \in Gear}
RunList == <<0, 0>>
NoList == <<0, 1>>

WheelInit ==
  /\ now = 0
  /\ nowSlot = [g \in Gear |-> 0]
  /\ place = [t \in Timer |-> NoList]
  /\ stat = [t \in Timer |-> "free"]
  /\ expire = [t \in Timer |-> 0]
  /\ pausedAt = [t \in Timer |-> 0]
  /\ fresh = [t \in Timer |-> TRUE]
  /\ count = [t \in Timer |-> 0]
  /\ interval = [t \in Timer |-> 0]
  /\ polled = NoTimer
  /\ asked = [t \in Timer |-> 0]
  /\ fired = [t \in Timer |-> 0]

-----------------------------------------------------------------------------
\* The wheel.

\* The first gear whose slots reach as far as rest jiffies; the last one takes
\* what is further away, too.
GearFor(rest) ==
  CHOOSE g \in Gear : /\ g = NumGears \/ rest < Period[g + 1]
                      /\ \A h \in 1 .. g - 1 : rest >= Period[h + 1]

\* Mistake: the slot number is not reduced to the size of the gear.
FindTimerListUnmasked(e) ==
  IF e <= now THEN RunList
  ELSE LET g == GearFor(e - now) IN <<g, e \div Period[g]>>

\* Mistake: a gear also takes what is exactly one round away.
FindTimerListOneTooFar(e) ==
  IF e <= now THEN RunList
  ELSE LET g == GearFor(e - now - 1) IN <<g, (e \div Period[g]) % Size(g)>>

FindTimerList(e) ==
  IF e <= now THEN RunList
  ELSE LET g == GearFor(e - now) IN <<g, (e \div Period[g]) % Size(g)>>

\* A gear wraps its slot when it is used next.
Wrapped(g) == IF nowSlot[g] >= Size(g) THEN 0 ELSE nowSlot[g]

\* The gears whose updateToLowGear a jiffy calls: those all of whose lower gears
\* are at their first slot.
Turning == {g \in Gear \ {1} : \A h \in 1 .. g - 1 : Wrapped(h) = 0}

\* updateToLowGear: a slot of every turning gear is scheduled anew.
Dealt == [t \in Timer |->
            IF \E g \in Turning : place[t] = <<g, Wrapped(g)>>
            THEN FindTimerList(expire[t]) ELSE place[t]]

\* update: the slot of the first gear becomes due, except for paused timers.
MoveDue(lists) ==
  [t \in Timer |-> IF lists[t] = <<1, Wrapped(1)>> /\ stat[t] # "paused"
                   THEN RunList ELSE lists[t]]

\* SLTimerMgr::onJiffiesUpdate, which process() calls for every second tick of 10
\* milliseconds: checkHighGear, the clock, and update of the first gear.
OnJiffiesUpdate ==
  /\ polled = NoTimer /\ now < MaxNow
  /\ place' = MoveDue(Dealt)
  /\ now' = now + 1
  /\ nowSlot' = [g \in Gear |-> IF g = 1 THEN (Wrapped(1) + 1) % FirstSize
                                ELSE IF g \in Turning THEN Wrapped(g) + 1
                                ELSE nowSlot[g]]
  /\ UNCHANGED <<stat, polled, dataVars>>

-----------------------------------------------------------------------------
\* The program's calls.

\* startTimer.
StartTimer(t, delay, cnt, iv) ==
  /\ stat[t] = "free"
  /\ stat' = [stat EXCEPT ![t] = "recreate"]
  /\ expire' = [expire EXCEPT ![t] = now + delay]
  /\ count' = [count EXCEPT ![t] = cnt]
  /\ interval' = [interval EXCEPT ![t] = iv]
  /\ place' = [place EXCEPT ![t] = FindTimerList(now + delay)]
  /\ asked' = [asked EXCEPT ![t] = cnt]
  /\ UNCHANGED <<now, nowSlot, polled, pausedAt, fresh, fired>>

\* release: the destructor and the pool reset everything.
Release(t) ==
  /\ place' = [place EXCEPT ![t] = NoList]
  /\ stat' = [stat EXCEPT ![t] = "free"]
  /\ expire' = [expire EXCEPT ![t] = 0]
  /\ pausedAt' = [pausedAt EXCEPT ![t] = 0]
  /\ fresh' = [fresh EXCEPT ![t] = TRUE]
  /\ count' = [count EXCEPT ![t] = 0]
  /\ interval' = [interval EXCEPT ![t] = 0]
  /\ asked' = [asked EXCEPT ![t] = 0]
  /\ fired' = [fired EXCEPT ![t] = 0]
  /\ UNCHANGED <<now, nowSlot>>

Live(t) == stat[t] \in {"recreate", "paused"}

\* Mistake: a timer that is killed in its own callback is released there and then.
KillReleasing(t) == Live(t) /\ Release(t) /\ UNCHANGED polled

\* killTimer: a timer that is being polled is released by process().
KillTimer(t) ==
  /\ Live(t)
  /\ \/ t # polled /\ Release(t) /\ UNCHANGED polled
     \/ /\ t = polled
        /\ stat' = [stat EXCEPT ![t] = "destory"]
        /\ UNCHANGED <<now, nowSlot, place, polled, dataVars>>

PauseTimer(t) ==
  /\ Live(t)
  /\ stat' = [stat EXCEPT ![t] = "paused"]
  /\ pausedAt' = [pausedAt EXCEPT ![t] = now]
  /\ UNCHANGED <<now, nowSlot, place, polled, expire, fresh, count, interval, asked, fired>>

\* resumeTimer.  In the timer's own callback it would put the timer into a list,
\* and process() into a second one (pushBack asserts that a node is in none); the
\* program is taken to avoid that.
ResumeTimer(t) ==
  /\ stat[t] = "paused" /\ t # polled
  /\ LET e == now + expire[t] - pausedAt[t]
     IN  /\ expire' = [expire EXCEPT ![t] = e]
         /\ place' = [place EXCEPT ![t] = FindTimerList(e)]
  /\ stat' = [stat EXCEPT ![t] = "recreate"]
  /\ UNCHANGED <<now, nowSlot, polled, pausedAt, fresh, count, interval, asked, fired>>

-----------------------------------------------------------------------------
\* process(): the loop over the run list, which may stop after any timer when
\* overTime has passed.

\* popFront and pollTimer as far as the callback: onStart first, then onTime
\* unless the count is 0.
PollTimer(t) ==
  /\ polled = NoTimer /\ place[t] = RunList
  /\ polled' = t
  /\ place' = [place EXCEPT ![t] = NoList]
  /\ fired' = [fired EXCEPT ![t] = IF ~fresh[t] /\ count[t] > 0 THEN @ + 1 ELSE @]
  /\ UNCHANGED <<now, nowSlot, stat, expire, pausedAt, fresh, count, interval, asked>>

\* adjustExpireTime: a timer that is late by more than its interval.
AdjustExpireTime(e, iv) ==
  IF iv > 0 /\ now - e > iv THEN e + (now - e) \div iv ELSE e

\* reCreateTimer.
ReCreateTimer(t) ==
  LET e == AdjustExpireTime(expire[t] + interval[t], interval[t])
  IN  /\ expire' = [expire EXCEPT ![t] = e]
      /\ place' = [place EXCEPT ![t] = FindTimerList(e)]

\* Mistake: the count is tested before it is counted down.
PolledTestingFirst(t) ==
  /\ polled = t
  /\ polled' = NoTimer
  /\ \/ /\ stat[t] = "destory" \/ (~fresh[t] /\ count[t] = 0)
        /\ Release(t)
     \/ /\ stat[t] # "destory" /\ (fresh[t] \/ count[t] # 0)
        /\ ReCreateTimer(t)
        /\ fresh' = [fresh EXCEPT ![t] = FALSE]
        /\ count' = [count EXCEPT ![t] = IF ~fresh[t] /\ @ > 0 THEN @ - 1 ELSE @]
        /\ UNCHANGED <<now, nowSlot, stat, pausedAt, interval, asked, fired>>

\* The callback returns: the rest of pollTimer and of the round.
Polled(t) ==
  /\ polled = t
  /\ polled' = NoTimer
  /\ \/ /\ stat[t] = "destory" \/ (~fresh[t] /\ count[t] \in {0, 1})
        /\ Release(t)
     \/ /\ stat[t] # "destory" /\ (fresh[t] \/ count[t] \notin {0, 1})
        /\ ReCreateTimer(t)
        /\ fresh' = [fresh EXCEPT ![t] = FALSE]
        /\ count' = [count EXCEPT ![t] = IF ~fresh[t] /\ @ > 0 THEN @ - 1 ELSE @]
        /\ UNCHANGED <<now, nowSlot, stat, pausedAt, interval, asked, fired>>

-----------------------------------------------------------------------------
WheelNext == \/ OnJiffiesUpdate
             \/ \E t \in Timer :
                   \/ \E d \in Delay, c \in Count, iv \in Interval : StartTimer(t, d, c, iv)
                   \/ KillTimer(t) \/ PauseTimer(t) \/ ResumeTimer(t)
                   \/ PollTimer(t) \/ Polled(t)

WheelSpec == WheelInit /\ [][WheelNext]_wheelVars

-----------------------------------------------------------------------------
WheelTypeOK ==
  /\ now \in 0 .. MaxNow
  /\ nowSlot \in [Gear -> Nat] /\ \A g \in Gear : nowSlot[g] <= Size(g)
  /\ place \in [Timer -> Slots \cup {RunList, NoList}]
  /\ stat \in [Timer -> {"free", "recreate", "paused", "destory"}]
  /\ expire \in [Timer -> Nat] /\ pausedAt \in [Timer -> Nat]
  /\ fresh \in [Timer -> BOOLEAN]
  /\ count \in [Timer -> Int] /\ interval \in [Timer -> Nat]
  /\ polled \in Timer \cup {NoTimer}
  /\ asked \in [Timer -> Int] /\ fired \in [Timer -> Nat]

\* A timer of the pool is in no list and in nobody's hands, and one in use is
\* either in one list or being polled: whatever a callback kills, pauses, resumes
\* or starts, no freed timer is reached and no timer is lost.
HeldOnce ==
  \A t \in Timer : IF stat[t] = "free" THEN place[t] = NoList /\ polled # t
                                       ELSE (place[t] = NoList) = (polled = t)

\* process() ends a timer by itself when, and only when, onTime has been called as
\* often as the start asked for; a timer that beats for ever is never ended.
FiresAsAsked ==
  [][\A t \in Timer : polled = t /\ polled' # t /\ stat[t] # "destory"
        => (stat'[t] = "free") = (~fresh[t] /\ fired[t] = asked[t])]_wheelVars

Queue == INSTANCE TimerQueue WITH
           deadline <- expire,
           waiting  <- {t \in Timer : place[t] \in Slots},
           due      <- {t \in Timer : place[t] = RunList},
           paused   <- {t \in Timer : stat[t] = "paused"}

\* The wheel behaves like a plain list of timers with their deadlines: cascading
\* between the gears, the wrapping of every gear, deadlines beyond the last gear,
\* and timers that were paused, resumed or put back at any moment neither bring a
\* timer forward nor put it off by a single jiffy.
ImplementsQueue == Queue!QueueSpec
=============================================================================
