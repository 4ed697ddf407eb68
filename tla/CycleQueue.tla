------------------------------ MODULE CycleQueue ------------------------------
(***************************************************************************)
(* sl::CycleQueue (src/src/public/slcycle_queue.h): the lock-free ring     *)
(* through which the kernel's main thread and an AsyncThread exchange      *)
(* jobs.  One thread calls push, another one calls read.                   *)
(*                                                                         *)
(* Nothing protects the ring but the order of the accesses, so every       *)
(* access to shared memory is a step of its own: push tests isFull, writes *)
(* the slot, moves tail; read tests isEmpty, copies the slot, moves        *)
(* front.  front and tail are volatile int32: a read returns the last      *)
(* value written, and the stores of a thread become visible in program     *)
(* order (the x86 servers the build files target).                         *)
(***************************************************************************)
EXTENDS Integers, Sequences

CONSTANTS Item,      \* the pointers pushed
          NoItem,    \* the content of a slot malloc returned uninitialised
          Capacity   \* the constructor's size argument

ASSUME CycleQueueAssumption == /\ NoItem \notin Item
                               /\ Capacity \in Nat \ {0}

VARIABLES queue,     \* the slots
          front,     \* the slot read next; only read() writes it
          tail,      \* the slot written next; only push() writes it
          pushPc,    \* where the producer is in push()
          pushT,     \* push()'s argument
          readPc,    \* where the consumer is in read()
          readT      \* read()'s output argument

cycleVars == <<queue, front, tail, pushPc, pushT, readPc, readT>>

\* One slot more than the capacity: it tells the full ring from the empty one.
Size == Capacity + 1

Slot == 0 .. Size - 1

Succ(i) == (i + 1) % Size

IsEmpty == front = tail

\* Mistake: no slot is kept free, so the full ring looks like the empty one.
IsFullWithoutGap == FALSE

IsFull == front = Succ(tail)

CycleInit == /\ queue = [i \in Slot |-> NoItem]
             /\ front = 0
             /\ tail = 0
             /\ pushPc = "idle" /\ pushT = NoItem
             /\ readPc = "idle" /\ readT = NoItem

-----------------------------------------------------------------------------
\* push(t): spin while the ring is full, write the slot, publish it.

PushCall(t) == /\ pushPc = "idle"
               /\ pushPc' = "test"
               /\ pushT' = t
               /\ UNCHANGED <<queue, front, tail, readPc, readT>>

PushTest == /\ pushPc = "test"
            /\ ~IsFull
            /\ pushPc' = "write"
            /\ UNCHANGED <<queue, front, tail, pushT, readPc, readT>>

\* Mistake: the pushed pointer goes into the slot after tail.
PushWriteNext == /\ pushPc = "write"
                 /\ queue' = [queue EXCEPT ![Succ(tail)] = pushT]
                 /\ pushPc' = "advance"
                 /\ UNCHANGED <<front, tail, pushT, readPc, readT>>

PushWrite == /\ pushPc = "write"
             /\ queue' = [queue EXCEPT ![tail] = pushT]
             /\ pushPc' = "advance"
             /\ UNCHANGED <<front, tail, pushT, readPc, readT>>

PushAdvance == /\ pushPc = "advance"
               /\ tail' = Succ(tail)
               /\ pushPc' = "idle"
               /\ UNCHANGED <<queue, front, pushT, readPc, readT>>

-----------------------------------------------------------------------------
\* read(t): give up on an empty ring, copy the slot, release it.  The call
\* that finds the ring empty returns false and changes nothing.

\* Mistake: read() copies the slot without releasing it.
ReadKeepsFront == /\ readPc = "advance"
                  /\ readPc' = "idle"
                  /\ UNCHANGED <<queue, front, tail, pushPc, pushT, readT>>

ReadTest == /\ readPc = "idle"
            /\ ~IsEmpty
            /\ readPc' = "copy"
            /\ UNCHANGED <<queue, front, tail, pushPc, pushT, readT>>

ReadCopy == /\ readPc = "copy"
            /\ readT' = queue[front]
            /\ readPc' = "advance"
            /\ UNCHANGED <<queue, front, tail, pushPc, pushT>>

ReadAdvance == /\ readPc = "advance"
               /\ front' = Succ(front)
               /\ readPc' = "idle"
               /\ UNCHANGED <<queue, tail, pushPc, pushT, readT>>

Push == (\E t \in Item : PushCall(t)) \/ PushTest \/ PushWrite \/ PushAdvance

Read == ReadTest \/ ReadCopy \/ ReadAdvance

CycleNext == Push \/ Read

CycleSpec == CycleInit /\ [][CycleNext]_cycleVars

\* Both threads keep running inside a call, and the consumer polls for ever
\* (AsyncThread::threadProc and Kernel::loop do); nobody has to call push.
FairCycleSpec == /\ CycleSpec
                 /\ WF_cycleVars(PushTest) /\ WF_cycleVars(PushWrite) /\ WF_cycleVars(PushAdvance)
                 /\ WF_cycleVars(Read)

-----------------------------------------------------------------------------
CycleTypeOK == /\ queue \in [Slot -> Item \cup {NoItem}]
               /\ front \in Slot
               /\ tail \in Slot
               /\ pushPc \in {"idle", "test", "write", "advance"}
               /\ pushT \in Item \cup {NoItem}
               /\ readPc \in {"idle", "copy", "advance"}
               /\ readT \in Item \cup {NoItem}

\* How many slots hold an item the consumer has not released.
Count == IF front <= tail THEN tail - front ELSE tail - front + Size

\* The k-th slot at or after slot i, around the ring.
Around(i, k) == IF i + k < Size THEN i + k ELSE i + k - Size

\* The slots from front up to tail: published and not released.
Published == {i \in Slot : IF front <= tail THEN front <= i /\ i < tail
                                            ELSE front <= i \/ i < tail}

\* With no lock around push and read, the producer and the consumer never
\* access one slot at the same time.
NoSlotRace == ~(pushPc = "write" /\ readPc = "copy" /\ front = tail)

\* read() copies only slots that push() has filled, never the uninitialised
\* memory malloc returned and never a slot whose write is not finished.
CopiesPublished == /\ readPc # "idle" => front \in Published
                   /\ \A i \in Published : queue[i] \in Item

\* The items the consumer has yet to copy, oldest first.
Contents ==
  LET n == IF readPc = "advance" THEN 1 ELSE 0
  IN  [k \in 1 .. Count - n |-> queue[Around(front, k - 1 + n)]]

Fifo == INSTANCE FifoQueue WITH q <- Contents, got <- readT

\* The ring is a bounded FIFO queue: each step of push and read is a push, a
\* read or nothing at all of FifoQueue, for every interleaving of the threads.
ImplementsFifo == Fifo!FifoSpec

\* A push that finds the ring full waits for the consumer and then returns:
\* the spin loop of push() ends.
PushReturns == pushPc # "idle" ~> pushPc = "idle"
=============================================================================
