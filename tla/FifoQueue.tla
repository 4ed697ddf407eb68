------------------------------ MODULE FifoQueue ------------------------------
(***************************************************************************)
(* What a bounded queue between one producer and one consumer promises:    *)
(* items come out in the order they went in, each exactly once, and never  *)
(* more than Capacity of them wait.                                        *)
(*                                                                         *)
(* This is the abstract specification of sl::CycleQueue                    *)
(* (src/src/public/slcycle_queue.h).  CycleQueue.tla implements it, and    *)
(* AsyncThread.tla uses it for its two queues.                             *)
(***************************************************************************)
EXTENDS Naturals, Sequences

CONSTANTS Item,      \* what may be queued
          NoItem,    \* the content of a variable no item was read into yet
          Capacity   \* how many items may wait: a positive number

VARIABLES q,         \* the items that wait, oldest first
          got        \* the item read last

fifoVars == <<q, got>>

FifoInit == q = <<>> /\ got = NoItem

FifoPush(t) == /\ Len(q) < Capacity
               /\ q' = Append(q, t)
               /\ UNCHANGED got

FifoRead == /\ q # <<>>
            /\ got' = Head(q)
            /\ q' = Tail(q)

FifoNext == (\E t \in Item : FifoPush(t)) \/ FifoRead

FifoSpec == FifoInit /\ [][FifoNext]_fifoVars
=============================================================================
