--------------------------------- MODULE IdMgr ---------------------------------
(***************************************************************************)
(* The identifiers of objects (logic/idmgr/IdMgr.cpp, multiProc="true" as  *)
(* server_conf.xml sets it).  The master generates them from the clock and *)
(* a sequence number and gives each node that asks a batch of GIVE_NUM;    *)
(* a node keeps them in its pool and takes one for each object it makes.   *)
(* The two statics of generateId begin anew when the master does.          *)
(*                                                                         *)
(* An identifier is the time and the sequence number it was made of; what  *)
(* the program has of it is its Value.  There the time is shifted by       *)
(* AREA_BITS + SEQUENCE_MASK = 41 bits of 64, which leaves its lowest 23   *)
(* bits: TimeSpan is 2^23 milliseconds, or 2 hours and 20 minutes.  The    *)
(* area, a constant of the master, and the order in a pool are left out.   *)
(*                                                                         *)
(* Assumed: the system clock is not set back, and a master does not come   *)
(* back in the millisecond in which its predecessor ended.  Out of an      *)
(* empty pool allocID reads what lies before the vector; here it cannot    *)
(* be called then.                                                         *)
(***************************************************************************)
EXTENDS Integers, FiniteSets

CONSTANTS
  Node,       \* the processes that make objects
  PoolSize,   \* how many identifiers a node wants to have
  GiveNum,    \* GIVE_NUM: how many the master gives at a time
  Sequences,  \* SEQUENCE_MASK + 1: how many it generates in a millisecond
  TimeSpan    \* the milliseconds after which the time in an identifier begins anew

\* What the theorems ask of the constants; the others may have any value.
IdAssumption == TimeSpan \in Nat \ {0}

VARIABLES
  now,        \* getTimeMilliSecond()
  last,       \* lastTimeTick of the master's generateId, NoTime before its first call
  sequence,   \* sequence of generateId
  serving,    \* the node whose request the master is in the middle of
  batch,      \* the identifiers it has generated for it
  asks,       \* the requests of each node on their way to the master
  gives,      \* the batches on their way to each node
  pool,       \* _idPool of each node
  used        \* history: the identifiers each node has taken for objects

idVars == <<now, last, sequence, serving, batch, asks, gives, pool, used>>

NoTime == -1
NoNode == CHOOSE n : n \notin Node
Id == [time : Nat, seq : Nat]

\* What the program sees of an identifier.
Value(i) == <<i.time % TimeSpan, i.seq>>

IdInit == /\ now \in Nat /\ last = NoTime /\ sequence = 0 /\ serving = NoNode /\ batch = {}
        /\ asks = [n \in Node |-> 0] /\ gives = [n \in Node |-> {}]
        /\ pool = [n \in Node |-> {}] /\ used = [n \in Node |-> {}]

-----------------------------------------------------------------------------
\* The nodes.

\* Every ten seconds a node asks once if its pool is short; the request may be lost.
OnTime(n) == /\ Cardinality(pool[n]) < PoolSize
             /\ asks' = [asks EXCEPT ![n] = @ + 1]
             /\ UNCHANGED <<now, last, sequence, serving, batch, gives, pool, used>>

GiveIds(n) == \E b \in gives[n] : /\ gives' = [gives EXCEPT ![n] = @ \ {b}]
                                  /\ pool' = [pool EXCEPT ![n] = @ \union b]
                                  /\ UNCHANGED <<now, last, sequence, serving, batch, asks, used>>

AllocID(n) == \E i \in pool[n] : /\ pool' = [pool EXCEPT ![n] = @ \ {i}]
                                 /\ used' = [used EXCEPT ![n] = @ \union {i}]
                                 /\ UNCHANGED <<now, last, sequence, serving, batch, asks, gives>>

-----------------------------------------------------------------------------
\* The master.

AskIds(n) == /\ serving = NoNode /\ asks[n] > 0
             /\ serving' = n /\ batch' = {}
             /\ asks' = [asks EXCEPT ![n] = @ - 1]
             /\ UNCHANGED <<now, last, sequence, gives, pool, used>>

\* The first call of generateId gives its statics their values.
InitStatics == /\ serving # NoNode /\ last = NoTime
               /\ last' = now /\ sequence' = 0
               /\ UNCHANGED <<now, serving, batch, asks, gives, pool, used>>

\* When all numbers of a millisecond are used up, the loop waits for the next one.
NextSequence == IF now = last THEN sequence + 1 ELSE 0

GenerateId == /\ serving # NoNode /\ last # NoTime /\ Cardinality(batch) < GiveNum
              /\ NextSequence < Sequences
              /\ sequence' = NextSequence /\ last' = now
              /\ batch' = batch \union {[time |-> now, seq |-> NextSequence]}
              /\ UNCHANGED <<now, serving, asks, gives, pool, used>>

\* The batch is complete and sent; a message without a connection is lost.
SendIds == /\ serving # NoNode /\ Cardinality(batch) = GiveNum
           /\ \/ gives' = [gives EXCEPT ![serving] = @ \union {batch}]
              \/ gives' = gives
           /\ serving' = NoNode /\ batch' = {}
           /\ UNCHANGED <<now, last, sequence, asks, pool, used>>

-----------------------------------------------------------------------------
\* The surroundings.

Tick == /\ \E t \in Nat : t > now /\ now' = t
        /\ UNCHANGED <<last, sequence, serving, batch, asks, gives, pool, used>>

\* A connection breaks, with what is on its way in both directions.
Break(n) == /\ asks' = [asks EXCEPT ![n] = 0] /\ gives' = [gives EXCEPT ![n] = {}]
            /\ UNCHANGED <<now, last, sequence, serving, batch, pool, used>>

NodeRestarts(n) == /\ asks' = [asks EXCEPT ![n] = 0] /\ gives' = [gives EXCEPT ![n] = {}]
                   /\ pool' = [pool EXCEPT ![n] = {}]
                   /\ UNCHANGED <<now, last, sequence, serving, batch, used>>

\* What the master has sent may still arrive.
MasterRestarts == /\ \E t \in Nat : t > now /\ now' = t
                  /\ last' = NoTime /\ sequence' = 0 /\ serving' = NoNode /\ batch' = {}
                  /\ asks' = [n \in Node |-> 0]
                  /\ UNCHANGED <<gives, pool, used>>

IdNext == \/ \E n \in Node : \/ OnTime(n) \/ GiveIds(n) \/ AllocID(n) \/ AskIds(n)
                             \/ Break(n) \/ NodeRestarts(n)
          \/ InitStatics \/ GenerateId \/ SendIds \/ Tick \/ MasterRestarts

IdSpec == IdInit /\ [][IdNext]_idVars

-----------------------------------------------------------------------------
IdTypeOK ==
  /\ now \in Nat /\ last \in Nat \union {NoTime} /\ sequence \in Nat
  /\ batch \subseteq Id
  /\ gives \in [Node -> SUBSET SUBSET Id]
  /\ pool \in [Node -> SUBSET Id] /\ used \in [Node -> SUBSET Id]

\* What a node may still take: its pool and what is on its way to it.
Kept(n) == pool[n] \union UNION gives[n]

\* askIds, giveIds and allocID pass every identifier to one node and to one object:
\* none is in two batches, in two pools, or in a pool and used.
OneOwner ==
  /\ \A n, m \in Node : n # m => (Kept(n) \union used[n]) \intersect (Kept(m) \union used[m]) = {}
  /\ \A n \in Node : /\ Kept(n) \intersect used[n] = {}
                     /\ batch \intersect (Kept(n) \union used[n]) = {}
                     /\ \A b \in gives[n] : /\ b \intersect pool[n] = {}
                                           /\ \A c \in gives[n] : b # c => b \intersect c = {}

\* Two identifiers generated less than a TimeSpan apart.
Near(i, j) == i.time - j.time < TimeSpan /\ j.time - i.time < TimeSpan

\* generateId never returns the same 64 bits twice for different objects, as long as the
\* objects' identifiers are less than a TimeSpan apart: no identifier that allocID may
\* still return has the value of one in use, nor has another one in any pool.
ValuesDiffer ==
  \A n, m \in Node : \A i \in Kept(n), j \in Kept(m) \union used[m] :
     i # j /\ Near(i, j) => Value(i) # Value(j)

\* Each call of allocID returns an identifier whose value no object of the cluster has,
\* unless that object's was generated a TimeSpan before or after.
NoValueTwice ==
  [][\A n, m \in Node : \A i \in used'[n] \ used[n], j \in used[m] :
        Near(i, j) => Value(i) # Value(j)]_idVars
=============================================================================
