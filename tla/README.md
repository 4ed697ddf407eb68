# A verification project for shyloo-chat

shyloo-chat is a C++ server framework with a chat service on top of it. One
executable is started many times with different modules: a *master*, *slaves*
that start processes on a machine, and the nodes themselves (gate, logic, auth,
channel, balance, ...), which connect to each other over TCP. The repository has
no documentation besides comments and assertions, so the code (`src/src` below
the repository root; paths in this file are relative to it) is what the modules
are translated from, and its assertions (`SLASSERT`) and comments are the claims
it is held against. In a release build `SLASSERT` is compiled away
(`public/sllinux_sys.h:37-45`); the modules describe the release build, which
goes on after a failed assertion.

This project holds TLA+ modules of the parts in which order, concurrency and
failure matter, configurations for TLC, and proofs for TLAPS.

## 1. Inventory

Process-wide structure: one kernel per process (`kernel/slkernel.cpp`) whose main
loop polls the network, the timers, the asynchronous jobs and the ipc queues one
after another in a single thread. Everything the logic modules do happens inside
callbacks of that loop. There are three other kinds of threads: the workers of
the asynchronous jobs, the reader of the ipc pipe, and (Windows only) a thread
pool.

| component | state | operations | called by / calls | hard behaviours | what makes it correct |
|---|---|---|---|---|---|
| Cycle queue `public/slcycle_queue.h` | ring, `_front`, `_tail` | `push`, `read` | two threads of the async engine | no lock, no barrier; full and empty; `push` spins | a FIFO queue; no slot touched by both threads; only published slots are read |
| Asynchronous jobs `kernel/async` | two queues per worker, job flags | `start`, `stop`, `loop`, `destory`, `threadProc` | DB engine, logic modules; handlers' callbacks | two threads, raw pointers in queues, cancellation, join | nothing freed while referred to; order kept; the callback tells the truth; no hang |
| Timers `sllib/sltimer`, `kernel/timer` | gears of slot lists, run list, timer objects | start, kill, pause, resume, `process` | every module; callbacks re-enter the manager | cascading, wrap-around, re-entrancy | each timer is due exactly at its deadline; owned by one list; fires as often as asked |
| Network channels `sllib/slnet`, `kernel/net` | channel flags and buffers, table of handlers, epoll set | connect, accept, send, receive, destroy, poll | sessions; callbacks re-enter it | partial sends, descriptor reuse, ends in the middle of a round | the poller watches what a channel waits for; events reach the right channel; ends are noticed |
| Cluster formation `logic/master`, `logic/cluster`, `logic/harbor` | known nodes, open sessions | report, announce, dial, redial, close | master, every node, slave | crashes, restarts, broken connections, crossing messages | one session per pair of processes; every pair connects |
| Shutdown `logic/monitor/ShutDown` | steps, nodes asked | terminate, next step, acknowledge, close | monitor, starter, slaves, every node | crossing messages, dying nodes, restarts, repeated requests | steps never overlap; nothing is left; it ends |
| Start-up `logic/starter`, `logic/startnodestrategy`, `logic/slave`, `logic/capacity` | started nodes, slaves, load, ports, child processes | start timers, choose a slave, open a node, restart | harbor, timers, fork/exec | lost start messages, master restarts, ports running out | each wanted node runs once |
| Chat login `logic/gate`, `logic/auth`, `logic/channel`, `logic/agent`, `logic/balance` | tokens, tickets, agent states | verify, sync token, open, close, choose | client, harbor, agents | answers for clients that left, tokens replaced while they are verified, deaths | an answer finds the agent that asked; nobody stays in with a token that was replaced |
| Identifiers `logic/idmgr` | pool of ids, the statics of `generateId` | `generateId`, `allocID`, refill | master, object manager | width arithmetic, refill by messages, restarts | an id goes to one object; ids differ |
| Ring buffer, shared memory, ipc `public/slring_buffer.h`, `sllib/slshm`, `kernel/ipc` | read and write index in shared memory | `put`, `get`, `readOut`, send, `procRecv` | two processes; a pipe thread | unsynchronised sharing, wrap-around, full ring, deaths | nothing unread is overwritten; messages arrive whole and in order |
| Thread pool `sllib/slthread` | busy and idle lists, buffered and finished tasks | add, finish, time out, destroy | database engine (Windows builds) | lost wake-ups, time-outs, three locks | a task is in one place; every task runs |
| Database `logic/dccenter`, `kernel/db`, `sllib/sldb`, `sllib/slredis` | rows, properties | SQL building, tables | async jobs | mostly data | - |
| Script engine, XML, logging, configuration, strings, pools | - | - | - | sequential | - |

Interaction: Harbor's `NodeSession`s are the sessions of the network channels and
carry all messages between nodes; the timers drive redialling, restarting and
starting; the asynchronous jobs use two cycle queues each; the shutdown uses the
starter (to stop the slaves' restarts) and Harbor; start-up uses the slaves'
capacity reports. Vendored code (`public/google`, Lua, hiredis, tinyxml, the MySQL
client) is not considered.

`PROJECT.json` lists the components with their status and, under `hazards`, the
places where this code is exposed to what tests hardly reach, each with the
properties that cover it or the reason why none does yet.

## 2. Plan

Done, in this order: (1) `FifoQueue`, `CycleQueue`; (2) `AsyncThread` on top of
`FifoQueue`; (3) `ClusterShutdown`; (4) `ClusterFormation`; (5) `TimerQueue`,
`TimerWheel`; (6) `NetChannel`; (7) `StartUp`; (8) `ThreadPool`; (9) `RingBuffer` and
`IpcSession` on top of it; (10) `ChatLogin`; (11) `IdMgr`. Proofs, one module for what
belongs together: `AsyncThread_proofs` (with the ring of `CycleQueue`),
`ClusterFormation_proofs`, `StartUp_proofs`, `IpcSession_proofs` (with `RingBuffer`),
`ChatLogin_proofs` (with `IdMgr`), `Library_proofs` (`ThreadPool`, `TimerWheel`),
`NetChannel_proofs`, `ClusterShutdown_proofs`. With them every invariant, every action
property and every refinement that a run checks is proved as well; what the runs check
alone is liveness (section 5).

What could follow, most important first:

1. A configuration for `IdMgr`, with small spans, so that TLC checks what is proved
   about it.
2. A composition of `NetChannel` with `ClusterFormation`'s sessions: what a dirty
   descriptor (section 6) does to the forming of the mesh.
3. `IPCEngine`: the pipe thread, which hands sessions to the main thread, and the
   loop that serves them.
4. The connection pool and the queue of requests of `sllib/sldb`, with its limits.
5. Theorems about what items 2 to 4 add.

## 3. The modules and the code

`PROJECT.json`, `map`, gives source lines for every definition. Definitions whose
comment begins with "Mistake:" are variants of the definition that follows, with a
plausible bug: replacing the definition by the variant violates a property of the
run. They take no part in the specifications.

**`FifoQueue`** is the abstract bounded queue: a sequence `q`, the item last read
`got`, and actions Push and Read.

**`CycleQueue`** is `sl::CycleQueue`, one step per access to shared memory: `push`
is PushCall, PushTest (`while (isFull())`), PushWrite, PushAdvance; `read` is
ReadTest, ReadCopy, ReadAdvance. `_front`, `_tail` and the slots are the
variables. The slot order is the hardware's: stores of one thread become visible
in program order, as on the x86 servers the build files target.

**`AsyncThread`** is `AsyncEngine`, one `AsyncThread` and its `AsyncBase` objects.
The main thread's steps (`mainPc`) are start (with push's spinning), stop, the
loop over the complete queue, the callbacks, which may start further jobs, and
`destory` with the join; the worker's steps (`workerPc`) are the test of
`_terminate`, the read, the test of `_valid`, `onExecute`, the push. The queues are
`FifoQueue`s. `runs` and `outcome` record history for the properties.

**`ClusterShutdown`** is `ShutDown.cpp` on the master (Terminate, OnOpen, OnClose,
OnClusterShutdownAck, StartNewStep) and on the nodes (OnMessage,
OnClusterShutdownComplete), with `Starter::preShutDown` inside Terminate, the
slaves' Restart, and the kernels' exits. Each node's connection is a FIFO queue
each way plus a close that arrives last. OnClusterShutdownComplete is what a node's modules
do when they are done with EVENT_SHUTDOWN_NOTIFY: they raise EVENT_SHUTDOWN_COMPLETE. In
the model that may happen; nothing says that it will, as no module of this repository
does it (section 6).

**`ClusterFormation`** is `Master`, `Cluster` and `NodeSession`: OnOpen is the whole
of `Master::onOpen` with `sendNewNode`; NewNodeComing is `Cluster::newNodeComing`
with `Harbor::connect`; Connect, DialReady, AccReady, DialClose, AccClose are the
life of the two sessions of one connection; crashes, restarts and broken
connections are limited by `MaxFaults`.

**`StartUp`** is `Starter`, `StartNodeStrategy`, `CapacitySubscriber` and `Slave`. SlaveOpen
is `Starter::onOpen` for a slave with `startServer`; NodeTimerStart and NodeTimer are the
two callbacks of a type's timer, with `startNode`, the choice of a slave and `Harbor::send`;
PreShutDown kills these timers and broadcasts the stop message. NodeOpen and NodeClose are
`onOpen` and `onClose` of the other nodes; `testStarted`, which skips the last node of each
type, decides when the cluster counts as started. When a new master is reached by a node
before any slave, that may set STAT_STARTED at once, and `startServer` never runs
(`NeverOrders`). ReadStart and ReadStop are the slave's handlers, CheckNode its timer per
node. `child` is what `_cmds` says of a node, `stray` counts the processes no entry refers
to: those of a dead slave and the second ones that `openNewNode` starts for a node it knows.
One port range stands for the two of the configuration.

**`TimerWheel`** is `SLTimerMgr`, `SLTimerGear` and `CSLTimerBase`. A timer's
`place` is the list it is in, `polled` the timer whose callback runs. OnJiffiesUpdate is
one round of `update` and `onJiffiesUpdate` with the lazy turning of the gears;
PollTimer, the program's calls from within the callback (KillTimer, PauseTimer,
StartTimer of others), and Polled with AdjustExpireTime, ReCreateTimer and Release are
the stages of `process`. A gear's `Period` is the product of the sizes of those before
it. HeldOnce says that a timer in use is in one list or being polled.
**`TimerQueue`** is what it promises: a table of deadlines and a clock.

**`NetChannel`** is the network layer of one process: `Channel` (Send, Destroy,
ProcessPackets), `NetworkInterface` (NewChannel, EndRound), the listener (Accept),
the packet handlers (Recv, Write) and the epoll poller with its table of handlers
(`handler`, `epoll`, Ctl, Poll, Dispatch). App is what the program does with its
channels between two rounds of the network or from within a callback. Packets are
counted; `room` is what the system still takes for a peer, `inbox` what has
arrived, `hung` that the peer has closed or reset. The peers' actions are
external.

**`ThreadPool`** is `SLThreadPool` with its workers `TPThread`, as built on Windows, the
only system its waiting is written for. Submit is `addTask` up to the signal (GiveTask to a
thread that waits, or BufferTask with CreateThreads), SendCondSignal the signal; Tick and
Present are `mainThreadTick`, which takes the list of finished tasks and presents them one
after another; Destroy and WakeAll are `destroy`. Look, Wake, Reset, TimeOut,
RemoveHangThread, Test, PopBufferTask, NextTask, SetTask, FinishTask, ClearTask and
AddFreeThread are `threadFunc` with what it calls, one step per critical section, access to
the event or write of `m_currTask`. A worker hands its task over (NextTask, FinishTask)
before it overwrites `m_currTask` (SetTask, ClearTask), so the task may be presented,
released or given to another worker in between; `Owners` are the workers that hold a task
and have not handed it over. Every way out of `threadFunc` while the pool still has the
thread calls `end()` of a task that has just been set to null (against the comment at
`sltpthread.h:48`, which expects a task there): the model's `crashed`. Left out: a new
thread that gets the address of a deleted one, and the counter `m_finiTaskListCount`, which
is only reported.

**`RingBuffer`** is `SLRingBuffer` between two processes. A put is BeginPut (the first
load of `_read`), CopyPart or RefusePart (the second load, the test and the copy) and
PublishPart (the store of `_write`). The two loads are the two uses of `_read` in
line 55 as a build without optimisation compiles them (`CMakeLists.txt:25`, where
`-o0` is a misspelt `-O0`; no optimisation is the default): if `_read` passes the end of the
buffer in between (`split`), put leaves fewer than SPACE cells, and what holds of the
ring holds no more. **`IpcSession`** puts an `IPCSession` on each side of the ring:
BeginMessage and BeginNextPart are the parts in which `NodeSession` and `Harbor::send`
give it a message, PeekHeader, Receive and Skip are `procRecv`, which takes as many
bytes as the header says without looking how many there are. Each side dies and comes
back (SenderRestarts, ReceiverRestarts); the shared memory survives. Cells hold
bytes that know their message and their place in it.

**`ChatLogin`** is the handshake by which a client gets into the chat: the channel gives
a token for a ticket (OnMsgRgsListener), the auth server stores it and tells the gates
(OnChannelSyncToken), the client presents it to a gate (ClientVerifyToken), which asks
the auth server (OnGateVerifyToken) and lets the client in or kicks it
(OnAuthVerifyToken, OnAuthSyncToken). A client may present one ticket after another over
one connection: its record is overwritten and the entries of the earlier tickets stay.
`Agent::onClose` uses the session that it has
just erased from the map, through the null entry that `operator[]` creates, so the gate
dies with every connection that ends (Die); the slave starts it again (GateStart). It is
the auth server (type 104) that dials the gates (101) the master has told it of (Connect,
`Cluster.cpp:42`). It dies in AuthDeath; started again, it is refused by the master and told
of no gate (`told`) until the master is restarted as well (MasterRestart). Queues are FIFO.

**`IdMgr`** is the identifier generator: OnTime, GiveIds and AllocID at the nodes; AskIds,
InitStatics, GenerateId and SendIds at the master, time passing in between. An
identifier is the pair of time and sequence number it was made of, and `Value` is what
the shift in line 107 leaves of it: the shift is by AREA_BITS + SEQUENCE_MASK (41)
instead of AREA_BITS + SEQUENCE_BITS (15), so that 23 bits of the time remain.

## 4. The runs

| run | module, cfg | bounds | distinct states | what it shows |
|---|---|---|---|---|
| `cycle_queue` | CycleQueue | 2 items, capacity 3 | 3,875 | the ring implements `FifoQueue` (`ImplementsFifo`), no slot is touched by both threads, push returns |
| `async_thread` | AsyncThread | 4 jobs, queues of 1 | 492,508 | life of an `AsyncBase`, order, truth of the callback, completion, return of the join |
| `cluster_shutdown` | MCClusterShutdown | gate, 2 logics, slave; the five kinds of steps of `server_conf.xml`; 1 request, 1 crash | 14,193 | steps never overlap, nothing is left, it ends |
| `cluster_formation` | MCClusterFormation | 4 nodes, one hidden; 1 fault | 107,756 | one session per pair, nobody untold, the mesh forms |
| `start_up` | MCStartUp | 2 slaves, 2 types, 3 nodes, 2 ports per slave; 1 fault, 1 shutdown | 327,159 | one process per node, nothing starts after the stop message, what is wanted runs |
| `timers` | MCTimerWheel | 2 timers; 3 gears of 2 slots; delay 9, interval 1; clock to 11 | 849,391 | the wheel implements the table of deadlines; ownership and number of calls whatever callbacks do |
| `net_channel` | MCNetChannel | 2 channels, 2 descriptors, send buffer 2, window 1, 2 packets in a socket | 692,324 | agreement of channel, table and poller; events reach their channel |
| `net_liveness` | MCNetChannel, MCNetLive | the same with buffers of 1 | 482,628 | ends are noticed, waiting packets are sent |
| `net_dirty_descriptor` | NetChannel, MCNetDirty | as `net_channel` | (violation) | the finding of section 6 |
| `thread_pool` | ThreadPool | 3 tasks; 1 default thread, at most 2, 1 created at a time | 138,486 | a task has one owner, no signal is lost, given tasks are finished, buffered ones taken |
| `ipc_session` | MCIpcSession | ring of 7 cells, 2 of them spare; messages of 2, 3 and 2+2 bytes | 119,087 | unread bytes stay, messages are received whole and in order, each is received |
| `chat_login` | ChatLogin | 1 gate, 2 clients, 2 tickets, 2 tokens; 2 tokens given, 1 death of the auth server | 207,685 | an answer finds its agent, old tokens turn out, requests are answered |

Why the bounds are enough. *Cycle queue*: with capacity 3 both indices wrap and all
full and empty states occur; the proofs cover every capacity. *Jobs*: with queues
of 1, four jobs are what it takes to fill both queues and both hands, the state in
which the threads can block each other; a queue of 8196 needs 8194 more pushes to
get there and no new kind of step. *Shutdown*: two logics give the random choice
of a step a choice and a second node to wait for; one crash can hit any process at
any step. *Formation*: three exposed nodes have both a pair of one type (decided by id) and
pairs of different types; the safety part is proved for every cluster, and with
two faults `OneSessionPerPair` and `ToldOrOnTheWay` hold for three nodes as well.
*Start-up*: one type is bound to a slave that may not be connected, the other may
grow; the fault is any of a death (node, slave, master), a broken connection or a
failed fork. Loads are whole numbers, and `Rate` is 0, so that one loaded node is
enough to start another: with the `rate="90"` of `server_conf.xml` and loads that
are fractions of a node's capacity, `checkOverLoad` never lets a type grow. *Timers*:
the delay of 9 jiffies lies beyond the last gear of the small wheel (2 * 2 * 2), so that
its deadline is masked and dealt out again, and the clock runs until every gear has gone
round and the timer has started over; two timers end each other from their callbacks.
The symmetry of the timers is used, none of these properties being a liveness property.
*Channels*: two channels and two descriptors allow for a descriptor's reuse by
the other channel while events for it are waiting; a window of 1 against a buffer
of 2 gives partial sends. `NetChannel`'s safety run uses the symmetry of channels
and descriptors; the liveness run does not and observes one channel. *Thread pool*:
with three tasks both threads can be busy and a task in the buffer; the created thread
times out, the default one never does. *Ipc*: of seven cells two are spare, as eight are in the
code; messages of two to four bytes fill the ring, wrap at every place and are refused
in their first or their second part. *Login*: gates share nothing but the auth server,
which keeps no state about them, so one gate shows all there is between a gate, its
clients and the auth server; two tickets are what one client needs to be let in by the
answer to a ticket that it has replaced; the proofs cover any number of each.

Fairness. The main loop of the kernel and the worker loops never block and are scheduled by
an operating system that runs every thread (`WF` of MainLoop, Worker, Loop; the consumer's
steps in `CycleQueue`). Nothing is assumed about the logic code: it may stop calling, and no
module has to raise EVENT_SHUTDOWN_COMPLETE (OnClusterShutdownComplete has no fairness).
Messages on an intact TCP connection arrive, timers fire, and a slave's check timer restarts
what died (`WF` of the receive, dial, start and restart actions). Nobody has to restart a
slave or a master: `WantedNodesRun` has their return as a premise. Peers that live read what
they are sent (`WF` of PeerReads); the conclusions of `net_liveness` are excused while some
peer sends for ever, because `PacketReceiver::handleInputNotification` reads one socket
until it is empty. The master need not come back: `MeshForms` asks for it as a premise. In
`ThreadPool` every thread runs and every lock is given to a thread that asks for it again
and again (`SF` of the steps of a worker, two of which need one the main thread may hold);
`IpcSession` has `SF` of Receive and Skip, as a receiver may die in the middle of a message
but not each time; `ChatLogin` asks that nodes read and that the auth server dials the gates
it was told of, and nothing of clients, the channel, the slaves or those who restart the
master.

Deadlock is not checked where the system may stop: after `destory`
(`AsyncThread`), when a cluster is shut down or stable with no faults left
(`ClusterShutdown`, `ClusterFormation`, `StartUp`), when the bounded clock has run out
(`TimerWheel`), after the death of the process (`NetChannel`, `ThreadPool`) or the end
of `destroy` (`ThreadPool`), when a message was torn or was too long (`IpcSession`), and
when all tokens have been given and no client does anything (`ChatLogin`).

Exceptions written into the properties, each of which is a weakness of the code:
`EveryJobCompletes` excuses jobs dropped by `terminate` and the mutual spin of two
full queues; `JoinReturns` needs a free place in the complete queue;
`NothingLeftBehind` excuses nodes that connected or were restarted late;
`ShutdownCompletes` excuses a NOTIFY step that waits for a node that has died (`Stalled`:
`onClose` strikes off nodes in CLOSE steps only) or whose modules have not finished
(`Unfinished`); with the steps of `server_conf.xml` and the modules of this repository a
shutdown stays at the first NOTIFY step that finds a node to notify, so what the property
says is that nothing else keeps it; `MeshForms` excuses a node that was refused by the master;
`OneProcess` allows one more process of a node per master that died (the new one
orders every node, and `openNewNode` starts a known one again); `NothingAfterStop`
excuses a shutdown asked for before the first slave connected (`killTimer` does
nothing to a timer that was not started, and `startServer` starts it later) and a
new master; `WantedNodesRun` excuses start messages that were dropped, nodes for
which no port is left, nodes whose slave died (it is told nothing when it
comes back), and nodes that no slave looks after when a new master has taken the cluster
for started (`NeverOrders`);
`WatchedUnlessDirty`, `EndNoticed` and `Flushed` excuse a dirty descriptor;
`CalledAfterEndOnlyByOwnDoing` excuses a session that ends its own channel from
`onRecv` while further packets wait (`Channel::processPackets` goes on and calls
the released session);
`GivenTasksFinish` and `BufferedTasksTaken` end with the pool or the process, and the
latter speaks only of a task that is buffered while some worker works: one that is
buffered when none works stays there, beside threads created for it that nobody
signals, until another task has been executed (`slthread_pool.cpp:232`);
`ReceivesWholeMessages`, `NeverOverruns` and `MessagesAreReceived` excuse messages of
which a part was refused or never sent, since `send` ignores what `put` returns
(`slipc_session.cpp:35`) and `procRecv` does not look how much there is, and a message
of which only the first part had been put when it was received; with
`UnreadBytesStay` they excuse a put that saw `_read` on both sides of the end, against the
comment at `slring_buffer.h:6` that no exclusion is needed;
`VerifiedHoldCurrentToken` excuses gates that were cut off from the auth server when it
told them of a new token, tokens the auth server has lost, and clients let in by the
answer to another ticket, until their last one is decided;
`RequestsAnswered` excuses requests that were sent while the auth server was away or
died with it, which the gate never repeats (`Gate.cpp:263`).

Where an excuse names the very case of a hazard, the property bounds the damage and does
not exclude it: the mutual spin (`slasync_thread.cpp:47`), the requests that nobody answers
(`Gate.cpp:263`), the two loads of `_read` (`slring_buffer.h:55`), the parts that do not
fit and those that are not there yet (`slipc_session.cpp:35`, `:59`). Nothing in the code
prevents these; the properties say that nothing else goes wrong, and that this does not
without them.

## 5. Proofs

Every theorem is for all values of the constants under the named assumption of its
module, and for every reachable state: the bounds of section 4 do not enter. Each
follows one pattern: the property is not inductive, an invariant is that adds what the
code relies on, and there is one step of the proof for each action. The clocks and
counters that a module caps (`MaxNow`, `MaxFaults`) may be capped anywhere.

**The cycle queue** (`AsyncThread_proofs`). Nothing in `CycleTypeOK` and the two safety
properties says that the slot a consumer has tested is one a producer has finished.
`CycleInv` adds: a producer past its test keeps a free slot ahead of it (`front #
Succ(tail)`), a consumer past its test a published one (`front # tail`), and the slots
from front up to tail hold items. From it follow `CycleTypeCorrect`, `RaceFree`,
`OnlyPublishedCopied` and `CycleImplementation`: under the mapping of the slots from
front to tail to the abstract queue, PushAdvance is Push, ReadAdvance is Read, everything
else stutters. `ContentsOK` carries along what a reader has copied. The index arithmetic
is in the lemma `SuccValue`. Assumptions: the item that marks an empty slot is no item,
the capacity is a positive natural number.

**The asynchronous jobs** (`AsyncThread_proofs`). `JobsCompleteInOrder` maps what is under
way - the complete queue, the job in the worker's hands, the running queue, the job that
`start` is pushing - to one bounded queue: starting a job is its Push, a callback its
Read, and the worker's steps are stutters, since they move a job inside the sequence.
For `LiveInFlight`, `PlacesInv` says that this sequence (`InFlight`) holds each job once,
none whose callback runs, and with that one exactly the jobs whose `AsyncBase` lives; so
the raw pointers of the queues never dangle and none leaks. For `OutcomeTrue`, `FlagInv`
adds what the flags say of a job that waits for `onExecute` (`Untouched`: it never ran)
and of one that has been there (`Finished`: it ran once, or was stopped and did not).
Assumptions: the value for "no job" is none, the queues take at least one.

**Formation** (`ClusterFormation_proofs`), for every set of nodes, types and ids and any
number of faults. `OneSessionPerPair` is not inductive, because it does not say why a node
made its sessions; `IInv` adds `SessionsMatch`: a process has exactly one session
for each node in `_openNodes` and none else, and it opens a node only if the rule
says that it dials. As the rule is one-way (`DialsOneWay`: types are compared, then
ids), the two directions exclude each other (`OneSession`). `ToldOrOnTheWay` is
inductive with the types (`Told`). Assumptions: types and ids are natural numbers
(they are shifted in `MCClusterFormation`), and no two nodes share both.

**Start-up** (`StartUp_proofs`), for every set of types, nodes and slaves and any number of
faults. `TypeCorrect` includes that a type never exceeds its maximum, that a slave has
timers only for what it started, and that a master runs no timer while it waits for its
first slave and has one for each type while it starts the cluster; one that takes the
cluster for started may have timers or none. `NothingAfterStop` is an action property; it
follows from the invariant `StopIsLast`: once the first master has been told to stop
in time, it has no timer left that starts nodes, the stop message is the last one
on its way to each slave, and a slave that has read it has neither messages nor
timers (`StopsForGood`). `OneProcess` counts processes by a sum over the slaves, and says
nothing of what may become a process later. `OneForEachMaster` counts that too: the
`Weight` of a node at a slave is its stray processes, plus one for an entry in `_cmds`
(which its timer may start again), plus one for a message to the slave that names it. The
sum of the weights is at most the number of masters that have died, plus one if the
present one has counted the node (`Bounded`). It grows only when the starter orders the
node, which it counts in the same step; reading the message turns an order into a process
or an entry, and the death of a slave turns entries into strays. That needs two facts
about the queues: a node is in one message to a slave at most (`QueuedOnce`), as
a slave that connects has read what was sent before, and a connected slave is sent no
node the master has not counted (`UncountedUnsent`). The sum itself is a fold; the lemmas
`SumsExist`, `SumsCompare` and `CopiesTotal` unfold it as the function that its definition
chooses, by induction on the number of slaves (`FromBelow`, a statement about sets of
numbers drawn from the well-foundedness of <). Assumptions: minimum and maximum of a type
are natural numbers in that order, a type is bound to a slave or to none, and there are
finitely many slaves.

**The ring** (`IpcSession_proofs`), for every size of the ring, every number of spare cells
and whatever is put and taken. `RingNothingOverwritten` is an action property; it follows
from `RingInv`, which adds `RoomKept`: as long as the reader takes what is there and no
put was split, SPACE cells stay free, also behind a put that has copied and not published,
and a put that found `_read` low sees it low again or no further than `_write`. The last
part is what makes the second load harmless unless `split`; `FitsInRoom` is the arithmetic
of the test in lines 55-61. Assumptions: SPACE is positive and smaller than the ring.

**The sessions on it** (`IpcSession_proofs`). A session moves the ring only as `RingBuffer`
allows (`Implementation`), and `UnreadBytesStay` is taken over from there
(`NothingOverwritten`). `ReceivesWholeMessages` and `NeverOverruns` need the contents of
the ring as a sequence of messages. `MessageInv` states them without adding lengths up:
there is a function that gives the distance from `_read` at which each complete message
begins (`Offsets`), from there on the ring holds its bytes (`Layout`), and behind the last
one the bytes already put of the message that is being sent (`SenderInv` says which they
are). Publishing the last part extends the function by one place, taking the oldest message
drops its first and shifts the others; `ReaderInv` says that the length the reader has seen
is that of the oldest message, so that it takes this message and no more (`WholeMessages`,
`NeverOverrun`). Assumptions: as for the ring; the first part of a message holds its header.

**Login** (`ChatLogin_proofs`), for any number of gates, clients, tickets, tokens and deaths.
`OneAgentPerTicket` and `VerifiedHoldCurrentToken` speak of the gate only and are not
inductive: they say nothing of what is on its way. `IInv` adds that a gate asks once about
each ticket that an agent has, and about no other, so that at most one request or answer
is under way (`AsksOnce`); that the token in the record of a client that asked is the
auth server's, or the message that turns him out, the refusal or the request itself is on
its way (`Judged`); that who was let in has his answer, unless he has another ticket as well
(`LetInByAnswer`); and that a gate that does not run has neither clients nor messages
(`DownIsEmpty`). That an agent keeps the entry of each ticket it has presented is what
makes the answers to earlier tickets find it. The argument rests on the FIFO order of the
connection: what is asked, answered or announced later stands behind (`GateKeeps` and
`Untouched` carry over what a step leaves alone).
Assumption: the value for "nothing" is no agent and no token.

**Identifiers** (`ChatLogin_proofs`), for any number of nodes and a clock that does not go
back. `OneOwner` is not inductive, since nothing in it says that `generateId` does not
repeat itself; `IdInv` adds that every identifier in a batch, on its way, in a pool or in
use was made before the one that comes next (`Past`), across the restarts of the master.
With `SameTime` (two numbers less than a span apart with the same remainder are equal) it
gives `ObjectsDiffer`: no object gets the bits of another one, unless the two identifiers
were generated 2^23 ms or more apart. Beyond that span the truncated time does repeat.
Assumption: the span is positive. No run checks this module; it is proved only.

**The thread pool** (`Library_proofs`), for a pool of any size and any tasks. `NoLostSignal`
is inductive with the types and `HasTask` (a worker that is past its test has a task):
after a wait the worker resets its event and only then looks for a task, so a signal that
the reset erases belongs to a task it sees. `OwnedOnce` needs two more parts: `FreeIdle`,
that a free thread is free once, is not busy and refers to no task, so that `addTask`
overwrites none; and `AllAlone`, that a task is in exactly one of its six places and there
once, which spells out what `OwnedOnce` says with a cardinality. A worker that has handed
its task over is not a place of it, although its `m_currTask` still refers to it: it stays
busy until it has overwritten that pointer, so `addTask` cannot give it a task in between
that it would erase. Assumption: null is no
task, the counts are natural numbers, and the pool starts with at least one thread.

**The timer wheel** (`Library_proofs`), for any number of gears of any size, any timers,
delays, intervals and counts. `WheelRefines` shows that the wheel behaves as the table of
deadlines, which takes that a timer reaches the run list in the very jiffy of its deadline.
`Gears` says where the gears stand: each one's next slot is that of the first multiple of
its period from now on, although a gear turns only after all those before it have come
round. `Placed` says where a timer is: in the run list, in none, in a slot of a higher gear
that the gear comes to in the period in which the deadline lies and not before now (`High`),
or in the first gear, at most one round away (`Low`) - or there with its deadline past,
which happens to a paused timer only (`Stuck`). A step of the clock deals out the slots of
the gears that turn; `Ticked` is what it makes of one timer, and the lemmas about
multiples of the periods (`NextMultiple` and those around it) are what makes High and Low
meet. `Counted` relates the calls made and those still to be made to what was asked for
(`WheelFires`). The periods are a recursive function, of which the lemma `Periods` proves
what is needed by the same kind of induction as in `StartUp_proofs`. Assumptions: at least
two gears of at least one slot, delays, intervals and counts as the interface takes them.

**The network layer** (`NetChannel_proofs`), for any number of channels and descriptors and
any sizes of buffers and windows. `Wired` is what the operations on channels keep between
them: an open channel is the read handler of its descriptor and nobody else is (`Readers`);
where something is polled for, there is no write handler of another channel (`Writers`) -
a dirty descriptor is never polled, since EPOLL_CTL_MOD fails there for ever; and on all
other descriptors table and poller are what the channel's buffer calls for (`Clean`), which is
`ChannelsWatched`. The invariant of a round, `NetInv`, adds that the events still to be
dealt with and the task at hand find on their descriptor its channel or one that was
destroyed in this round (`Served`, `BatchFits`, `TaskFits`), however the callbacks before
them closed and opened channels: `EventsReach`. What remains of a packet loop whose session
has ended its own channel is followed by `own`: `OnlyByOwnDoing`. Assumptions: "none" is
neither channel nor descriptor, sizes are positive.

**Shutdown** (`ClusterShutdown_proofs`), for every cluster, every list of steps and any
number of crashes. `Links` says what the connections hold: who was asked is connected since,
and what it has sent it has finished. `Barrier` is `StepBarrier` for the step at hand:
whoever was asked earlier has done it, unless the master still waits for it. `Left`
is `NothingLeftBehind` on the way: without latecomers every process that runs was asked in
each closing step so far that names its type, and a slave has been told to start nothing.
The theorems (`StepsInOrder`, `LeavesNothing`) hold while no second shutdown is requested,
as a second request breaks both (section 6); the run has one request. Assumptions: those
on `server_conf.xml` that the code relies on, in `ShutdownAssumption`.

Only model-checked: liveness (`PushReturns`, `EveryJobCompletes`, `JoinReturns`,
`ShutdownCompletes`, `MeshForms`, `WantedNodesRun`, `EndNoticed`, `Flushed`,
`GivenTasksFinish`, `BufferedTasksTaken`, `MessagesAreReceived`, `RequestsAnswered`), as
fairness and ENABLED are beyond the prover.

## 6. Findings

*A dirty descriptor* (`sllib/slnet/slchannel.cpp:220`, run `net_dirty_descriptor`).
`clearState` clears the flags before `stopSend` looks at them, so a channel destroyed
with packets waiting leaves its write handler in the poller's table. The next channel
with that descriptor is registered by `EPOLL_CTL_MOD`, which fails since the closed
descriptor is not in the set: it is never read, and what it could not send at once never
leaves, against the comment at `slchannel.cpp:128`.

Other weaknesses, which appear as guards, excuses or bounds of the models (section 4) or
lie outside them:

* *A second shutdown request* (`logic/monitor/ShutDown.cpp:94`) is only asserted against.
  A release build starts the next step while one is open; with `MaxRequests = 2`,
  `ClusterShutdown` violates `StepBarrier`, `NothingLeftBehind` and
  `ShutdownCompletes`.
* *NOTIFY steps never end* (`logic/monitor/ShutDown.cpp:164`, `:38`): no module handles
  EVENT_SHUTDOWN_NOTIFY or raises EVENT_SHUTDOWN_COMPLETE, on which the acknowledgement
  hangs. The first step of `src/build/linux/core/server_conf.xml` notifies one of the logics, so a
  cluster with a logic that is shut down with that file waits in this step.
* *A new master takes the cluster for started* (`logic/starter/Starter.cpp:124`, `:110`): if the
  nodes that still run reach it before a slave does, they set STAT_STARTED, no slave makes it
  call `startServer`, and what does not run then is never ordered.
* *A task is handed over before it is let go* (`sllib/slthread/sltpthread.cpp:20`, `:143`):
  `addFiniTask` comes before the write of `m_currTask`, so the main thread may release the
  task while `m_currTask` still refers to it. The worker does not use it any more.
* *A second ticket over one connection* (`logic/gate/Gate.cpp:251`, `:294`): the answer to the
  first lets the client in under the second, until that one is decided too.
* *A restarted auth server stays away* (`logic/master/Master.cpp:41` with
  `logic/cluster/Cluster.cpp:42`): it is the one to dial the gates, and is told of none.
* *One key for all shared memory* (`sllib/slshm/slshm_mgr.cpp:32`): the name of the
  key file is passed on as `TEXT(<name>)`. On Linux `ftok` finds no such file, and `FtoK`
  (`public/slshm_create.h:143`) returns errno as the key, the same for every session.
* *A node that reports again* (`logic/master/Master.cpp:41`): the master never removes a
  node from `_nodes`, so a restarted node, or one whose connection to the master broke,
  trips the assertion and is told of no other node (the excuse of `MeshForms`).
* *A worker of the thread pool that ends* kills the process (`sltpthread.cpp:157`).
* *A gate dies with each client that leaves* (`logic/agent/Agent.cpp:121`).
* *The loop of `IPCEngine`* (`kernel/ipc/slipc_engine.cpp:80-102`) has no way out once there
  is a session: `needBreak` leaves the inner loop only.
* *The connection pool* (`sllib/sldb/sldb_connection_pool.cpp:45`) compares with `<=` and
  opens one connection more than its maximum; line 55 takes the front of an empty list.
* *An empty pool of identifiers* (`logic/idmgr/IdMgr.cpp:71`): `allocID` reads before the
  vector. Pools get 20 identifiers every ten seconds at most.

## 7. Assumptions and limits

* Stores of one thread become visible in program order, and a `volatile` variable
  is read anew every time.
* A TCP connection is FIFO and reports its end after everything sent before it,
  or loses what was under way when it breaks.
* An end of a connection notices that the other end is gone before a new
  connection of the same peer is accepted: a process is restarted half a second
  after its exit at the earliest, and a session redials after a second.
  `ClusterFormation` and `ClusterShutdown` further take for granted that the
  network layer reports ends; `NetChannel` shows where that holds and where not.
* `StartUp`: the announcement `MASTER_MSG_SERVER_STARTED` and its timer are left out, as no
  module handles that message; the scores of `StartNodeStrategy::choose` are left open;
  `execv` succeeds.
* `TimerWheel`: resume is not called from within the timer's own callback, and only
  live timers are killed (the logic code does neither); the order of the timers
  within one list is left open; the clock is bounded by `MaxNow`.
* `NetChannel`: Linux with epoll; connecting blocks, as `EndPoint::connect` makes the
  socket non-blocking only afterwards, so the branch for a connection that is not
  established yet is not reached; the addresses of channels are distinct; memory
  is not exhausted. Errors other than the end of a connection do not occur.
* `ThreadPool`: Windows with its auto-created, manually reset events; `destroy` is called
  once, and nothing is added after it.
* `IpcSession`: one direction of one session, served by a loop that comes back to it; what
  is sent behind a torn message is not modelled, as nothing is claimed of it. The shared
  memory is not removed while a process lives. How it is created is outside the model: a ring
  is taken to belong to one session, which holds on Linux only while there is one (section 6).
* `ChatLogin`: the same ticket may be let in
  at two gates, and a token may be given again. Heartbeats are the client's leaving.
* `IdMgr`: the clock is not set back (`system_clock` may be), and an empty pool is not
  asked.

### Not modelled

The database (`logic/dccenter`, `kernel/db`, `sllib/sldb`, `sllib/slredis`), script, XML,
configuration and logging code is sequential data processing and I/O, with little
order or failure of its own to check; the exception, the connection pool of `sllib/sldb`,
is in the plan. `Monitor` and `MonitorClient` forward one request, with which
`ClusterShutdown` begins. `EventEngine` calls back synchronously: its calls are part of
the actions that make them. The clients in `logic/client` and `logic/robot` are tests.
`Balance` and `CapacityPublisher` keep the last load that was reported. `IPCEngine` as a
whole is a loop without an exit. The larger part of the repository by lines
is vendored (`public/google`, Lua, hiredis, tinyxml, the MySQL client), which the
modules take as given.
