------------------------------ MODULE NetChannel ------------------------------
(***************************************************************************)
(* The network layer of one process on Linux: the channels and packet      *)
(* handlers of src/src/sllib/slnet, the epoll poller with its table of     *)
(* handlers, and the sessions of src/src/kernel/net that the channels call *)
(* back.  Everything runs in the main thread; the peers and the operating  *)
(* system move between any two steps.                                      *)
(*                                                                         *)
(* A descriptor whose channel was closed is given to the next one, so the  *)
(* entry of the table that the first channel leaves behind matters to the  *)
(* second.  connect blocks until it succeeds or fails (the socket becomes  *)
(* non-blocking afterwards), so a channel exists only once it is connected.*)
(* Packets are counted, not told apart.                                    *)
(***************************************************************************)
EXTENDS Integers, FiniteSets

CONSTANTS
  Chan,      \* the Channel objects of the pool
  Fd,        \* descriptors the operating system gives out
  None,
  SendSize,  \* packets that fit into _sendBuf
  Window,    \* bound: packets the system takes for a peer that does not read
  MaxInbox   \* bound: packets that wait in a socket

ASSUME ChannelAssumption ==
  /\ None \notin Chan \cup Fd
  /\ SendSize \in Nat \ {0} /\ Window \in Nat \ {0} /\ MaxInbox \in Nat \ {0}

VARIABLES
  ch,       \* channel -> [st, fd, sending, buf]: free in the pool, open or destroyed;
            \* its descriptor, FLAG_SENDING, packets in _sendBuf
  handler,  \* _fdHandlers: fd -> the channels of readHandler and writeHandler
  epoll,    \* what the system polls a descriptor for, {} when it is not in the set
  inbox,    \* channel -> packets that its socket has received
  hung,     \* channel -> the peer has closed or reset the connection
  room,     \* channel -> packets the system still takes
  polling,  \* processPendingEvents is under way
  batch,    \* the events of this round that are not handled yet
  task,     \* the event that is being handled
  pending,  \* packets parsed from _recvBuf that onRecv has not been called for
  dirty,    \* descriptors left with a writeHandler by a destroyed channel (history)
  own,      \* the channel being read was destroyed from within its onRecv (history)
  fate      \* alive, or what ended the process: a released session was called, or SIGPIPE

net == <<ch, handler, epoll, room, dirty>>
peer == <<inbox, hung>>
vars == <<net, peer, polling, batch, task, pending, own, fate>>

Side == {"read", "write"}
Other(side) == IF side = "read" THEN "write" ELSE "read"

Alive == fate = "alive"
Idle == [op |-> "idle"]
Open == {c \in Chan : ch[c].st = "open"}
FreeFds == Fd \ {ch[c].fd : c \in Open}
Closed == [st |-> "destroyed", fd |-> None, sending |-> FALSE, buf |-> 0]

Init == /\ ch = [c \in Chan |-> [Closed EXCEPT !.st = "free"]]
        /\ handler = [f \in Fd |-> [s \in Side |-> None]]
        /\ epoll = [f \in Fd |-> {}]
        /\ inbox = [c \in Chan |-> 0]
        /\ hung = [c \in Chan |-> FALSE]
        /\ room = [c \in Chan |-> Window]
        /\ polling = FALSE /\ batch = {} /\ task = Idle /\ pending = 0
        /\ dirty = {} /\ own = FALSE /\ fate = "alive"

-----------------------------------------------------------------------------
\* The poller.

\* Mistake: a descriptor is always added, and never changed.
CtlAdding(h, e, f, side, on) ==
  IF on THEN IF e[f] = {} THEN {side} ELSE e[f]
  ELSE IF h[f][Other(side)] # None THEN e[f] ELSE {}

\* EpollPoller::doRegister, with the table h and what was polled for, e.  The other
\* handler of the entry decides between changing and adding or deleting; changing a
\* descriptor that is not in the set fails, and so does adding one that is.
Ctl(h, e, f, side, on) ==
  IF h[f][Other(side)] # None
  THEN IF e[f] = {} THEN {} ELSE IF on THEN Side ELSE {Other(side)}
  ELSE IF ~on THEN {} ELSE IF e[f] = {} THEN {side} ELSE e[f]

SetHandler(h, f, side, c) == [h EXCEPT ![f][side] = c]

-----------------------------------------------------------------------------
\* What the process does to a channel.

\* Mistake: the channel goes back to the pool at once.
DestroyReleasing(c) ==
  LET f == ch[c].fd
  IN  /\ ch' = [ch EXCEPT ![c] = [Closed EXCEPT !.st = "free"]]
      /\ handler' = SetHandler(handler, f, "read", None)
      /\ epoll' = [epoll EXCEPT ![f] = {}]
      /\ dirty' = IF handler[f]["write"] # None THEN dirty \cup {f} ELSE dirty
      /\ UNCHANGED room

\* destroy: onTerminate, the session is released, and clearState.  It clears the
\* flags before it calls stopSend, which then does nothing: a writeHandler stays in
\* the table.  Closing the descriptor takes it out of the poller's set.
Destroy(c) ==
  LET f == ch[c].fd
  IN  /\ ch' = [ch EXCEPT ![c] = Closed]
      /\ handler' = SetHandler(handler, f, "read", None)
      /\ epoll' = [epoll EXCEPT ![f] = {}]
      /\ dirty' = IF handler[f]["write"] # None THEN dirty \cup {f} ELSE dirty
      /\ UNCHANGED room

\* Mistake: everything is taken for sent.
TakenAll(c, n) == {n}

\* How much of n packets the system takes.  Towards a peer that has closed, send may
\* fail; the result is ignored.
Taken(c, n) == {IF n <= room[c] THEN n ELSE room[c]} \cup (IF hung[c] THEN {0} ELSE {})

\* send: what the system does not take at once is left to the poller.
Send(c) ==
  \/ ch[c].buf = SendSize /\ Destroy(c)
  \/ /\ ch[c].sending /\ ch[c].buf < SendSize
     /\ ch' = [ch EXCEPT ![c].buf = @ + 1]
     /\ UNCHANGED <<handler, epoll, room, dirty>>
  \/ /\ ~ch[c].sending /\ ch[c].buf < SendSize
     /\ \E n \in Taken(c, ch[c].buf + 1) :
          LET left == ch[c].buf + 1 - n
              f == ch[c].fd
              h == SetHandler(handler, f, "write", c)
          IN  /\ room' = [room EXCEPT ![c] = @ - n]
              /\ ch' = [ch EXCEPT ![c].buf = left, ![c].sending = left > 0]
              /\ handler' = IF left > 0 THEN h ELSE handler
              /\ epoll' = IF left > 0
                          THEN [epoll EXCEPT ![f] = Ctl(h, epoll, f, "write", TRUE)]
                          ELSE epoll
     /\ UNCHANGED dirty

\* A channel for a new connection, dialled or accepted: its constructor registers it
\* for reading, and onEstablish may send a packet.  The channel is not connected yet,
\* so the packet waits for the poller.
NewChannel(c) ==
  /\ ch[c].st = "free"
  /\ \E f \in FreeFds, k \in 0 .. 1 :
       LET h1 == SetHandler(handler, f, "read", c)
           e1 == [epoll EXCEPT ![f] = Ctl(h1, epoll, f, "read", TRUE)]
           h2 == SetHandler(h1, f, "write", c)
       IN  /\ ch' = [ch EXCEPT ![c] = [st |-> "open", fd |-> f, sending |-> k = 1, buf |-> k]]
           /\ handler' = IF k = 1 THEN h2 ELSE h1
           /\ epoll' = IF k = 1 THEN [e1 EXCEPT ![f] = Ctl(h2, e1, f, "write", TRUE)] ELSE e1
  /\ UNCHANGED <<room, dirty>>

\* What the program does to its channels: between two rounds of the network (timers,
\* the other engines), and from the callbacks onRecv and onTerminate within one.  A
\* session that is told of its end lets its own channel alone.
App ==
  /\ Alive /\ (~polling \/ task.op \in {"onRecv", "onTerminate"})
  /\ \/ \E c \in Open : Send(c) \/ Destroy(c)
     \/ \E c \in Chan : NewChannel(c)
  /\ own' = (own \/ (task.op = "onRecv" /\ task.c \in Open /\ ch'[task.c].st # "open"))
  /\ UNCHANGED <<peer, polling, batch, task, pending, fate>>

-----------------------------------------------------------------------------
\* A round of the network.

\* The channel whose socket has descriptor f.
At(f) == CHOOSE c \in Open : ch[c].fd = f

\* The events epoll_wait may report.  Errors are reported whatever is polled for.
Event(f, err) == [fd  |-> f,
                  err |-> err,
                  in  |-> "read" \in epoll[f] /\ (inbox[At(f)] > 0 \/ hung[At(f)]),
                  out |-> "write" \in epoll[f] /\ (room[At(f)] > 0 \/ hung[At(f)])]

\* epoll_wait.
Poll == /\ Alive /\ ~polling
        /\ polling' = TRUE
        /\ LET watched == {f \in Fd : epoll[f] # {}}
           IN  \E errs \in SUBSET {f \in watched : hung[At(f)]} :
                 batch' = {e \in {Event(f, f \in errs) : f \in watched} :
                             e.err \/ e.in \/ e.out}
        /\ UNCHANGED <<net, peer, task, pending, own, fate>>

\* processPendingEvents: triggerError, or triggerRead and then triggerWrite.
Dispatch(e) ==
  /\ Alive /\ task = Idle /\ e \in batch
  /\ batch' = batch \ {e}
  /\ LET reader == handler[e.fd]["read"]
     IN  \/ /\ (e.err \/ e.in) /\ reader # None
            /\ task' = [op |-> "recv", c |-> reader, fd |-> e.fd, out |-> e.out /\ ~e.err]
         \/ /\ IF e.err THEN reader = None ELSE e.out /\ (~e.in \/ reader = None)
            /\ task' = [op |-> "write", fd |-> e.fd]
         \/ /\ ~e.err /\ ~e.out /\ reader = None
            /\ task' = Idle
  /\ own' = FALSE
  /\ UNCHANGED <<net, peer, polling, pending, fate>>

\* The listener's event comes at any place among the others.
Accept(c) == /\ Alive /\ polling /\ task = Idle
             /\ NewChannel(c)
             /\ UNCHANGED <<peer, polling, batch, task, pending, own, fate>>

\* After the read handler the write handler is called.
ReadDone == IF task.out THEN [op |-> "write", fd |-> task.fd] ELSE Idle

\* Mistake: the end of the connection is taken for an empty socket.
RecvIgnoringEnd ==
  /\ Alive /\ task.op = "recv"
  /\ IF ch[task.c].st = "open" /\ inbox[task.c] > 0
     THEN /\ pending' = inbox[task.c]
          /\ inbox' = [inbox EXCEPT ![task.c] = 0]
          /\ task' = [task EXCEPT !.op = "parse"]
     ELSE task' = ReadDone /\ UNCHANGED <<pending, inbox>>
  /\ UNCHANGED <<net, hung, polling, batch, own, fate>>

\* Mistake: a destroyed channel is read.
RecvUnchecked ==
  /\ Alive /\ task.op = "recv"
  /\ LET c == task.c
     IN  \/ /\ inbox[c] > 0
            /\ pending' = inbox[c]
            /\ inbox' = [inbox EXCEPT ![c] = 0]
            /\ task' = [task EXCEPT !.op = "parse"]
            /\ UNCHANGED net
         \/ /\ ch[c].st = "open" /\ inbox[c] = 0 /\ hung[c]
            /\ Destroy(c)
            /\ task' = ReadDone
            /\ UNCHANGED <<pending, inbox>>
         \/ /\ inbox[c] = 0 /\ (ch[c].st # "open" \/ ~hung[c])
            /\ task' = ReadDone
            /\ UNCHANGED <<net, pending, inbox>>
  /\ UNCHANGED <<hung, polling, batch, own, fate>>

\* processRecv, which handleInputNotification repeats until the socket is empty or
\* the channel destroyed.
Recv ==
  /\ Alive /\ task.op = "recv"
  /\ LET c == task.c
     IN  \/ /\ ch[c].st = "open" /\ inbox[c] > 0
            /\ pending' = inbox[c]
            /\ inbox' = [inbox EXCEPT ![c] = 0]
            /\ task' = [task EXCEPT !.op = "parse"]
            /\ UNCHANGED net
         \/ /\ ch[c].st = "open" /\ inbox[c] = 0 /\ hung[c]
            /\ Destroy(c)
            /\ task' = [task EXCEPT !.op = "onTerminate"]
            /\ UNCHANGED <<pending, inbox>>
         \/ /\ ch[c].st # "open" \/ (inbox[c] = 0 /\ ~hung[c])
            /\ task' = ReadDone
            /\ UNCHANGED <<net, pending, inbox>>
  /\ UNCHANGED <<hung, polling, batch, own, fate>>

\* The loop of processPackets over the packets received: onRecv is called whether or
\* not the packet before has led to the channel's end, and that has released the
\* session.  A packet that does not parse ends the channel and the loop.
ProcessPackets ==
  /\ Alive /\ task.op = "parse"
  /\ LET c == task.c
     IN  \/ /\ ch[c].st = "open"
            /\ task' = [task EXCEPT !.op = "onRecv"]
            /\ pending' = pending - 1
            /\ UNCHANGED <<net, fate>>
         \/ /\ ch[c].st # "open"
            /\ fate' = "released"
            /\ UNCHANGED <<net, task, pending>>
         \/ /\ pending' = 0
            /\ IF ch[c].st = "open"
               THEN Destroy(c) /\ task' = [task EXCEPT !.op = "onTerminate"]
               ELSE UNCHANGED net /\ task' = [task EXCEPT !.op = "recv"]
            /\ UNCHANGED fate
  /\ UNCHANGED <<peer, polling, batch, own>>

\* A callback returns.  After the end of the channel processRecv may be called once
\* more, and finds it destroyed.
Return == /\ Alive /\ task.op \in {"onRecv", "onTerminate"}
          /\ task' = [task EXCEPT !.op = IF pending = 0 THEN "recv" ELSE "parse"]
          /\ UNCHANGED <<net, peer, polling, batch, pending, own, fate>>

\* onSendCompleted.
StopsSend(left) == left = 0

\* handleOutputNotification.
Write ==
  /\ Alive /\ task.op = "write"
  /\ task' = Idle
  /\ LET f == task.fd
         c == handler[f]["write"]
         h == SetHandler(handler, f, "write", None)
     IN  \/ /\ c \notin Open
            /\ UNCHANGED net
         \/ /\ c \in Open
            /\ \E n \in Taken(c, ch[c].buf) :
                 LET left == ch[c].buf - n
                 IN  /\ room' = [room EXCEPT ![c] = @ - n]
                     /\ ch' = [ch EXCEPT ![c].buf = left, ![c].sending = ~StopsSend(left)]
                     /\ handler' = IF StopsSend(left) THEN h ELSE handler
                     /\ epoll' = IF StopsSend(left)
                                 THEN [epoll EXCEPT ![f] = Ctl(h, epoll, f, "write", FALSE)]
                                 ELSE epoll
            /\ UNCHANGED dirty
  /\ UNCHANGED <<peer, polling, batch, pending, own, fate>>

\* recoverDestroyChannel, at the end of the round.  (inbox, hung and room describe the
\* socket, and go with the channel.)
EndRound ==
  /\ Alive /\ polling /\ task = Idle /\ batch = {}
  /\ polling' = FALSE
  /\ LET gone == {c \in Chan : ch[c].st = "destroyed"}
     IN  /\ ch' = [c \in Chan |-> IF c \in gone THEN [Closed EXCEPT !.st = "free"] ELSE ch[c]]
         /\ inbox' = [c \in Chan |-> IF c \in gone THEN 0 ELSE inbox[c]]
         /\ hung' = [c \in Chan |-> c \notin gone /\ hung[c]]
         /\ room' = [c \in Chan |-> IF c \in gone THEN Window ELSE room[c]]
  /\ UNCHANGED <<handler, epoll, dirty, batch, task, pending, own, fate>>

-----------------------------------------------------------------------------
\* The peers.

PeerSends(c) == /\ Alive /\ c \in Open /\ ~hung[c] /\ inbox[c] < MaxInbox
                /\ inbox' = [inbox EXCEPT ![c] = @ + 1]
                /\ UNCHANGED <<net, hung, polling, batch, task, pending, own, fate>>

PeerReads(c) == /\ Alive /\ c \in Open /\ ~hung[c] /\ room[c] < Window
                /\ room' = [room EXCEPT ![c] = Window]
                /\ UNCHANGED <<ch, handler, epoll, dirty, peer, polling, batch, task, pending,
                               own, fate>>

PeerCloses(c) == /\ Alive /\ c \in Open /\ ~hung[c]
                 /\ hung' = [hung EXCEPT ![c] = TRUE]
                 /\ UNCHANGED <<net, inbox, polling, batch, task, pending, own, fate>>

\* Sending on a connection that the peer has reset raises SIGPIPE, which this code
\* neither ignores nor handles.
BrokenPipe(c) ==
  /\ Alive /\ c \in Open /\ hung[c]
  /\ \/ ~polling \/ task.op \in {"onRecv", "onTerminate"}
     \/ task.op = "write" /\ handler[task.fd]["write"] = c
  /\ fate' = "pipe"
  /\ UNCHANGED <<net, peer, polling, batch, task, pending, own>>

\* The network's share of the main loop.
Loop == Poll \/ (\E e \in batch : Dispatch(e)) \/ Recv \/ ProcessPackets \/ Return \/ Write \/ EndRound

Next == \/ Loop \/ App
        \/ \E c \in Chan : Accept(c) \/ PeerSends(c) \/ PeerReads(c) \/ PeerCloses(c)
                       \/ BrokenPipe(c)

Spec == Init /\ [][Next]_vars

\* The main loop never stops polling; a peer that lives reads what it is sent.
FairSpec == Spec /\ WF_vars(Loop) /\ \A c \in Chan : WF_vars(PeerReads(c))

-----------------------------------------------------------------------------
TypeOK ==
  /\ ch \in [Chan -> [st : {"free", "open", "destroyed"}, fd : Fd \cup {None},
                      sending : BOOLEAN, buf : 0 .. SendSize]]
  /\ handler \in [Fd -> [Side -> Chan \cup {None}]]
  /\ epoll \in [Fd -> SUBSET Side]
  /\ inbox \in [Chan -> 0 .. MaxInbox] /\ hung \in [Chan -> BOOLEAN]
  /\ room \in [Chan -> 0 .. Window]
  /\ polling \in BOOLEAN /\ fate \in {"alive", "released", "pipe"} /\ pending \in 0 .. MaxInbox
  /\ dirty \subseteq Fd /\ own \in BOOLEAN
  /\ \A e \in batch : e.fd \in Fd
  /\ task.op \in {"idle", "recv", "parse", "onRecv", "onTerminate", "write"}

\* The poller watches a channel for what the channel waits for: for input always,
\* for output exactly while packets wait to be sent.  This fails only for a channel
\* on a descriptor that an earlier one left dirty.
WatchedUnlessDirty ==
  \A c \in Open :
    ch[c].fd \notin dirty =>
      /\ epoll[ch[c].fd] = IF ch[c].sending THEN Side ELSE {"read"}
      /\ ch[c].sending = (ch[c].buf > 0)

\* What send's comment says: what cannot be handed to the system at once is handed
\* to the poller.
LeftToThePoller ==
  \A c \in Open : ch[c].sending => "write" \in epoll[ch[c].fd]

\* An event reaches the channel whose descriptor it is for, or one that was destroyed
\* in this very round and knows it: never one that is back in the pool, or that has
\* been given to another connection.
EventsReachTheirChannel ==
  /\ \A e \in batch, s \in Side :
       handler[e.fd][s] # None =>
         \/ ch[handler[e.fd][s]].fd = e.fd
         \/ ch[handler[e.fd][s]].st = "destroyed"
  /\ task.op \in {"recv", "parse", "onRecv"} => ch[task.c].st # "free"

\* A session that has been told of its end is not called again, unless it was its own
\* onRecv that ended the channel while more packets were waiting.
CalledAfterEndOnlyByOwnDoing == fate = "released" => own

\* The read loop of a channel does not end while its peer keeps the socket filled.
PeersSendForEver == []<><<\E c \in Chan : PeerSends(c)>>_vars

\* A process notices that the peer of channel c is gone, and closes the channel,
\* whatever the other channels and the callbacks do.
NoticesEnd(c) ==
  \/ PeersSendForEver
  \/ (c \in Open /\ hung[c] /\ ch[c].fd \notin dirty) ~> (c \notin Open \/ ~Alive)

\* Packets that had to wait are handed over when the system takes packets again: until
\* none waits, or it takes no more.
Flushes(c) ==
  \/ PeersSendForEver
  \/ (c \in Open /\ ch[c].buf > 0 /\ room[c] > 0 /\ ch[c].fd \notin dirty)
       ~> (c \notin Open \/ ch[c].buf = 0 \/ room[c] = 0 \/ ~Alive)
=============================================================================
