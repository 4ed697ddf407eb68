--------------------------- MODULE NetChannel_proofs ---------------------------
(***************************************************************************)
(* What holds of the network layer for any number of channels and          *)
(* descriptors and any sizes: the table of handlers and the poller's set   *)
(* fit the channels, except on descriptors that a destroyed channel has    *)
(* left with its writeHandler; the events of a round reach their channel;  *)
(* and a released session is called through one way only.                  *)
(***************************************************************************)
EXTENDS NetChannel, TLAPS

Reader(f) == handler[f]["read"]
Writer(f) == handler[f]["write"]

IsOpen(c) == ch[c].st = "open"

Channels == [Chan -> [st : {"free", "open", "destroyed"}, fd : Fd \cup {None},
                      sending : BOOLEAN, buf : 0 .. SendSize]]

NetTypes ==
  /\ ch \in Channels
  /\ handler \in [Fd -> [Side -> Chan \cup {None}]]
  /\ epoll \in [Fd -> SUBSET Side]
  /\ room \in [Chan -> 0 .. Window]
  /\ dirty \subseteq Fd

\* The readHandler of a descriptor is the channel that has it, and what nobody reads is
\* not polled.
Readers ==
  /\ \A c \in Chan : IsOpen(c) => ch[c].fd \in Fd
  /\ \A f \in Fd, c \in Chan : Reader(f) = c <=> IsOpen(c) /\ ch[c].fd = f
  /\ \A f \in Fd : Reader(f) = None => epoll[f] = {}

\* A writeHandler of another channel is left only where nothing is polled for: EPOLL_CTL_MOD
\* fails there for ever.
Writers == \A f \in Fd : epoll[f] # {} => Writer(f) \in {None, Reader(f)}

\* On a clean descriptor the table and the poller are as the channel needs them.
Fits(r, w, e, sending, buf) ==
  IF r = None THEN w = None
  ELSE /\ w = IF sending THEN r ELSE None
       /\ e = IF sending THEN Side ELSE {"read"}
       /\ sending = (buf > 0)

CleanAt(f) ==
  Fits(Reader(f), Writer(f), epoll[f], ch[Reader(f)].sending, ch[Reader(f)].buf)

Clean == \A f \in Fd \ dirty : CleanAt(f)

Wired == NetTypes /\ Readers /\ Writers /\ Clean

\* A descriptor with an event of this round: who is called has it, or was destroyed.
Served(f) == \/ Writer(f) \in {None, Reader(f)}
             \/ ch[Writer(f)].st = "destroyed"

\* What the operations on channels keep, besides Wired.
Keeps == /\ \A f \in Fd : Served(f) => Served(f)'
         /\ \A c \in Chan : ch[c].st # "free" => ch'[c].st # "free"

LEMMA Constants ==
  /\ None \notin Chan /\ None \notin Fd
  /\ SendSize \in Nat \ {0} /\ Window \in Nat \ {0} /\ MaxInbox \in Nat \ {0}
BY ChannelAssumption

\* One entry of the table changes.
LEMMA Setting ==
  ASSUME NEW h \in [Fd -> [Side -> Chan \cup {None}]], NEW f \in Fd, NEW side \in Side,
         NEW c \in Chan \cup {None}
  PROVE  /\ SetHandler(h, f, side, c) \in [Fd -> [Side -> Chan \cup {None}]]
         /\ SetHandler(h, f, side, c)[f][side] = c
         /\ \A g \in Fd, s \in Side :
              g # f \/ s # side => SetHandler(h, f, side, c)[g][s] = h[g][s]
BY DEF SetHandler, Side

-----------------------------------------------------------------------------
\* The operations on a channel.
LEMMA DestroyWired ==
  ASSUME Wired, NEW c \in Chan, IsOpen(c), Destroy(c)
  PROVE  Wired' /\ Keeps
<1>a. PICK f : f = ch[c].fd
  OBVIOUS
<1>1. /\ NetTypes /\ Readers /\ Writers /\ Clean
      /\ handler \in [Fd -> [Side -> Chan \cup {None}]]
      /\ f \in Fd /\ "read" \in Side /\ "write" \in Side
      /\ Reader(f) = c
  BY <1>a DEF Wired, NetTypes, Channels, Readers, Side
<1>2. /\ ch' = [ch EXCEPT ![c] = Closed]
      /\ handler' = SetHandler(handler, f, "read", None)
      /\ epoll' = [epoll EXCEPT ![f] = {}]
      /\ dirty' = IF Writer(f) # None THEN dirty \cup {f} ELSE dirty
      /\ room' = room
  BY <1>a DEF Destroy, Writer
<1>3. /\ handler' \in [Fd -> [Side -> Chan \cup {None}]]
      /\ Reader(f)' = None
      /\ \A g \in Fd : Writer(g)' = Writer(g) /\ (g # f => Reader(g)' = Reader(g))
  BY <1>1, <1>2, Setting DEF Reader, Writer
<1>4. /\ Closed \in [st : {"free", "open", "destroyed"}, fd : Fd \cup {None},
                     sending : BOOLEAN, buf : 0 .. SendSize]
      /\ Closed.st = "destroyed"
  BY Constants DEF Closed
<1>5. NetTypes'
  BY <1>1, <1>2, <1>3, <1>4 DEF NetTypes, Channels
<1>6. ch'[c].st = "destroyed" /\ \A d \in Chan : d # c => ch'[d] = ch[d]
  BY <1>1, <1>2, <1>4 DEF NetTypes, Channels
<1>7. epoll'[f] = {} /\ \A g \in Fd : g # f => epoll'[g] = epoll[g]
  BY <1>1, <1>2 DEF NetTypes, Channels
<1>8. Readers'
  <2>1. \A d \in Chan : IsOpen(d)' => IsOpen(d) /\ d # c /\ ch'[d] = ch[d]
    BY <1>6 DEF IsOpen
  <2>2. \A d \in Chan : d # c => (IsOpen(d)' <=> IsOpen(d)) /\ ch'[d] = ch[d]
    BY <1>6 DEF IsOpen
  <2>3. ASSUME NEW g \in Fd, NEW d \in Chan
        PROVE  Reader(g)' = d <=> IsOpen(d)' /\ ch'[d].fd = g
    <3>1. CASE g = f
      BY <1>1, <1>3, <2>1, <3>1, <1>a, Constants DEF Readers
    <3>2. CASE g # f
      BY <1>1, <1>3, <2>1, <2>2, <3>2, <1>a DEF Readers
    <3> QED
      BY <3>1, <3>2
  <2> QED
    BY <1>1, <1>3, <1>7, <2>1, <2>3 DEF Readers
<1>9. Writers'
  BY <1>1, <1>3, <1>7 DEF Writers
<1>10. Clean'
  <2> SUFFICES ASSUME NEW g \in Fd, g \notin dirty' PROVE CleanAt(g)'
    BY DEF Clean
  <2>1. CASE g = f
    BY <1>2, <1>3, <2>1 DEF CleanAt, Fits
  <2>2. CASE g # f
    <3>1. CleanAt(g)
      BY <1>1, <1>2, <2>2 DEF Clean
    <3>2. Reader(g) # c
      BY <1>1, <2>2, <1>a DEF Readers
    <3>3. Reader(g) = None \/ Reader(g) \in Chan
      BY <1>1 DEF Reader, Side
    <3>4. Reader(g) # None => ch'[Reader(g)] = ch[Reader(g)]
      BY <1>6, <3>2, <3>3
    <3>5. Reader(g)' = Reader(g) /\ Writer(g)' = Writer(g) /\ epoll'[g] = epoll[g]
      BY <1>3, <1>7, <2>2
    <3> QED
      BY <3>1, <3>4, <3>5 DEF CleanAt, Fits
  <2> QED
    BY <2>1, <2>2
<1>11. Keeps
  <2>1. ASSUME NEW g \in Fd, Served(g) PROVE Served(g)'
    <3>1. Writer(g) \in Chan \cup {None}
      BY <1>1 DEF Writer
    <3>2. CASE Writer(g) = c
      BY <1>3, <1>6, <3>2 DEF Served
    <3>3. CASE Writer(g) = None
      BY <1>3, <3>3 DEF Served
    <3>4. CASE Writer(g) # c /\ Writer(g) # None
      <4>1. ch'[Writer(g)] = ch[Writer(g)] /\ Writer(g)' = Writer(g)
        BY <1>3, <1>6, <3>1, <3>4
      <4>2. g = f => Reader(g) # Writer(g)
        BY <1>1, <3>4
      <4> QED
        BY <1>3, <2>1, <3>4, <4>1, <4>2 DEF Served
    <3> QED
      BY <3>2, <3>3, <3>4
  <2> QED
    BY <1>6, <2>1 DEF Keeps
<1> QED
  BY <1>5, <1>8, <1>9, <1>10, <1>11 DEF Wired

\* An operation that concerns one channel, open afterwards, and its descriptor.
LEMMA OneWired ==
  ASSUME Wired, NetTypes', NEW c \in Chan, NEW f \in Fd,
         \/ IsOpen(c) /\ ch[c].fd = f
         \/ ch[c].st = "free" /\ Reader(f) = None,
         IsOpen(c)', ch'[c].fd = f, Reader(f)' = c, dirty' = dirty,
         \A d \in Chan : d # c => ch'[d] = ch[d],
         \A g \in Fd : g # f => handler'[g] = handler[g] /\ epoll'[g] = epoll[g],
         Writer(f)' \in {None, c} \/ (Writer(f)' = Writer(f) /\ epoll'[f] = {}),
         f \notin dirty => CleanAt(f)'
  PROVE  Wired' /\ Keeps
<1>1. /\ NetTypes /\ Readers /\ Writers /\ Clean
      /\ \A g \in Fd : Reader(g) \in Chan \cup {None} /\ Writer(g) \in Chan \cup {None}
  BY DEF Wired, NetTypes, Channels, Reader, Writer, Side
<1>2. \A g \in Fd : g # f => Reader(g)' = Reader(g) /\ Writer(g)' = Writer(g)
  BY DEF Reader, Writer
<1>3. \A d \in Chan : d # c => (IsOpen(d)' <=> IsOpen(d))
  BY DEF IsOpen
<1>4. \A g \in Fd : g # f => Reader(g) # c
  BY <1>1 DEF Readers, IsOpen
<1>5. \A d \in Chan : d # c => Reader(f) # d
  BY <1>1, Constants DEF Readers
<1>6. Readers'
  <2>1. ASSUME NEW g \in Fd, NEW d \in Chan
        PROVE  Reader(g)' = d <=> IsOpen(d)' /\ ch'[d].fd = g
    <3>1. CASE d = c
      <4>1. g # f => Reader(g)' # c
        BY <1>2, <1>4
      <4> QED
        BY <3>1, <4>1
    <3>2. CASE d # c
      <4>1. Reader(g) = d <=> IsOpen(d)' /\ ch'[d].fd = g
        BY <1>1, <1>3, <3>2 DEF Readers
      <4>2. Reader(g)' = d <=> Reader(g) = d
        BY <1>2, <1>5, <3>2
      <4> QED
        BY <4>1, <4>2
    <3> QED
      BY <3>1, <3>2
  <2>2. \A d \in Chan : IsOpen(d)' => ch'[d].fd \in Fd
    BY <1>1, <1>3 DEF Readers
  <2>3. \A g \in Fd : Reader(g)' = None => epoll'[g] = {}
    BY <1>1, <1>2, Constants DEF Readers
  <2> QED
    BY <2>1, <2>2, <2>3 DEF Readers
<1>7. Writers'
  BY <1>1, <1>2 DEF Writers
<1>8. Clean'
  <2> SUFFICES ASSUME NEW g \in Fd, g \notin dirty' PROVE CleanAt(g)'
    BY DEF Clean
  <2>1. CASE g # f
    <3>1. CleanAt(g)
      BY <1>1 DEF Clean
    <3>2. Reader(g) # None => ch'[Reader(g)] = ch[Reader(g)]
      BY <1>1, <1>4, <2>1
    <3> QED
      BY <1>2, <2>1, <3>1, <3>2 DEF CleanAt, Fits
  <2> QED
    BY <2>1
<1>9. Keeps
  <2>1. ASSUME NEW g \in Fd, Served(g) PROVE Served(g)'
    <3>1. CASE ch[Writer(g)].st = "destroyed" /\ Writer(g) # None /\ Writer(g)' = Writer(g)
      <4>1. Writer(g) # c
        BY <3>1 DEF IsOpen
      <4>2. ch'[Writer(g)] = ch[Writer(g)]
        BY <1>1, <3>1, <4>1
      <4> QED
        BY <3>1, <4>2 DEF Served
    <3>2. CASE g # f /\ Writer(g) \in {None, Reader(g)}
      BY <1>2, <3>2 DEF Served
    <3>3. CASE g = f /\ Writer(g) \in {None, Reader(g)}
      <4>1. Reader(g) \in {None, c}
        BY <1>1, <1>5, <3>3
      <4> QED
        BY <3>3, <4>1 DEF Served
    <3>4. CASE g = f /\ Writer(f)' \in {None, c}
      BY <3>4 DEF Served
    <3> QED
      BY <1>2, <2>1, <3>1, <3>2, <3>3, <3>4 DEF Served
  <2>2. \A d \in Chan : ch[d].st # "free" => ch'[d].st # "free"
    BY DEF IsOpen
  <2> QED
    BY <2>1, <2>2 DEF Keeps
<1> QED
  BY <1>6, <1>7, <1>8, <1>9 DEF Wired

\* Packets are added to _sendBuf or taken from it.
Buffered(old, c, left, b) == [old EXCEPT ![c].buf = left, ![c].sending = b]

IsBuffered(new, old, c, left, b) ==
  /\ new \in Channels
  /\ new[c].st = old[c].st /\ new[c].fd = old[c].fd
  /\ new[c].sending = b /\ new[c].buf = left
  /\ \A d \in Chan : d # c => new[d] = old[d]

LEMMA Buffering ==
  ASSUME NEW old \in Channels, NEW c \in Chan, NEW left \in 0 .. SendSize, NEW b \in BOOLEAN
  PROVE  IsBuffered(Buffered(old, c, left, b), old, c, left, b)
<1>a. PICK r : r = [old[c] EXCEPT !.buf = left, !.sending = b]
  OBVIOUS
<1>b. PICK new : new = [old EXCEPT ![c] = r]
  OBVIOUS
<1>1. new = Buffered(old, c, left, b)
  BY <1>a, <1>b DEF Channels, Buffered
<1>2. /\ r \in [st : {"free", "open", "destroyed"}, fd : Fd \cup {None},
                sending : BOOLEAN, buf : 0 .. SendSize]
      /\ r.st = old[c].st /\ r.fd = old[c].fd /\ r.sending = b /\ r.buf = left
  BY <1>a DEF Channels
<1>4. new[c] = r /\ \A d \in Chan : d # c => new[d] = old[d]
  BY <1>b DEF Channels
<1>5. new \in Channels
  BY <1>2, <1>b DEF Channels
<1>6. IsBuffered(new, old, c, left, b)
  BY <1>2, <1>4, <1>5 DEF IsBuffered
<1> QED
  BY <1>1, <1>6

LEMMA BufferingAll ==
  \A old \in Channels : \A c \in Chan : \A left \in 0 .. SendSize : \A b \in BOOLEAN :
    IsBuffered(Buffered(old, c, left, b), old, c, left, b)
BY Buffering

\* What the system takes leaves the rest, and room for the rest.
LEMMA TakenBounds ==
  ASSUME NEW c \in Chan, room \in [Chan -> 0 .. Window], NEW m \in Nat, NEW n \in Taken(c, m)
  PROVE  n \in 0 .. m /\ room[c] - n \in 0 .. Window /\ m - n \in 0 .. m
<1>1. room[c] \in Nat /\ room[c] <= Window /\ Window \in Nat
  BY Constants
<1>2. (n = m /\ m <= room[c]) \/ (n = room[c] /\ ~(m <= room[c])) \/ n = 0
  BY DEF Taken
<1> QED
  BY <1>1, <1>2

\* Changing what is polled for on the descriptor of an open channel.
LEMMA CtlAtReader ==
  ASSUME NEW h, NEW e, NEW f, h[f]["read"] # None
  PROVE  /\ Ctl(h, e, f, "write", TRUE) = IF e[f] = {} THEN {} ELSE Side
         /\ Ctl(h, e, f, "write", FALSE) = IF e[f] = {} THEN {} ELSE {"read"}
BY DEF Ctl, Other, Side

LEMMA SendWired ==
  ASSUME Wired, NEW c \in Chan, IsOpen(c), Send(c)
  PROVE  Wired' /\ Keeps
<1>a. PICK f : f = ch[c].fd
  OBVIOUS
<1>1. /\ NetTypes /\ Readers /\ Writers /\ Clean
      /\ handler \in [Fd -> [Side -> Chan \cup {None}]]
      /\ room \in [Chan -> 0 .. Window]
      /\ epoll \in [Fd -> SUBSET Side]
      /\ f \in Fd /\ "read" \in Side /\ "write" \in Side
      /\ Reader(f) = c /\ c # None
      /\ ch[c].buf \in 0 .. SendSize
  BY <1>a, Constants DEF Wired, NetTypes, Channels, Readers, Side
<1>2. CASE ch[c].buf = SendSize /\ Destroy(c)
  BY <1>2, DestroyWired
<1>3. CASE /\ ch[c].sending /\ ch[c].buf < SendSize
           /\ ch' = [ch EXCEPT ![c].buf = @ + 1]
           /\ UNCHANGED <<handler, epoll, room, dirty>>
  <2>1. ch[c].buf + 1 \in 0 .. SendSize /\ ch[c].buf + 1 > 0
    BY <1>1, <1>3, Constants
  <2>b. PICK left : left = ch[c].buf + 1
    OBVIOUS
  <2>4. ch[c].sending = TRUE /\ ch \in Channels
    BY <1>1, <1>3 DEF NetTypes, Channels
  <2>d. ch' = Buffered(ch, c, left, TRUE)
    BY <1>3, <2>4, <2>b DEF Channels, Buffered
  <2>3. /\ ch' \in Channels /\ ch'[c].st = ch[c].st /\ ch'[c].fd = f
        /\ ch'[c].sending = TRUE /\ ch'[c].buf = left
        /\ \A d \in Chan : d # c => ch'[d] = ch[d]
    <3>1. left \in 0 .. SendSize
      BY <2>1, <2>b
    <3> QED
      <4>1. IsBuffered(ch', ch, c, left, TRUE)
        BY <2>4, <2>d, <3>1, Buffering, Zenon
      <4> QED
        BY <4>1, <1>a DEF IsBuffered
  <2>2. NetTypes'
    BY <1>1, <1>3, <2>3 DEF NetTypes
  <2>5. Reader(f)' = Reader(f) /\ Writer(f)' = Writer(f)
    BY <1>3 DEF Reader, Writer
  <2>6. f \notin dirty => CleanAt(f)'
    <3> SUFFICES ASSUME f \notin dirty PROVE CleanAt(f)'
      OBVIOUS
    <3>1. CleanAt(f)
      BY <1>1 DEF Clean
    <3>2. Writer(f) = c /\ epoll[f] = Side
      BY <1>1, <2>4, <3>1 DEF CleanAt, Fits
    <3> QED
      <4>1. Fits(c, c, Side, TRUE, left)
        BY <1>1, <2>1, <2>b DEF Fits
      <4> QED
        BY <1>1, <1>3, <2>3, <2>5, <3>2, <4>1 DEF CleanAt
  <2>7. Writer(f)' \in {None, c} \/ (Writer(f)' = Writer(f) /\ epoll'[f] = {})
    BY <1>1, <1>3, <2>5 DEF Writers
  <2> QED
    BY <1>1, <1>3, <1>a, <2>2, <2>3, <2>5, <2>6, <2>7, OneWired DEF IsOpen
<1>4. ASSUME ~ch[c].sending, ch[c].buf < SendSize,
             NEW n \in Taken(c, ch[c].buf + 1), NEW left, left = ch[c].buf + 1 - n,
             NEW h, h = SetHandler(handler, f, "write", c),
             room' = [room EXCEPT ![c] = @ - n],
             ch' = [ch EXCEPT ![c].buf = left, ![c].sending = left > 0],
             handler' = IF left > 0 THEN h ELSE handler,
             epoll' = IF left > 0 THEN [epoll EXCEPT ![f] = Ctl(h, epoll, f, "write", TRUE)]
                      ELSE epoll,
             dirty' = dirty
      PROVE  Wired' /\ Keeps
  <2>a. PICK m : m = ch[c].buf + 1
    OBVIOUS
  <2>b. m \in Nat /\ m <= SendSize /\ n \in Taken(c, m) /\ left = m - n
    <3>1. m \in Nat /\ m <= SendSize
      BY <1>1, <1>4, <2>a, Constants
    <3> QED
      <4>1. n \in Taken(c, m)
        BY <2>a, Zenon
      <4>2. left = m - n
        <5>1. n \in Nat /\ ch[c].buf \in Nat
          BY <1>1, <3>1, <4>1, TakenBounds
        <5> QED
          BY <1>4, <2>a, <5>1
      <4> QED
        BY <3>1, <4>1, <4>2
  <2>c. n \in 0 .. m /\ room[c] - n \in 0 .. Window /\ m - n \in 0 .. m
    BY <1>1, <2>b, TakenBounds
  <2>1. room[c] - n \in 0 .. Window /\ left \in 0 .. SendSize
    BY <2>b, <2>c, Constants
  <2>2. /\ h \in [Fd -> [Side -> Chan \cup {None}]]
        /\ h[f]["write"] = c /\ h[f]["read"] = c
        /\ \A g \in Fd, s \in Side : g # f => h[g][s] = handler[g][s]
    BY <1>1, <1>4 DEF SetHandler, Reader, Side
  <2>3. \A g \in Fd : g # f => h[g] = handler[g]
    BY <1>4 DEF SetHandler
  <2>4. Ctl(h, epoll, f, "write", TRUE) = IF epoll[f] = {} THEN {} ELSE Side
    BY <1>1, <2>2, CtlAtReader
  <2>d. PICK b \in BOOLEAN : (b = TRUE /\ left > 0) \/ (b = FALSE /\ ~(left > 0))
    OBVIOUS
  <2>5. ch' = Buffered(ch, c, left, b) /\ ch \in Channels
    <3>1. (left > 0) = b
      BY <2>1, <2>d
    <3> QED
      BY <1>1, <1>4, <3>1, Zenon DEF NetTypes, Buffered
  <2>7. /\ ch' \in Channels
        /\ ch'[c].st = ch[c].st /\ ch'[c].fd = f /\ ch'[c].sending = b /\ ch'[c].buf = left
        /\ \A d \in Chan : d # c => ch'[d] = ch[d]
    <3>1. IsBuffered(ch', ch, c, left, b)
      BY <2>1, <2>5, Buffering, Zenon
    <3> QED
      BY <3>1, <1>a DEF IsBuffered
  <2>6. NetTypes'
    <3>2. room' \in [Chan -> 0 .. Window]
      BY <1>1, <1>4, <2>1
    <3>3. epoll' \in [Fd -> SUBSET Side]
      BY <1>1, <1>4, <2>4
    <3> QED
      BY <1>1, <1>4, <2>2, <2>7, <3>2, <3>3 DEF NetTypes
  <2>8. CASE left > 0
    <3>1. /\ handler' = h /\ epoll'[f] = (IF epoll[f] = {} THEN {} ELSE Side)
          /\ \A g \in Fd : g # f => epoll'[g] = epoll[g]
      BY <1>1, <1>4, <2>4, <2>8
    <3>2. Reader(f)' = c /\ Writer(f)' = c
      BY <2>2, <3>1 DEF Reader, Writer
    <3>3. f \notin dirty => CleanAt(f)'
      <4> SUFFICES ASSUME f \notin dirty PROVE CleanAt(f)'
        OBVIOUS
      <4>1. CleanAt(f)
        BY <1>1 DEF Clean
      <4>2. epoll[f] = {"read"}
        BY <1>1, <1>4, <4>1 DEF CleanAt, Fits
      <4>3. epoll'[f] = Side
        BY <3>1, <4>2
      <4>4. Fits(c, c, Side, b, left)
        BY <1>1, <2>8, <2>d DEF Fits
      <4> QED
        BY <2>7, <3>2, <4>3, <4>4 DEF CleanAt
    <3>4. dirty' = dirty /\ \A g \in Fd : g # f => handler'[g] = handler[g]
      BY <1>4, <2>3, <3>1
    <3> QED
      BY <1>1, <1>a, <2>6, <2>7, <3>1, <3>2, <3>3, <3>4, OneWired DEF IsOpen
  <2>9. CASE ~(left > 0)
    <3>1. handler' = handler /\ epoll' = epoll /\ left = 0
      BY <1>4, <2>1, <2>9
    <3>2. Reader(f)' = c /\ Writer(f)' = Writer(f)
      BY <1>1, <3>1 DEF Reader, Writer
    <3>3. f \notin dirty => CleanAt(f)'
      <4> SUFFICES ASSUME f \notin dirty PROVE CleanAt(f)'
        OBVIOUS
      <4>1. CleanAt(f)
        BY <1>1 DEF Clean
      <4>2. epoll[f] = {"read"} /\ Writer(f) = None
        BY <1>1, <1>4, <4>1 DEF CleanAt, Fits
      <4>3. Fits(c, None, {"read"}, b, left)
        BY <1>1, <2>9, <2>d DEF Fits
      <4> QED
        BY <2>7, <3>1, <3>2, <4>2, <4>3 DEF CleanAt
    <3>4. Writer(f)' \in {None, c} \/ (Writer(f)' = Writer(f) /\ epoll'[f] = {})
      BY <1>1, <3>1, <3>2 DEF Writers
    <3> QED
      BY <1>1, <1>4, <1>a, <2>6, <2>7, <3>1, <3>2, <3>3, <3>4, OneWired DEF IsOpen
  <2> QED
    BY <2>8, <2>9
<1> QED
  BY <1>2, <1>3, <1>4, <1>a DEF Send

LEMMA WriteWired ==
  ASSUME Wired, NEW f \in Fd, Served(f), NEW c, c = Writer(f), c \in Open,
         NEW n \in Taken(c, ch[c].buf), NEW left, left = ch[c].buf - n,
         NEW h, h = SetHandler(handler, f, "write", None),
         room' = [room EXCEPT ![c] = @ - n],
         ch' = [ch EXCEPT ![c].buf = left, ![c].sending = ~StopsSend(left)],
         handler' = IF StopsSend(left) THEN h ELSE handler,
         epoll' = IF StopsSend(left)
                  THEN [epoll EXCEPT ![f] = Ctl(h, epoll, f, "write", FALSE)] ELSE epoll,
         dirty' = dirty
  PROVE  Wired' /\ Keeps
<1>1. /\ NetTypes /\ Readers /\ Writers /\ Clean
      /\ handler \in [Fd -> [Side -> Chan \cup {None}]]
      /\ room \in [Chan -> 0 .. Window]
      /\ epoll \in [Fd -> SUBSET Side]
      /\ "read" \in Side /\ "write" \in Side
      /\ c \in Chan /\ IsOpen(c) /\ c # None
      /\ ch[c].buf \in 0 .. SendSize
  BY Constants DEF Wired, NetTypes, Channels, Side, Open, IsOpen
<1>2. Reader(f) = c /\ ch[c].fd = f
  BY <1>1 DEF Served, IsOpen, Readers
<1>3. room[c] - n \in 0 .. Window /\ left \in 0 .. SendSize
  BY <1>1, TakenBounds, Constants
<1>4. /\ h \in [Fd -> [Side -> Chan \cup {None}]]
      /\ h[f]["write"] = None /\ h[f]["read"] = c
  BY <1>1, <1>2 DEF SetHandler, Reader, Side
<1>5. \A g \in Fd : g # f => h[g] = handler[g]
  BY DEF SetHandler
<1>6. Ctl(h, epoll, f, "write", FALSE) = IF epoll[f] = {} THEN {} ELSE {"read"}
  BY <1>1, <1>4, CtlAtReader
<1>a. PICK b \in BOOLEAN : (b = TRUE /\ left # 0) \/ (b = FALSE /\ left = 0)
  OBVIOUS
<1>7. ch' = Buffered(ch, c, left, b) /\ ch \in Channels
  <2>1. (~StopsSend(left)) = b
    BY <1>a DEF StopsSend
  <2> QED
    BY <1>1, <2>1 DEF NetTypes, Buffered
<1>9. /\ ch' \in Channels
      /\ ch'[c].st = ch[c].st /\ ch'[c].fd = f /\ ch'[c].sending = b /\ ch'[c].buf = left
      /\ \A d \in Chan : d # c => ch'[d] = ch[d]
  <2>1. IsBuffered(ch', ch, c, left, b)
    <3>1. c \in Chan /\ left \in 0 .. SendSize
      BY <1>1, <1>3
    <3>2. IsBuffered(Buffered(ch, c, left, b), ch, c, left, b)
      BY <1>7, <3>1, BufferingAll
    <3> QED
      BY <1>7, <3>2
  <2> QED
    BY <1>2, <2>1 DEF IsBuffered
<1>8. NetTypes'
  <2>2. room' \in [Chan -> 0 .. Window]
    BY <1>1, <1>3
  <2>3. epoll' \in [Fd -> SUBSET Side]
    BY <1>1, <1>6 DEF Side
  <2> QED
    BY <1>1, <1>4, <1>9, <2>2, <2>3 DEF NetTypes
<1>10. CASE left = 0
  <2>1. /\ handler' = h /\ epoll'[f] = (IF epoll[f] = {} THEN {} ELSE {"read"})
        /\ \A g \in Fd : g # f => epoll'[g] = epoll[g]
    BY <1>1, <1>6, <1>10 DEF StopsSend
  <2>2. Reader(f)' = c /\ Writer(f)' = None
    BY <1>4, <2>1 DEF Reader, Writer
  <2>3. f \notin dirty => CleanAt(f)'
    <3> SUFFICES ASSUME f \notin dirty PROVE CleanAt(f)'
      OBVIOUS
    <3>1. CleanAt(f)
      BY <1>1 DEF Clean
    <3>2. epoll'[f] = {"read"}
      BY <1>1, <1>2, <2>1, <3>1 DEF CleanAt, Fits, Side
    <3> QED
      <4>1. Fits(c, None, {"read"}, b, left)
        BY <1>1, <1>10, <1>a DEF Fits
      <4> QED
        BY <1>9, <2>2, <3>2, <4>1 DEF CleanAt
  <2> QED
    <3>1. \A g \in Fd : g # f => handler'[g] = handler[g] /\ epoll'[g] = epoll[g]
      BY <1>5, <2>1
    <3> QED
      BY <1>1, <1>2, <1>8, <1>9, <2>2, <2>3, <3>1, OneWired DEF IsOpen
<1>11. CASE left # 0
  <2>1. handler' = handler /\ epoll' = epoll /\ left > 0
    BY <1>3, <1>11 DEF StopsSend
  <2>2. Reader(f)' = c /\ Writer(f)' = c
    BY <1>2, <2>1 DEF Reader, Writer
  <2>3. f \notin dirty => CleanAt(f)'
    <3> SUFFICES ASSUME f \notin dirty PROVE CleanAt(f)'
      OBVIOUS
    <3>1. CleanAt(f)
      BY <1>1 DEF Clean
    <3>2. epoll[f] = Side
      BY <1>1, <1>2, <3>1 DEF CleanAt, Fits
    <3> QED
      <4>1. Fits(c, c, Side, b, left)
        BY <1>1, <1>11, <1>a, <2>1 DEF Fits
      <4> QED
        BY <1>9, <2>1, <2>2, <3>2, <4>1 DEF CleanAt
  <2> QED
    BY <1>1, <1>2, <1>8, <1>9, <2>1, <2>2, <2>3, OneWired DEF IsOpen
<1> QED
  BY <1>10, <1>11

LEMMA NewWired ==
  ASSUME Wired, NEW c \in Chan, NewChannel(c)
  PROVE  Wired' /\ Keeps
<1>1. /\ NetTypes /\ Readers /\ Writers /\ Clean
      /\ handler \in [Fd -> [Side -> Chan \cup {None}]]
      /\ epoll \in [Fd -> SUBSET Side]
      /\ "read" \in Side /\ "write" \in Side /\ c # None
      /\ ch[c].st = "free" /\ room' = room /\ dirty' = dirty
  BY Constants DEF Wired, NetTypes, Channels, Side, NewChannel
<1>a. PICK f \in FreeFds, k \in 0 .. 1 :
        LET h1 == SetHandler(handler, f, "read", c)
            e1 == [epoll EXCEPT ![f] = Ctl(h1, epoll, f, "read", TRUE)]
            h2 == SetHandler(h1, f, "write", c)
        IN  /\ ch' = [ch EXCEPT ![c] = [st |-> "open", fd |-> f, sending |-> k = 1, buf |-> k]]
            /\ handler' = IF k = 1 THEN h2 ELSE h1
            /\ epoll' = IF k = 1 THEN [e1 EXCEPT ![f] = Ctl(h2, e1, f, "write", TRUE)] ELSE e1
  BY DEF NewChannel
<1>b. PICK h1 : h1 = SetHandler(handler, f, "read", c)
  OBVIOUS
<1>c. PICK e1 : e1 = [epoll EXCEPT ![f] = Ctl(h1, epoll, f, "read", TRUE)]
  OBVIOUS
<1>d. PICK h2 : h2 = SetHandler(h1, f, "write", c)
  OBVIOUS
<1>2. /\ ch' = [ch EXCEPT ![c] = [st |-> "open", fd |-> f, sending |-> k = 1, buf |-> k]]
      /\ handler' = IF k = 1 THEN h2 ELSE h1
      /\ epoll' = IF k = 1 THEN [e1 EXCEPT ![f] = Ctl(h2, e1, f, "write", TRUE)] ELSE e1
  BY <1>a, <1>b, <1>c, <1>d
<1>3. f \in Fd /\ \A d \in Chan : IsOpen(d) => ch[d].fd # f
  BY DEF FreeFds, Open, IsOpen
<1>4. Reader(f) = None /\ epoll[f] = {}
  <2>1. Reader(f) \in Chan \cup {None}
    BY <1>1, <1>3 DEF Reader
  <2> QED
    BY <1>1, <1>3, <2>1 DEF Readers
<1>5. /\ h1 \in [Fd -> [Side -> Chan \cup {None}]]
      /\ h1[f]["read"] = c /\ h1[f]["write"] = Writer(f)
      /\ \A g \in Fd : g # f => h1[g] = handler[g]
  <2>1. /\ h1 \in [Fd -> [Side -> Chan \cup {None}]]
        /\ h1[f]["read"] = c /\ h1[f]["write"] = Writer(f)
    BY <1>1, <1>3, <1>b DEF SetHandler, Writer, Side
  <2>2. \A g \in Fd : g # f => h1[g] = handler[g]
    BY <1>b DEF SetHandler
  <2> QED
    BY <2>1, <2>2
<1>6. /\ h2 \in [Fd -> [Side -> Chan \cup {None}]]
      /\ h2[f]["read"] = c /\ h2[f]["write"] = c
      /\ \A g \in Fd : g # f => h2[g] = handler[g]
  <2>1. /\ h2 \in [Fd -> [Side -> Chan \cup {None}]]
        /\ h2[f]["read"] = c /\ h2[f]["write"] = c
    BY <1>1, <1>3, <1>5, <1>d DEF SetHandler, Side
  <2>2. \A g \in Fd : g # f => h2[g] = h1[g]
    BY <1>d DEF SetHandler
  <2> QED
    BY <1>5, <2>1, <2>2
<1>7. Ctl(h1, epoll, f, "read", TRUE) = IF Writer(f) = None THEN {"read"} ELSE {}
  BY <1>4, <1>5 DEF Ctl, Other
<1>8. /\ e1 \in [Fd -> SUBSET Side] /\ e1[f] = (IF Writer(f) = None THEN {"read"} ELSE {})
      /\ \A g \in Fd : g # f => e1[g] = epoll[g]
  BY <1>1, <1>3, <1>7, <1>c DEF Side
<1>9. Ctl(h2, e1, f, "write", TRUE) = IF Writer(f) = None THEN Side ELSE {}
  <2>1. h2[f]["read"] # None
    BY <1>1, <1>6
  <2>2. Ctl(h2, e1, f, "write", TRUE) = IF e1[f] = {} THEN {} ELSE Side
    BY <2>1, CtlAtReader
  <2> QED
    BY <1>8, <2>2
<1>10. f \notin dirty => Writer(f) = None
  BY <1>1, <1>3, <1>4 DEF Clean, CleanAt, Fits
<1>11. /\ ch'[c].st = "open" /\ ch'[c].fd = f /\ ch'[c].sending = (k = 1) /\ ch'[c].buf = k
       /\ \A d \in Chan : d # c => ch'[d] = ch[d]
       /\ ch' \in [Chan -> [st : {"free", "open", "destroyed"}, fd : Fd \cup {None},
                            sending : BOOLEAN, buf : 0 .. SendSize]]
  <2>1. [st |-> "open", fd |-> f, sending |-> k = 1, buf |-> k]
          \in [st : {"free", "open", "destroyed"}, fd : Fd \cup {None},
               sending : BOOLEAN, buf : 0 .. SendSize]
    <3>1. k \in 0 .. SendSize
      BY Constants
    <3> QED
      BY <1>3, <3>1
  <2> QED
    BY <1>1, <1>2, <2>1 DEF NetTypes, Channels
<1>12. CASE k = 1
  <2>1. /\ handler' = h2 /\ epoll'[f] = (IF Writer(f) = None THEN Side ELSE {})
        /\ epoll' \in [Fd -> SUBSET Side]
        /\ \A g \in Fd : g # f => epoll'[g] = epoll[g]
    BY <1>2, <1>3, <1>8, <1>9, <1>12
  <2>2. NetTypes'
    BY <1>1, <1>6, <1>11, <2>1 DEF NetTypes, Channels
  <2>3. Reader(f)' = c /\ Writer(f)' = c
    BY <1>6, <2>1 DEF Reader, Writer
  <2>4. f \notin dirty => CleanAt(f)'
    BY <1>1, <1>10, <1>11, <1>12, <2>1, <2>3 DEF CleanAt, Fits
  <2> QED
    BY <1>1, <1>3, <1>4, <1>6, <1>11, <2>1, <2>2, <2>3, <2>4, OneWired DEF IsOpen
<1>13. CASE k = 0
  <2>1. handler' = h1 /\ epoll' = e1
    BY <1>2, <1>13
  <2>2. NetTypes'
    BY <1>1, <1>5, <1>8, <1>11, <2>1 DEF NetTypes, Channels
  <2>3. Reader(f)' = c /\ Writer(f)' = Writer(f)
    BY <1>5, <2>1 DEF Reader, Writer
  <2>4. f \notin dirty => CleanAt(f)'
    <3> SUFFICES ASSUME f \notin dirty PROVE CleanAt(f)'
      OBVIOUS
    <3>1. Fits(c, None, {"read"}, FALSE, k)
      BY <1>1, <1>13 DEF Fits
    <3>2. ch'[c].sending = FALSE /\ Writer(f)' = None /\ epoll'[f] = {"read"}
      BY <1>8, <1>10, <1>11, <1>13, <2>1, <2>3
    <3> QED
      BY <1>11, <2>3, <3>1, <3>2 DEF CleanAt
  <2>5. Writer(f)' \in {None, c} \/ (Writer(f)' = Writer(f) /\ epoll'[f] = {})
    BY <1>8, <2>1, <2>3
  <2>6. \A g \in Fd : g # f => handler'[g] = handler[g] /\ epoll'[g] = epoll[g]
    BY <1>5, <1>8, <2>1
  <2> QED
    BY <1>1, <1>3, <1>4, <1>11, <2>2, <2>3, <2>4, <2>5, <2>6, OneWired DEF IsOpen
<1> QED
  BY <1>12, <1>13

LEMMA SameNet ==
  ASSUME Wired, UNCHANGED net
  PROVE  Wired' /\ Keeps
BY DEF net, Wired, NetTypes, Channels, Readers, Writers, Clean, CleanAt, Fits, Keeps, Served,
       Reader, Writer, IsOpen

-----------------------------------------------------------------------------
\* A round of the network.
Reading == {"recv", "parse", "onRecv", "onTerminate"}
ReadTask == [op : Reading, c : Chan, fd : Fd, out : BOOLEAN]
WriteTask == [op : {"write"}, fd : Fd]

TaskTyped(t) == \/ t.op \in Reading /\ t \in ReadTask
                \/ t.op = "write" /\ t \in WriteTask
                \/ t.op = "idle"

PeerTypes == /\ inbox \in [Chan -> 0 .. MaxInbox] /\ hung \in [Chan -> BOOLEAN]
             /\ polling \in BOOLEAN /\ fate \in {"alive", "released", "pipe"}
             /\ pending \in 0 .. MaxInbox /\ own \in BOOLEAN

\* The events and the task of this round are for channels that have their descriptor or were
\* destroyed in this round, and what becomes of the packets already parsed.
BatchFits == \A e \in batch : e.fd \in Fd /\ Served(e.fd)

TaskFits == /\ task.op # "idle" => Served(task.fd)
            /\ task.op \in Reading => ch[task.c].st # "free"
            /\ task.op \notin {"parse", "onRecv"} => pending = 0
            /\ task.op = "parse" => pending # 0
            /\ task.op \in {"parse", "onRecv"} => IsOpen(task.c) \/ own

NetInv == /\ Wired /\ PeerTypes /\ TaskTyped(task) /\ BatchFits /\ TaskFits
          /\ ~polling => batch = {} /\ task.op = "idle"
          /\ fate = "released" => own

LEMMA Resume ==
  ASSUME NEW t \in ReadTask, NEW o \in Reading
  PROVE  /\ [t EXCEPT !.op = o] \in ReadTask /\ TaskTyped([t EXCEPT !.op = o])
         /\ [t EXCEPT !.op = o].op = o
         /\ [t EXCEPT !.op = o].c = t.c /\ [t EXCEPT !.op = o].fd = t.fd
BY DEF ReadTask, TaskTyped

LEMMA ReadDoneIs ==
  ASSUME task \in ReadTask
  PROVE  /\ TaskTyped(ReadDone) /\ ReadDone.op \in {"idle", "write"}
         /\ ReadDone.op # "idle" => ReadDone.fd = task.fd
<1>1. CASE task.out
  BY <1>1 DEF ReadDone, TaskTyped, WriteTask, ReadTask
<1>2. CASE ~task.out
  BY <1>2 DEF ReadDone, Idle, TaskTyped
<1> QED
  BY <1>1, <1>2

LEMMA NetInit == Init => NetInv
<1> SUFFICES ASSUME Init PROVE NetInv
  OBVIOUS
<1>1. /\ \A c \in Chan : ch[c].st = "free"
      /\ \A f \in Fd : Reader(f) = None /\ Writer(f) = None /\ epoll[f] = {}
  BY DEF Init, Reader, Writer, Side, Closed
<1>a. 0 \in 0 .. SendSize /\ 0 \in 0 .. MaxInbox /\ Window \in 0 .. Window
  BY Constants
<1>2. NetTypes
  <2>1. [Closed EXCEPT !.st = "free"]
          \in [st : {"free", "open", "destroyed"}, fd : Fd \cup {None},
               sending : BOOLEAN, buf : 0 .. SendSize]
    BY <1>a DEF Closed
  <2> QED
    BY <1>a, <2>1 DEF Init, NetTypes, Channels
<1>3. Readers /\ Writers /\ Clean
  BY <1>1, Constants DEF Readers, Writers, Clean, CleanAt, Fits, IsOpen
<1>4. PeerTypes
  BY <1>a DEF Init, PeerTypes
<1> QED
  BY <1>2, <1>3, <1>4 DEF Init, NetInv, Wired, TaskTyped, BatchFits, TaskFits, Idle, Reading

\* Operations on channels, while batch and task stay as they are.
LEMMA KeptRound ==
  ASSUME Keeps, TaskTyped(task), BatchFits, TaskFits, batch' \subseteq batch
  PROVE  /\ BatchFits'
         /\ task.op # "idle" => task.fd \in Fd /\ \A g \in Fd : g = task.fd => Served(g)'
         /\ task.op \in Reading => ch'[task.c].st # "free"
<1>1. \A e \in batch' : e.fd \in Fd /\ Served(e.fd)'
  BY DEF Keeps, BatchFits
<1>2. task.op # "idle" => task.fd \in Fd /\ \A g \in Fd : g = task.fd => Served(g)'
  BY DEF Keeps, TaskTyped, TaskFits, ReadTask, WriteTask
<1>3. task.op \in Reading => ch'[task.c].st # "free"
  BY DEF Keeps, TaskTyped, TaskFits, ReadTask, WriteTask, Reading
<1> QED
  BY <1>1, <1>2, <1>3 DEF BatchFits

LEMMA AppStep ==
  ASSUME NetInv, App
  PROVE  NetInv'
<1>1. /\ Wired /\ PeerTypes /\ TaskTyped(task) /\ BatchFits /\ TaskFits
      /\ ~polling => batch = {} /\ task.op = "idle"
      /\ polling' = polling /\ batch' = batch /\ task' = task /\ pending' = pending
      /\ fate' = fate /\ inbox' = inbox /\ hung' = hung
      /\ fate = "alive"
      /\ ~polling \/ task.op \in {"onRecv", "onTerminate"}
      /\ own' = (own \/ (task.op = "onRecv" /\ task.c \in Open /\ ch'[task.c].st # "open"))
  BY DEF NetInv, App, peer, Alive
<1>2. Wired' /\ Keeps
  <2>1. CASE \E c \in Open : Send(c) \/ Destroy(c)
    <3>1. PICK c \in Chan : IsOpen(c) /\ (Send(c) \/ Destroy(c))
      BY <2>1 DEF Open, IsOpen
    <3> QED
      BY <1>1, <3>1, SendWired, DestroyWired
  <2>2. CASE \E c \in Chan : NewChannel(c)
    BY <1>1, <2>2, NewWired
  <2> QED
    BY <2>1, <2>2 DEF App
<1>3. /\ BatchFits'
      /\ task.op # "idle" => task.fd \in Fd /\ \A g \in Fd : g = task.fd => Served(g)'
      /\ task.op \in Reading => ch'[task.c].st # "free"
  BY <1>1, <1>2, KeptRound
<1>4. own' \in BOOLEAN
  BY <1>1
<1>5. TaskFits'
  <2>2. task.op \in {"parse", "onRecv"} => IsOpen(task.c)' \/ own'
    <3> SUFFICES ASSUME task.op = "onRecv" PROVE ch'[task.c].st = "open" \/ own'
      BY <1>1 DEF IsOpen
    <3>1. task.c \in Chan
      BY <1>1 DEF TaskTyped, ReadTask, WriteTask
    <3>2. IsOpen(task.c) \/ own
      BY <1>1 DEF TaskFits
    <3> QED
      BY <1>1, <3>1, <3>2 DEF IsOpen, Open
  <2> QED
    BY <1>1, <1>3, <2>2 DEF TaskFits
<1>6. PeerTypes'
  BY <1>1, <1>4 DEF PeerTypes
<1> QED
  BY <1>1, <1>2, <1>3, <1>5, <1>6 DEF NetInv

LEMMA PollStep ==
  ASSUME NetInv, Poll
  PROVE  NetInv'
<1>1. /\ Wired /\ PeerTypes /\ TaskTyped(task) /\ TaskFits
      /\ polling' = TRUE /\ task' = task /\ pending' = pending /\ own' = own
      /\ fate' = fate /\ inbox' = inbox /\ hung' = hung
      /\ UNCHANGED net
      /\ (fate = "released" => own)
  BY DEF NetInv, Poll, peer
<1>2. Wired' /\ Keeps
  BY <1>1, SameNet
<1>3. \A e \in batch' : e.fd \in Fd /\ epoll[e.fd] # {}
  BY DEF Poll, Event
<1>4. \A f \in Fd : epoll[f] # {} => Served(f)
  BY <1>1 DEF Wired, Writers, Served
<1>5. BatchFits'
  BY <1>2, <1>3, <1>4 DEF BatchFits, Keeps
<1>6. /\ task.op # "idle" => task.fd \in Fd /\ \A g \in Fd : g = task.fd => Served(g)'
      /\ task.op \in Reading => ch'[task.c].st # "free"
  BY <1>1, <1>2 DEF Keeps, TaskTyped, TaskFits, ReadTask, WriteTask, Reading
<1>7. TaskFits'
  BY <1>1, <1>6 DEF TaskFits, IsOpen, net
<1>8. PeerTypes'
  BY <1>1 DEF PeerTypes
<1> QED
  BY <1>1, <1>2, <1>5, <1>7, <1>8 DEF NetInv

LEMMA DispatchStep ==
  ASSUME NetInv, NEW e \in batch, Dispatch(e)
  PROVE  NetInv'
<1>1. /\ Wired /\ PeerTypes /\ TaskTyped(task) /\ BatchFits /\ TaskFits
      /\ polling' = polling /\ pending' = pending /\ own' = FALSE
      /\ fate' = fate /\ inbox' = inbox /\ hung' = hung
      /\ UNCHANGED net
      /\ fate = "alive" /\ task.op = "idle" /\ batch' \subseteq batch
      /\ polling
  BY DEF NetInv, Dispatch, peer, Alive, Idle
<1>2. Wired' /\ Keeps
  BY <1>1, SameNet
<1>3. BatchFits' /\ PeerTypes' /\ pending' = 0
  BY <1>1, <1>2, KeptRound DEF PeerTypes, TaskFits
<1>4. e.fd \in Fd /\ \A g \in Fd : g = e.fd => Served(g)'
  BY <1>1, <1>2 DEF BatchFits, Keeps
<1>a. PICK r : r = handler[e.fd]["read"]
  OBVIOUS
<1>b. PICK out \in BOOLEAN : out <=> e.out /\ ~e.err
  <2>1. (e.out /\ ~e.err) \in BOOLEAN
    OBVIOUS
  <2> QED
    BY <2>1, Zenon
<1>5. CASE r # None /\ task' = [op |-> "recv", c |-> r, fd |-> e.fd, out |-> e.out /\ ~e.err]
  <2>1. r \in Chan /\ IsOpen(r)
    <3>1. r \in Chan
      BY <1>1, <1>4, <1>5, <1>a DEF Wired, NetTypes, Side
    <3> QED
      BY <1>1, <1>4, <1>a, <3>1 DEF Wired, Readers, Reader
  <2>2. /\ task'.op = "recv" /\ task'.c = r /\ task'.fd = e.fd /\ task' \in ReadTask
    BY <1>4, <1>5, <2>1 DEF ReadTask, Reading
  <2>3. TaskTyped(task)'
    BY <2>2 DEF TaskTyped, Reading
  <2>4. ch'[r].st # "free"
    BY <1>1, <2>1 DEF net, IsOpen
  <2>5. TaskFits'
    BY <1>3, <1>4, <2>2, <2>4 DEF TaskFits, Reading
  <2> QED
    BY <1>1, <1>2, <1>3, <2>3, <2>5 DEF NetInv
<1>6. CASE task' = [op |-> "write", fd |-> e.fd]
  <2>1. task'.op = "write" /\ task'.fd = e.fd /\ TaskTyped(task)'
    BY <1>4, <1>6 DEF TaskTyped, WriteTask
  <2>2. TaskFits'
    BY <1>3, <1>4, <2>1 DEF TaskFits, Reading
  <2> QED
    BY <1>1, <1>2, <1>3, <2>1, <2>2 DEF NetInv
<1>7. CASE task' = Idle
  <2>1. task'.op = "idle" /\ TaskTyped(task)'
    BY <1>7 DEF TaskTyped, Idle
  <2>2. TaskFits'
    BY <1>3, <2>1 DEF TaskFits, Reading
  <2> QED
    BY <1>1, <1>2, <1>3, <2>1, <2>2 DEF NetInv
<1> QED
  BY <1>5, <1>6, <1>7, <1>a DEF Dispatch

LEMMA AcceptStep ==
  ASSUME NetInv, NEW c \in Chan, Accept(c)
  PROVE  NetInv'
<1>1. /\ Wired /\ PeerTypes /\ TaskTyped(task) /\ BatchFits /\ TaskFits
      /\ polling' = polling /\ batch' = batch /\ task' = task /\ pending' = pending
      /\ fate' = fate /\ inbox' = inbox /\ hung' = hung /\ own' = own
      /\ polling /\ task.op = "idle" /\ fate = "alive" /\ NewChannel(c)
  BY DEF NetInv, Accept, peer, Idle, Alive
<1>2. Wired' /\ Keeps
  BY <1>1, NewWired
<1>3. BatchFits' /\ PeerTypes'
  BY <1>1, <1>2, KeptRound DEF PeerTypes
<1>4. TaskFits'
  BY <1>1 DEF TaskFits, Reading
<1> QED
  BY <1>1, <1>2, <1>3, <1>4 DEF NetInv

\* The task goes on as t.
LEMMA GoesOn ==
  ASSUME NetInv, Wired', Keeps, PeerTypes', polling' = polling, batch' = batch, own' = own,
         fate' = "released" => own, task.op \in Reading, TaskTyped(task'),
         task'.op # "idle" => task'.fd = task.fd,
         task'.op \in Reading => task'.c = task.c,
         task'.op \notin {"parse", "onRecv"} => pending' = 0,
         task'.op = "parse" => pending' # 0,
         task'.op \in {"parse", "onRecv"} => IsOpen(task.c)' \/ own
  PROVE  NetInv'
<1>1. TaskTyped(task) /\ BatchFits /\ TaskFits /\ polling
  BY DEF NetInv, Reading
<1>2. /\ BatchFits'
      /\ task.fd \in Fd /\ \A g \in Fd : g = task.fd => Served(g)'
      /\ ch'[task.c].st # "free"
  BY <1>1, KeptRound DEF Reading
<1>3. task'.op \in {"parse", "onRecv"} => task'.op \in Reading
  BY DEF Reading
<1>4. TaskFits'
  BY <1>2, <1>3 DEF TaskFits, IsOpen
<1> QED
  BY <1>1, <1>2, <1>4 DEF NetInv

LEMMA RecvStep ==
  ASSUME NetInv, Recv
  PROVE  NetInv'
<1>a. PICK c : c = task.c
  OBVIOUS
<1>1. /\ Wired /\ PeerTypes /\ TaskTyped(task) /\ TaskFits
      /\ polling' = polling /\ batch' = batch /\ own' = own /\ fate' = fate /\ hung' = hung
      /\ fate = "alive" /\ task.op = "recv" /\ pending = 0
  BY DEF NetInv, Recv, Alive, TaskFits
<1>2. task \in ReadTask /\ c \in Chan /\ task.op \in Reading
  BY <1>1, <1>a DEF TaskTyped, ReadTask, WriteTask, Reading
<1>3. /\ inbox \in [Chan -> 0 .. MaxInbox] /\ inbox[c] \in Nat
      /\ inbox[c] \in 0 .. MaxInbox /\ 0 \in 0 .. MaxInbox
  BY <1>1, <1>2, Constants DEF PeerTypes
<1>4. CASE /\ ch[c].st = "open" /\ inbox[c] > 0
           /\ pending' = inbox[c]
           /\ inbox' = [inbox EXCEPT ![c] = 0]
           /\ task' = [task EXCEPT !.op = "parse"]
           /\ UNCHANGED net
  <2>1. Wired' /\ Keeps
    BY <1>1, <1>4, SameNet
  <2>2. PeerTypes'
    BY <1>1, <1>3, <1>4 DEF PeerTypes
  <2>3. task'.op = "parse" /\ task'.c = c /\ task'.fd = task.fd /\ TaskTyped(task')
    BY <1>2, <1>4, <1>a, Resume DEF Reading
  <2>4. pending' # 0 /\ ch'[c].st = "open"
    BY <1>3, <1>4 DEF net
  <2> QED
    BY <1>1, <1>2, <1>a, <2>1, <2>2, <2>3, <2>4, GoesOn DEF IsOpen
<1>5. CASE /\ ch[c].st = "open" /\ Destroy(c)
           /\ task' = [task EXCEPT !.op = "onTerminate"]
           /\ UNCHANGED <<pending, inbox>>
  <2>1. Wired' /\ Keeps
    BY <1>1, <1>2, <1>5, DestroyWired DEF IsOpen
  <2>2. PeerTypes'
    BY <1>1, <1>5 DEF PeerTypes
  <2>3. task'.op = "onTerminate" /\ task'.c = c /\ task'.fd = task.fd /\ TaskTyped(task')
    BY <1>2, <1>5, <1>a, Resume DEF Reading
  <2> QED
    BY <1>1, <1>2, <1>5, <1>a, <2>1, <2>2, <2>3, GoesOn
<1>6. CASE task' = ReadDone /\ UNCHANGED <<net, pending, inbox>>
  <2>1. Wired' /\ Keeps
    BY <1>1, <1>6, SameNet
  <2>2. PeerTypes'
    BY <1>1, <1>6 DEF PeerTypes
  <2>3. /\ TaskTyped(task') /\ task'.op \in {"idle", "write"}
        /\ task'.op # "idle" => task'.fd = task.fd
    BY <1>2, <1>6, ReadDoneIs
  <2> QED
    BY <1>1, <1>2, <1>6, <2>1, <2>2, <2>3, GoesOn DEF Reading
<1> QED
  BY <1>4, <1>5, <1>6, <1>a DEF Recv

LEMMA PacketsStep ==
  ASSUME NetInv, ProcessPackets
  PROVE  NetInv'
<1>a. PICK c : c = task.c
  OBVIOUS
<1>1. /\ Wired /\ PeerTypes /\ TaskTyped(task) /\ TaskFits
      /\ polling' = polling /\ batch' = batch /\ own' = own /\ inbox' = inbox /\ hung' = hung
      /\ fate = "alive" /\ task.op = "parse" /\ pending # 0
      /\ IsOpen(c) \/ own
  BY <1>a DEF NetInv, ProcessPackets, Alive, TaskFits, peer
<1>2. task \in ReadTask /\ c \in Chan /\ task.op \in Reading
  BY <1>1, <1>a DEF TaskTyped, ReadTask, WriteTask, Reading
<1>3. pending \in Nat /\ pending - 1 \in 0 .. MaxInbox /\ 0 \in 0 .. MaxInbox
  BY <1>1, Constants DEF PeerTypes
<1>4. CASE /\ ch[c].st = "open"
           /\ task' = [task EXCEPT !.op = "onRecv"]
           /\ pending' = pending - 1
           /\ UNCHANGED <<net, fate>>
  <2>1. Wired' /\ Keeps
    BY <1>1, <1>4, SameNet
  <2>2. PeerTypes'
    BY <1>1, <1>3, <1>4 DEF PeerTypes
  <2>3. task'.op = "onRecv" /\ task'.c = c /\ task'.fd = task.fd /\ TaskTyped(task')
    BY <1>2, <1>4, <1>a, Resume DEF Reading
  <2>4. ch'[c].st = "open"
    BY <1>4 DEF net
  <2> QED
    BY <1>1, <1>2, <1>4, <1>a, <2>1, <2>2, <2>3, <2>4, GoesOn DEF IsOpen
<1>5. CASE /\ ch[c].st # "open" /\ fate' = "released"
           /\ UNCHANGED <<net, task, pending>>
  <2>1. Wired' /\ Keeps
    BY <1>1, <1>5, SameNet
  <2>2. PeerTypes'
    BY <1>1, <1>5 DEF PeerTypes
  <2>3. own = TRUE
    BY <1>1, <1>5 DEF IsOpen, PeerTypes
  <2> QED
    BY <1>1, <1>2, <1>5, <1>a, <2>1, <2>2, <2>3, GoesOn
<1>6. CASE /\ ch[c].st = "open" /\ Destroy(c)
           /\ task' = [task EXCEPT !.op = "onTerminate"]
           /\ pending' = 0 /\ fate' = fate
  <2>1. Wired' /\ Keeps
    BY <1>1, <1>2, <1>6, DestroyWired DEF IsOpen
  <2>2. PeerTypes'
    BY <1>1, <1>3, <1>6 DEF PeerTypes
  <2>3. task'.op = "onTerminate" /\ task'.c = c /\ task'.fd = task.fd /\ TaskTyped(task')
    BY <1>2, <1>6, <1>a, Resume DEF Reading
  <2> QED
    BY <1>1, <1>2, <1>6, <1>a, <2>1, <2>2, <2>3, GoesOn
<1>7. CASE /\ UNCHANGED net /\ task' = [task EXCEPT !.op = "recv"]
           /\ pending' = 0 /\ fate' = fate
  <2>1. Wired' /\ Keeps
    BY <1>1, <1>7, SameNet
  <2>2. PeerTypes'
    BY <1>1, <1>3, <1>7 DEF PeerTypes
  <2>3. task'.op = "recv" /\ task'.c = c /\ task'.fd = task.fd /\ TaskTyped(task')
    BY <1>2, <1>7, <1>a, Resume DEF Reading
  <2> QED
    BY <1>1, <1>2, <1>7, <1>a, <2>1, <2>2, <2>3, GoesOn
<1> QED
  BY <1>4, <1>5, <1>6, <1>7, <1>a DEF ProcessPackets

LEMMA ReturnStep ==
  ASSUME NetInv, Return
  PROVE  NetInv'
<1>a. PICK o : o = IF pending = 0 THEN "recv" ELSE "parse"
  OBVIOUS
<1>1. /\ Wired /\ PeerTypes /\ TaskTyped(task) /\ TaskFits
      /\ polling' = polling /\ batch' = batch /\ own' = own /\ inbox' = inbox /\ hung' = hung
      /\ fate' = fate /\ pending' = pending /\ UNCHANGED net
      /\ fate = "alive" /\ task.op \in {"onRecv", "onTerminate"}
      /\ task' = [task EXCEPT !.op = o]
  BY <1>a DEF NetInv, Return, Alive, peer
<1>2. task \in ReadTask /\ task.op \in Reading /\ o \in Reading
  BY <1>1, <1>a DEF TaskTyped, ReadTask, WriteTask, Reading
<1>3. task'.op = o /\ task'.c = task.c /\ task'.fd = task.fd /\ TaskTyped(task')
  BY <1>1, <1>2, Resume
<1>4. Wired' /\ Keeps
  BY <1>1, SameNet
<1>5. PeerTypes'
  BY <1>1 DEF PeerTypes
<1>6. pending # 0 => IsOpen(task.c) \/ own
  BY <1>1 DEF TaskFits
<1>7. IsOpen(task.c)' <=> IsOpen(task.c)
  BY <1>1, <1>3 DEF IsOpen, net
<1> QED
  BY <1>1, <1>2, <1>3, <1>4, <1>5, <1>6, <1>7, <1>a, GoesOn

LEMMA WriteStep ==
  ASSUME NetInv, Write
  PROVE  NetInv'
<1>a. PICK f : f = task.fd
  OBVIOUS
<1>b. PICK c : c = Writer(f)
  OBVIOUS
<1>c. PICK h : h = SetHandler(handler, f, "write", None)
  OBVIOUS
<1>1. /\ Wired /\ PeerTypes /\ TaskTyped(task) /\ TaskFits /\ BatchFits
      /\ polling' = polling /\ batch' = batch /\ own' = own /\ inbox' = inbox /\ hung' = hung
      /\ fate' = fate /\ pending' = pending
      /\ fate = "alive" /\ task.op = "write" /\ task' = Idle /\ polling /\ pending = 0
  BY DEF NetInv, Write, Alive, peer, TaskFits
<1>2. f \in Fd /\ Served(f)
  BY <1>1, <1>a DEF TaskTyped, TaskFits, WriteTask, Reading
<1>3. Wired' /\ Keeps
  <2>1. CASE UNCHANGED net
    BY <1>1, <2>1, SameNet
  <2>2. ASSUME c \in Open, NEW n \in Taken(c, ch[c].buf), NEW left, left = ch[c].buf - n,
               room' = [room EXCEPT ![c] = @ - n],
               ch' = [ch EXCEPT ![c].buf = left, ![c].sending = ~StopsSend(left)],
               handler' = IF StopsSend(left) THEN h ELSE handler,
               epoll' = IF StopsSend(left)
                        THEN [epoll EXCEPT ![f] = Ctl(h, epoll, f, "write", FALSE)]
                        ELSE epoll,
               dirty' = dirty
        PROVE  Wired' /\ Keeps
    BY <1>1, <1>2, <1>b, <1>c, <2>2, WriteWired
  <2> QED
    BY <1>a, <1>b, <1>c, <2>1, <2>2 DEF Write, Writer
<1>4. BatchFits' /\ PeerTypes'
  BY <1>1, <1>3, KeptRound DEF PeerTypes
<1>5. task'.op = "idle" /\ TaskTyped(task)' /\ TaskFits'
  BY <1>1 DEF Idle, TaskTyped, TaskFits, Reading
<1> QED
  BY <1>1, <1>3, <1>4, <1>5 DEF NetInv

LEMMA EndRoundStep ==
  ASSUME NetInv, EndRound
  PROVE  NetInv'
<1>a. PICK gone : gone = {c \in Chan : ch[c].st = "destroyed"}
  OBVIOUS
<1>1. /\ Wired /\ PeerTypes /\ TaskTyped(task) /\ TaskFits
      /\ NetTypes /\ Readers /\ Writers /\ Clean
      /\ UNCHANGED <<handler, epoll, dirty, batch, task, pending, own, fate>>
      /\ fate = "alive" /\ task.op = "idle" /\ batch = {} /\ polling' = FALSE
      /\ ch' = [c \in Chan |-> IF c \in gone THEN [Closed EXCEPT !.st = "free"] ELSE ch[c]]
      /\ inbox' = [c \in Chan |-> IF c \in gone THEN 0 ELSE inbox[c]]
      /\ hung' = [c \in Chan |-> c \notin gone /\ hung[c]]
      /\ room' = [c \in Chan |-> IF c \in gone THEN Window ELSE room[c]]
  BY <1>a DEF NetInv, EndRound, Alive, Wired, Idle
<1>b. PICK fresh : fresh = [Closed EXCEPT !.st = "free"]
  OBVIOUS
<1>2. /\ fresh.st = "free"
      /\ fresh \in [st : {"free", "open", "destroyed"}, fd : Fd \cup {None},
                    sending : BOOLEAN, buf : 0 .. SendSize]
  <2>1. 0 \in 0 .. SendSize
    BY Constants
  <2> QED
    BY <1>b, <2>1 DEF Closed
<1>3. \A c \in Chan : ch'[c] = IF c \in gone THEN fresh ELSE ch[c]
  BY <1>1, <1>b
<1>4. NetTypes'
  <2>1. ch' \in Channels
    BY <1>1, <1>2, <1>b DEF NetTypes, Channels
  <2>2. room' \in [Chan -> 0 .. Window]
    BY <1>1, Constants DEF NetTypes
  <2> QED
    BY <1>1, <2>1, <2>2 DEF NetTypes
<1>5. /\ \A c \in Chan : IsOpen(c)' <=> IsOpen(c)
      /\ \A c \in Chan : IsOpen(c) => ch'[c] = ch[c]
  BY <1>2, <1>3, <1>a DEF IsOpen
<1>6. \A f \in Fd : Reader(f)' = Reader(f) /\ Writer(f)' = Writer(f)
  BY <1>1 DEF Reader, Writer
<1>7. Readers'
  <2>1. \A f \in Fd, c \in Chan : Reader(f)' = c <=> IsOpen(c)' /\ ch'[c].fd = f
    <3> SUFFICES ASSUME NEW f \in Fd, NEW c \in Chan
                 PROVE  Reader(f)' = c <=> IsOpen(c)' /\ ch'[c].fd = f
      OBVIOUS
    <3>1. Reader(f) = c <=> IsOpen(c) /\ ch[c].fd = f
      BY <1>1 DEF Readers
    <3> QED
      BY <1>5, <1>6, <3>1
  <2>2. \A c \in Chan : IsOpen(c)' => ch'[c].fd \in Fd
    BY <1>1, <1>5 DEF Readers
  <2>3. \A f \in Fd : Reader(f)' = None => epoll'[f] = {}
    BY <1>1, <1>6 DEF Readers
  <2> QED
    BY <2>1, <2>2, <2>3 DEF Readers
<1>8. Writers'
  BY <1>1, <1>6 DEF Writers
<1>9. Clean'
  <2> SUFFICES ASSUME NEW f \in Fd, f \notin dirty PROVE CleanAt(f)'
    BY <1>1 DEF Clean
  <2>1. CleanAt(f)
    BY <1>1 DEF Clean
  <2>2. Reader(f) # None => ch'[Reader(f)] = ch[Reader(f)]
    <3>1. Reader(f) # None => Reader(f) \in Chan
      BY <1>1 DEF NetTypes, Reader, Side
    <3> QED
      BY <1>1, <1>5, <3>1 DEF Readers
  <2> QED
    BY <1>1, <1>6, <2>1, <2>2 DEF CleanAt, Fits
<1>10. PeerTypes'
  <2>1. inbox' \in [Chan -> 0 .. MaxInbox]
    BY <1>1, Constants DEF PeerTypes
  <2>2. hung' \in [Chan -> BOOLEAN]
    BY <1>1
  <2> QED
    BY <1>1, <2>1, <2>2 DEF PeerTypes
<1>11. BatchFits' /\ TaskFits' /\ TaskTyped(task)'
  BY <1>1 DEF BatchFits, TaskFits, TaskTyped, Reading
<1> QED
  BY <1>1, <1>4, <1>7, <1>8, <1>9, <1>10, <1>11 DEF NetInv, Wired

\* What the peers do leaves channels, table and poller alone, except for the room.
LEMMA PeerStep ==
  ASSUME NetInv, NEW c \in Chan, PeerSends(c) \/ PeerReads(c) \/ PeerCloses(c) \/ BrokenPipe(c)
  PROVE  NetInv'
<1>1. /\ Wired /\ PeerTypes /\ TaskTyped(task) /\ TaskFits /\ BatchFits
      /\ ~polling => batch = {} /\ task.op = "idle"
      /\ polling' = polling /\ batch' = batch /\ own' = own /\ task' = task
      /\ pending' = pending /\ fate = "alive" /\ fate' \in {"alive", "pipe"}
      /\ UNCHANGED <<ch, handler, epoll, dirty>>
      /\ room' = room \/ room' = [room EXCEPT ![c] = Window]
  BY DEF NetInv, PeerSends, PeerReads, PeerCloses, BrokenPipe, Alive, net, peer
<1>2. Wired' /\ Keeps
  <2>1. NetTypes'
    <3>1. room' \in [Chan -> 0 .. Window]
      BY <1>1, Constants DEF Wired, NetTypes
    <3> QED
      BY <1>1, <3>1 DEF Wired, NetTypes
  <2>2. Readers' /\ Writers' /\ Clean'
    BY <1>1 DEF Wired, Readers, Writers, Clean, CleanAt, Fits, Reader, Writer, IsOpen
  <2>3. Keeps
    BY <1>1 DEF Keeps, Served, Reader, Writer
  <2> QED
    BY <2>1, <2>2, <2>3 DEF Wired
<1>3. PeerTypes'
  <2>1. inbox' \in [Chan -> 0 .. MaxInbox]
    <3>1. CASE PeerSends(c)
      BY <1>1, <3>1, Constants DEF PeerTypes, PeerSends
    <3>2. CASE ~PeerSends(c)
      <4>1. inbox' = inbox
        BY <3>2 DEF PeerReads, PeerCloses, BrokenPipe, peer
      <4> QED
        BY <1>1, <4>1 DEF PeerTypes
    <3> QED
      BY <3>1, <3>2
  <2>2. hung' \in [Chan -> BOOLEAN]
    <3>1. hung' = hung \/ hung' = [hung EXCEPT ![c] = TRUE]
      BY DEF PeerSends, PeerReads, PeerCloses, BrokenPipe, peer
    <3> QED
      BY <1>1, <3>1 DEF PeerTypes
  <2> QED
    BY <1>1, <2>1, <2>2 DEF PeerTypes
<1>4. /\ BatchFits'
      /\ task.op # "idle" => task.fd \in Fd /\ \A g \in Fd : g = task.fd => Served(g)'
      /\ task.op \in Reading => ch'[task.c].st # "free"
  BY <1>1, <1>2, KeptRound
<1>5. TaskFits'
  BY <1>1, <1>4 DEF TaskFits, IsOpen
<1> QED
  BY <1>1, <1>2, <1>3, <1>4, <1>5 DEF NetInv

LEMMA NetStep == NetInv /\ [Next]_vars => NetInv'
<1> SUFFICES ASSUME NetInv, [Next]_vars PROVE NetInv'
  OBVIOUS
<1>1. CASE Loop \/ App
  BY <1>1, PollStep, DispatchStep, RecvStep, PacketsStep, ReturnStep, WriteStep, EndRoundStep,
     AppStep DEF Loop
<1>2. CASE \E c \in Chan : \/ Accept(c) \/ PeerSends(c) \/ PeerReads(c) \/ PeerCloses(c)
                           \/ BrokenPipe(c)
  BY <1>2, AcceptStep, PeerStep
<1>3. CASE UNCHANGED vars
  <2>1. /\ Wired' /\ Keeps
    BY <1>3, SameNet DEF NetInv, vars
  <2> QED
    BY <1>3, <2>1 DEF NetInv, vars, net, peer, PeerTypes, BatchFits, TaskFits, Served, Reader,
                      Writer, IsOpen
<1> QED
  BY <1>1, <1>2, <1>3 DEF Next

THEOREM InductiveInvariant == Spec => []NetInv
BY NetInit, NetStep, PTL DEF Spec

\* Channels, handlers, poller and the round keep their types (Channel, EpollPoller).
THEOREM TypeCorrect == Spec => []TypeOK
<1>1. NetInv => TypeOK
  <2> SUFFICES ASSUME NetInv PROVE TypeOK
    OBVIOUS
  <2>1. task.op \in {"idle", "recv", "parse", "onRecv", "onTerminate", "write"}
    BY DEF NetInv, TaskTyped, Reading
  <2> QED
    BY <2>1 DEF NetInv, Wired, NetTypes, Channels, PeerTypes, BatchFits, TypeOK
<1> QED
  BY <1>1, InductiveInvariant, PTL

\* The poller watches every channel for what it waits for, except on a descriptor that an
\* earlier channel left with its writeHandler (Channel::clearState before stopSend).
THEOREM ChannelsWatched == Spec => []WatchedUnlessDirty
<1>1. NetInv => WatchedUnlessDirty
  <2> SUFFICES ASSUME NetInv, NEW c \in Open, ch[c].fd \notin dirty
               PROVE  /\ epoll[ch[c].fd] = IF ch[c].sending THEN Side ELSE {"read"}
                      /\ ch[c].sending = (ch[c].buf > 0)
    BY DEF WatchedUnlessDirty
  <2>1. c \in Chan /\ IsOpen(c) /\ c # None
    BY Constants DEF Open, IsOpen
  <2>2. ch[c].fd \in Fd /\ Reader(ch[c].fd) = c
    BY <2>1 DEF NetInv, Wired, Readers
  <2>3. CleanAt(ch[c].fd)
    BY <2>2 DEF NetInv, Wired, Clean
  <2> QED
    BY <2>1, <2>2, <2>3 DEF CleanAt, Fits
<1> QED
  BY <1>1, InductiveInvariant, PTL

\* An event reaches the channel whose descriptor it is for, or one that was destroyed in this
\* very round (processPendingEvents, recoverDestroyChannel).
THEOREM EventsReach == Spec => []EventsReachTheirChannel
<1>1. NetInv => EventsReachTheirChannel
  <2> SUFFICES ASSUME NetInv PROVE EventsReachTheirChannel
    OBVIOUS
  <2>1. ASSUME NEW e \in batch, NEW s \in Side, handler[e.fd][s] # None
        PROVE  \/ ch[handler[e.fd][s]].fd = e.fd
               \/ ch[handler[e.fd][s]].st = "destroyed"
    <3>1. e.fd \in Fd /\ Served(e.fd) /\ handler \in [Fd -> [Side -> Chan \cup {None}]]
      BY DEF NetInv, BatchFits, Wired, NetTypes
    <3>2. Reader(e.fd) # None => ch[Reader(e.fd)].fd = e.fd
      <4>1. Reader(e.fd) \in Chan \cup {None}
        BY <3>1 DEF Reader, Side
      <4> QED
        BY <3>1, <4>1 DEF NetInv, Wired, Readers
    <3>3. CASE s = "read"
      BY <2>1, <3>2, <3>3 DEF Reader
    <3>4. CASE s = "write"
      BY <2>1, <3>1, <3>2, <3>4 DEF Served, Writer
    <3> QED
      BY <3>3, <3>4 DEF Side
  <2>2. task.op \in {"recv", "parse", "onRecv"} => ch[task.c].st # "free"
    BY DEF NetInv, TaskFits, Reading
  <2> QED
    BY <2>1, <2>2 DEF EventsReachTheirChannel
<1> QED
  BY <1>1, InductiveInvariant, PTL

\* A released session is called only if its own onRecv ended its channel while more packets
\* were waiting (Channel::processRecv, the loop over the packets).
THEOREM OnlyByOwnDoing == Spec => []CalledAfterEndOnlyByOwnDoing
<1>1. NetInv => CalledAfterEndOnlyByOwnDoing
  BY DEF NetInv, CalledAfterEndOnlyByOwnDoing
<1> QED
  BY <1>1, InductiveInvariant, PTL
=============================================================================
