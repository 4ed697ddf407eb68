----------------------------- MODULE IpcSession ------------------------------
(***************************************************************************)
(* One direction of the connection of two nodes through shared memory      *)
(* (src/src/kernel/ipc/slipc_session.cpp on sllib/slshm/slshm_queue):      *)
(* IPCSession::send of the sending node, with the parts in which           *)
(* NodeSession sends its messages, and IPCSession::procRecv of the other.  *)
(*                                                                         *)
(* Harbor sends a message of a node in two parts, first the NodeHeader and *)
(* the message's id, then the arguments; send puts each into the ring and  *)
(* ignores whether it had room.  procRecv looks at the header, and, when   *)
(* there is one, takes as many bytes as it says.  RingBuffer models the    *)
(* ring.  Nodes die at any time; the ring survives them.                   *)
(***************************************************************************)
EXTENDS Integers, Sequences

CONSTANTS Size, Space, Blank, \* the ring's
          HeaderSize,         \* what procRecv looks at: two int32 (8 bytes)
          RecvSize,           \* SINGLE_RECV_SIZE
          Shapes,             \* the messages: the lengths of their parts (put does
                              \* nothing with a part of no bytes)
          Numbers             \* how many messages are told apart

\* A message has one part, as the report a node sends first, or two.
Length(s) == IF Len(s) = 1 THEN s[1] ELSE s[1] + s[2]

ASSUME SessionAssumption ==
    /\ Size \in Nat /\ Space \in Nat \ {0} /\ Space < Size
    /\ HeaderSize \in Nat \ {0} /\ RecvSize \in Nat /\ Numbers \in Nat \ {0}
    /\ \A s \in Shapes : s \in Seq(Nat \ {0}) /\ Len(s) \in 1..2 /\ s[1] >= HeaderSize

\* A byte of a message: the message's number, its length (NodeHeader::len) and where in
\* the message the byte is.
Byte == [number : 0..(Numbers - 1), len : {Length(s) : s \in Shapes}, at : Nat]

VARIABLES buffer, read, write, writer, part, readIsLow, split, overrun,
          number,   \* the number of the message that is being sent, or comes next
          shape,    \* the lengths of the parts of it that have not been put yet
          len, at,  \* its length, and how much of it has been put
          complete, \* (history) the messages that are in the ring completely
          reader,   \* where procRecv is
          msgSize,  \* what it read from the header
          torn      \* (history) a part was refused or not sent, or asked for too early

Ring == INSTANCE RingBuffer

ring     == <<buffer, read, write, writer, part, readIsLow, split, overrun>>
sender   == <<number, shape, len, at>>
receiver == <<reader, msgSize>>
vars     == <<ring, sender, complete, receiver, torn>>

Init == /\ Ring!RingInit
        /\ number = 0 /\ shape = <<>> /\ len = 0 /\ at = 0
        /\ complete = <<>>
        /\ reader = "poll" /\ msgSize = 0
        /\ torn = FALSE

-----------------------------------------------------------------------------
\* The sending node.

Bytes(n, l, from, count) == [i \in 1..count |-> [number |-> n, len |-> l, at |-> from + i - 1]]

\* A message: its first part is put.  What is sent behind a torn message is not modelled
\* (nothing is claimed of it).
BeginMessage(s) ==
    /\ ~torn
    /\ shape = <<>>
    /\ Len(complete) < Numbers - 1
    /\ shape' = Tail(s)
    /\ len' = Length(s) /\ at' = Head(s)
    /\ Ring!BeginPut(Bytes(number, len', 0, Head(s)))
    /\ UNCHANGED <<number, complete, receiver, torn>>

\* ... and its next one.
BeginNextPart ==
    /\ shape # <<>>
    /\ shape' = Tail(shape)
    /\ at' = at + Head(shape)
    /\ Ring!BeginPut(Bytes(number, len, at, Head(shape)))
    /\ UNCHANGED <<number, len, complete, receiver, torn>>

CopyPart == Ring!CopyPart /\ UNCHANGED <<sender, complete, receiver, torn>>

\* The message stays in the ring without this part.
RefusePart == /\ Ring!RefusePart
              /\ torn' = TRUE
              /\ UNCHANGED <<sender, complete, receiver>>

PublishPart == /\ Ring!PublishPart
               /\ IF shape = <<>>
                  THEN /\ complete' = Append(complete, [number |-> number, len |-> len])
                       /\ number' = (number + 1) % Numbers
                  ELSE UNCHANGED <<complete, number>>
               /\ UNCHANGED <<shape, len, at, receiver, torn>>

\* Torn is the message of which a part is in the ring and another is not.
SenderRestarts == /\ Ring!WriterRestarts
                  /\ shape' = <<>>
                  /\ torn' = (torn \/ IF writer = "idle" THEN shape # <<>> ELSE at # Len(part))
                  /\ UNCHANGED <<number, len, at, complete, receiver>>

-----------------------------------------------------------------------------
\* The receiving node.

At(i) == buffer[(read + i) % Size]

IsHeader == At(0) # Blank /\ At(0).at = 0

\* A message that is too long ends the session.  What is no header can say anything: from
\* there on the receiver is lost, and what it does is not modelled.
PeekHeader == /\ reader = "poll" /\ read # write
              /\ IF IsHeader /\ At(0).len <= RecvSize
                 THEN reader' = "peek" /\ msgSize' = At(0).len
                 ELSE reader' = "lost" /\ msgSize' = 0
              /\ UNCHANGED <<ring, sender, complete, torn>>

\* peekData of the message and onRecv, which gets the bytes where they are (or a copy of
\* them, if they are in two pieces).
Receive == /\ reader = "peek"
           /\ reader' = IF read = write THEN "poll" ELSE "skip"
           /\ torn' = (torn \/ complete = <<>>)
           /\ UNCHANGED <<ring, sender, complete, msgSize>>

\* Mistake: procRecv skips the header it looked at, too.
SkipHeaderToo == /\ reader = "skip"
                 /\ Ring!ReadOut(HeaderSize + msgSize)
                 /\ complete' = IF complete = <<>> THEN <<>> ELSE Tail(complete)
                 /\ reader' = "poll" /\ msgSize' = 0
                 /\ UNCHANGED <<sender, torn>>

Skip == /\ reader = "skip"
        /\ Ring!ReadOut(msgSize)
        /\ complete' = IF complete = <<>> THEN <<>> ELSE Tail(complete)
        /\ reader' = "poll" /\ msgSize' = 0
        /\ UNCHANGED <<sender, torn>>

ReceiverRestarts == /\ reader \in {"peek", "skip"}
                    /\ reader' = "poll" /\ msgSize' = 0
                    /\ UNCHANGED <<ring, sender, complete, torn>>

Next == \/ \E s \in Shapes : BeginMessage(s)
        \/ BeginNextPart \/ CopyPart \/ RefusePart \/ PublishPart \/ SenderRestarts
        \/ PeekHeader \/ Receive \/ Skip \/ ReceiverRestarts

Spec == Init /\ [][Next]_vars

\* IPCEngine::loop calls procRecv again and again, and the receiving node does not die
\* each time before it has dealt with a message.
FairSpec == Spec /\ WF_vars(PeekHeader) /\ SF_vars(Receive) /\ SF_vars(Skip)

-----------------------------------------------------------------------------
TypeOK == /\ Ring!RingTypeOK
          /\ number \in 0..(Numbers - 1)
          /\ shape \in Seq(Nat) /\ len \in Nat /\ at \in Nat
          /\ complete \in Seq([number : 0..(Numbers - 1), len : Nat])
          /\ reader \in {"poll", "peek", "skip", "lost"}
          /\ msgSize \in 0..RecvSize
          /\ torn \in BOOLEAN

\* No message was cut short, and no put has seen the ring emptier than it was.
Sound == ~torn /\ ~split

\* What the callback gets are the bytes of the oldest message that is in the ring, all
\* of them and none of another (IPCSession::procRecv on SLRingBuffer).
ReceivesWholeMessages ==
    reader = "skip" /\ Sound
        => [i \in 1..msgSize |-> At(i - 1)]
              = Bytes(Head(complete).number, Head(complete).len, 0, Head(complete).len)

\* The reader does not run past the writer, although it never looks how much there is:
\* only a message that is cut short, or whose second part is not in yet, makes it.
NeverOverruns == Sound => ~overrun

\* The session moves the ring as one writer and one reader do.
UsesRing == Ring!RingSpec

UnreadBytesStay == Ring!UnreadBytesStay

\* Every message that is in the ring is received and taken out of it, unless the
\* connection is unsound (or a message too long for procRecv).
MessagesAreReceived ==
    \A n \in 0..(Numbers - 1) :
        (\E i \in DOMAIN complete : complete[i].number = n)
            ~> ~Sound \/ ~\E i \in DOMAIN complete : complete[i].number = n
=============================================================================
