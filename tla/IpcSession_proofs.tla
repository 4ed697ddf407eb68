--------------------------- MODULE IpcSession_proofs ---------------------------
(***************************************************************************)
(* Proofs about IpcSession, for all sizes and messages: the two processes  *)
(* move the ring in no other way than RingBuffer describes, hence no byte  *)
(* that was put is overwritten before it is taken, and what the receiver   *)
(* takes is one message after the other, each of them whole.               *)
(***************************************************************************)
EXTENDS IpcSession, SequenceTheorems, TLAPS

\* At least SPACE cells stay free, also behind a put that has copied its bytes and not
\* moved _write yet.  If put has found _read low, _read has since been low, or has
\* gone up no further than to _write.
RoomKept ==
  ~overrun /\ ~split =>
    /\ Ring!DataSize <= Size - Space
    /\ writer = "test" /\ readIsLow => read < Space \/ read <= write
    /\ writer = "publish" => Ring!DataSize + Len(part) <= Size - Space

\* A part that is being published is no longer than the ring's room.
PartFits == writer = "publish" => Len(part) <= Size - Space

\* The inductive invariant of the ring.
RingInv == Ring!RingTypeOK /\ PartFits /\ RoomKept

-----------------------------------------------------------------------------
\* How the reader's index moves in the ring.
LEMMA Forward ==
  ASSUME Ring!RingAssumption, NEW r \in Ring!Cell, NEW n \in Nat
  PROVE  /\ (r + n) % Size \in Ring!Cell
         /\ n < Size => (r + n) % Size = IF r + n < Size THEN r + n ELSE r + n - Size
BY DEF Ring!Cell, Ring!RingAssumption

LEMMA DistanceType ==
  ASSUME Ring!RingAssumption, NEW r \in Ring!Cell, NEW i \in Ring!Cell
  PROVE  Ring!Distance(r, i) \in Ring!Cell
BY DEF Ring!Cell, Ring!RingAssumption, Ring!Distance

\* What fits leaves SPACE cells free, and does not reach the unread bytes.
LEMMA FitsInRoom ==
  ASSUME Ring!RingAssumption, Ring!RingTypeOK, RoomKept, ~overrun, ~split, writer = "test",
         ~(~readIsLow /\ read < Space), Ring!Fits
  PROVE  Ring!DataSize + Len(part) <= Size - Space
<1> DEFINE n == Len(part)
<1>1. n \in Nat /\ n <= Size - Space
  BY DEF Ring!RingTypeOK, Ring!Fits
<1>2. /\ Ring!DataSize <= Size - Space
      /\ readIsLow => read < Space \/ read <= write
  BY DEF RoomKept
<1>3. /\ read \in Int /\ 0 <= read /\ read < Size
      /\ write \in Int /\ 0 <= write /\ write < Size
      /\ Size \in Int /\ Space \in Int /\ 0 < Space /\ Space < Size
      /\ readIsLow \in BOOLEAN
  BY DEF Ring!RingTypeOK, Ring!RingAssumption, Ring!Cell
<1>4. IF write > Ring!MinPos THEN ~(Ring!Wraps /\ Ring!NewPos > Ring!MinPos) ELSE ~(Ring!Wraps \/ Ring!NewPos > Ring!MinPos)
  BY DEF Ring!Fits
<1> HIDE DEF n
<1>5. /\ Ring!Wraps <=> write + n >= Size
      /\ Ring!NewPos = IF Ring!Wraps THEN write + n - Size ELSE write + n
      /\ Ring!MinPos = IF readIsLow THEN Size + read - Space ELSE read - Space
  BY <1>3 DEF n, Ring!Wraps, Ring!NewPos, Ring!MinPos
<1>6. Ring!DataSize = IF write >= read THEN write - read ELSE write - read + Size
  BY DEF Ring!DataSize, Ring!Distance
<1>7. CASE readIsLow
  <2>1. Ring!MinPos = Size + read - Space
    BY <1>5, <1>7
  <2> QED
    BY <1>1, <1>2, <1>3, <1>4, <1>5, <1>6, <1>7, <2>1 DEF n
<1>8. CASE ~readIsLow
  <2>1. Ring!MinPos = read - Space /\ read >= Space
    BY <1>3, <1>5, <1>8
  <2> QED
    BY <1>1, <1>2, <1>3, <1>4, <1>5, <1>6, <1>8, <2>1 DEF n
<1> QED
  BY <1>3, <1>7, <1>8

-----------------------------------------------------------------------------
LEMMA RingInvInit == ASSUME Ring!RingAssumption PROVE Ring!RingInit => RingInv
<1> SUFFICES ASSUME Ring!RingInit PROVE RingInv
  OBVIOUS
<1>1. buffer \in [Ring!Cell -> Byte \union {Blank}]
  BY DEF Ring!RingInit
<1>2. 0 \in Ring!Cell
  BY DEF Ring!RingAssumption, Ring!Cell
<1>3. part \in Seq(Byte)
  BY DEF Ring!RingInit
<1>4. Ring!RingTypeOK
  BY <1>1, <1>2, <1>3 DEF Ring!RingInit, Ring!RingTypeOK
<1>5. Ring!DataSize = 0
  BY DEF Ring!RingInit, Ring!DataSize, Ring!Distance
<1> QED
  BY <1>4, <1>5 DEF Ring!RingInit, RingInv, PartFits, RoomKept, Ring!RingAssumption

LEMMA RingTypeStep ==
  ASSUME Ring!RingAssumption, Ring!RingTypeOK, PartFits, [Ring!RingNext]_(Ring!ringVars)
  PROVE  Ring!RingTypeOK' /\ PartFits'
<1> USE DEF Ring!RingTypeOK, PartFits
<1>1. CASE \E p \in Seq(Byte) : Ring!BeginPut(p)
  BY <1>1 DEF Ring!BeginPut
<1>2. CASE Ring!CopyPart
  <2>1. buffer' \in [Ring!Cell -> Byte \union {Blank}]
    <3> SUFFICES ASSUME NEW i \in Ring!Cell, Ring!Distance(write, i) < Len(part)
                 PROVE  part[Ring!Distance(write, i) + 1] \in Byte
      BY <1>2 DEF Ring!CopyPart
    <3>1. Ring!Distance(write, i) \in Nat
      BY DistanceType DEF Ring!Cell
    <3>2. /\ part \in Seq(Byte) /\ Len(part) \in Nat
          /\ Ring!Distance(write, i) + 1 \in 1..Len(part)
      BY <3>1
    <3> QED
      BY <3>2
  <2> QED
    BY <1>2, <2>1 DEF Ring!CopyPart, Ring!Fits
<1>3. CASE Ring!RefusePart
  <2>1. part' \in Seq(Byte)
    BY <1>3 DEF Ring!RefusePart
  <2> QED
    BY <1>3, <2>1 DEF Ring!RefusePart
<1>4. CASE Ring!PublishPart
  <2>1. write' \in Ring!Cell
    <3>1. /\ Len(part) \in Nat /\ write' = Ring!NewPos
          /\ Len(part) <= Size - Space
          /\ write \in Ring!Cell
      BY <1>4 DEF Ring!PublishPart
    <3> QED
      BY <3>1 DEF Ring!NewPos, Ring!Wraps, Ring!Cell, Ring!RingAssumption
  <2>2. part' \in Seq(Byte)
    BY <1>4 DEF Ring!PublishPart
  <2> QED
    BY <1>4, <2>1, <2>2 DEF Ring!PublishPart
<1>5. CASE Ring!WriterRestarts
  <2>1. part' \in Seq(Byte)
    BY <1>5 DEF Ring!WriterRestarts
  <2> QED
    BY <1>5, <2>1 DEF Ring!WriterRestarts
<1>6. CASE \E n \in Nat : Ring!ReadOut(n)
  <2>1. read' \in Ring!Cell
    BY <1>6, Forward DEF Ring!ReadOut
  <2>2. overrun' \in BOOLEAN
    BY <1>6 DEF Ring!ReadOut, Ring!DataSize
  <2> QED
    BY <1>6, <2>1, <2>2 DEF Ring!ReadOut, Ring!writerVars
<1>7. CASE UNCHANGED Ring!ringVars
  BY <1>7 DEF Ring!ringVars, Ring!writerVars
<1> QED
  BY <1>1, <1>2, <1>3, <1>4, <1>5, <1>6, <1>7 DEF Ring!RingNext

\* Only put brings bytes into the ring, and only the reader takes them out: one lemma
\* for each of them.
LEMMA WriterKeepsRoom ==
  ASSUME Ring!RingAssumption, RingInv,
         (\E p \in Seq(Byte) : Ring!BeginPut(p)) \/ Ring!CopyPart \/ Ring!RefusePart \/ Ring!PublishPart
           \/ Ring!WriterRestarts
  PROVE  RoomKept'
<1> SUFFICES ASSUME ~overrun', ~split' PROVE RoomKept'
  BY DEF RoomKept
<1>1. CASE \E p \in Seq(Byte) : Ring!BeginPut(p)
  <2>1. /\ UNCHANGED <<read, write, split, overrun>> /\ writer' = "test"
        /\ readIsLow' <=> read < Space
    BY <1>1 DEF Ring!BeginPut
  <2> QED
    BY <2>1 DEF RingInv, RoomKept, Ring!DataSize, Ring!Distance
<1>2. CASE Ring!CopyPart
  <2>1. /\ ~overrun /\ ~split /\ ~(~readIsLow /\ read < Space)
        /\ writer = "test" /\ Ring!Fits
        /\ UNCHANGED <<read, write, part, readIsLow, overrun>> /\ writer' = "publish"
    BY <1>2 DEF Ring!CopyPart
  <2>2. Ring!DataSize + Len(part) <= Size - Space
    BY <2>1, FitsInRoom DEF RingInv
  <2> QED
    BY <2>1, <2>2 DEF RingInv, RoomKept, Ring!DataSize, Ring!Distance
<1>3. CASE Ring!RefusePart
  BY <1>3 DEF Ring!RefusePart, RingInv, RoomKept, Ring!DataSize, Ring!Distance
<1>4. CASE Ring!PublishPart
  <2>1. /\ ~overrun /\ ~split /\ UNCHANGED read /\ writer' = "idle"
        /\ Ring!DataSize + Len(part) <= Size - Space
        /\ write' = Ring!NewPos
    BY <1>4 DEF Ring!PublishPart, RingInv, RoomKept
  <2>2. /\ read \in Int /\ 0 <= read /\ read < Size
        /\ write \in Int /\ 0 <= write /\ write < Size
        /\ Size \in Int /\ Space \in Int /\ 0 < Space
        /\ Len(part) \in Nat
    BY DEF RingInv, Ring!RingTypeOK, Ring!RingAssumption, Ring!Cell
  <2>3. Ring!DataSize' <= Size - Space
    BY <2>1, <2>2 DEF Ring!DataSize, Ring!Distance, Ring!NewPos, Ring!Wraps
  <2> QED
    BY <2>1, <2>3 DEF RoomKept
<1>5. CASE Ring!WriterRestarts
  BY <1>5 DEF Ring!WriterRestarts, RingInv, RoomKept, Ring!DataSize, Ring!Distance
<1> QED
  BY <1>1, <1>2, <1>3, <1>4, <1>5

LEMMA ReaderKeepsRoom ==
  ASSUME Ring!RingAssumption, RingInv, NEW n \in Nat, Ring!ReadOut(n)
  PROVE  RoomKept'
<1> SUFFICES ASSUME ~overrun', ~split' PROVE RoomKept'
  BY DEF RoomKept
<1>1. /\ ~overrun /\ n <= Ring!DataSize /\ ~split
      /\ UNCHANGED <<write, writer, part, readIsLow>>
      /\ read' = (read + n) % Size
  BY DEF Ring!ReadOut, Ring!writerVars, Ring!DataSize, Ring!Distance, RingInv, Ring!RingTypeOK, Ring!RingAssumption, Ring!Cell
<1>2. /\ Ring!DataSize <= Size - Space
      /\ writer = "test" /\ readIsLow => read < Space \/ read <= write
      /\ writer = "publish" => Ring!DataSize + Len(part) <= Size - Space
  BY <1>1 DEF RingInv, RoomKept
<1>3. /\ read \in Int /\ 0 <= read /\ read < Size
      /\ write \in Int /\ 0 <= write /\ write < Size
      /\ Size \in Int /\ Space \in Int /\ 0 < Space
      /\ Len(part) \in Nat
  BY DEF RingInv, Ring!RingTypeOK, Ring!RingAssumption, Ring!Cell
<1>4. Ring!DataSize = IF write >= read THEN write - read ELSE write - read + Size
  BY DEF Ring!DataSize, Ring!Distance
<1>5. read' = IF read + n < Size THEN read + n ELSE read + n - Size
  <2>1. n < Size /\ read \in Ring!Cell
    BY <1>1, <1>2, <1>3, <1>4 DEF RingInv, Ring!RingTypeOK
  <2>2. (read + n) % Size = IF read + n < Size THEN read + n ELSE read + n - Size
    BY <2>1, Forward
  <2> QED
    BY <1>1, <2>2
<1>6. Ring!DataSize' = IF write >= read' THEN write - read' ELSE write - read' + Size
  BY <1>1 DEF Ring!DataSize, Ring!Distance
<1>7. Ring!DataSize' = Ring!DataSize - n
  BY <1>1, <1>2, <1>3, <1>4, <1>5, <1>6
<1>8. writer = "test" /\ readIsLow => read' < Space \/ read' <= write
  BY <1>1, <1>2, <1>3, <1>4, <1>5
<1> QED
  BY <1>1, <1>2, <1>3, <1>7, <1>8 DEF RoomKept, Ring!DataSize, Ring!Distance

LEMMA RingInvStep == ASSUME Ring!RingAssumption, RingInv, [Ring!RingNext]_(Ring!ringVars) PROVE RingInv'
<1>1. Ring!RingTypeOK' /\ PartFits'
  BY RingTypeStep DEF RingInv
<1>2. CASE UNCHANGED Ring!ringVars
  BY <1>1, <1>2 DEF Ring!ringVars, Ring!writerVars, RingInv, RoomKept, Ring!DataSize, Ring!Distance
<1>3. CASE Ring!RingNext
  BY <1>1, <1>3, WriterKeepsRoom, ReaderKeepsRoom DEF Ring!RingNext, RingInv
<1> QED
  BY <1>2, <1>3

\* The ring keeps its types and its room (SLRingBuffer::put and get).
THEOREM RoomIsKept == ASSUME Ring!RingAssumption PROVE Ring!RingSpec => []RingInv
<1>1. Ring!RingInit => RingInv
  BY RingInvInit
<1>2. RingInv /\ [Ring!RingNext]_(Ring!ringVars) => RingInv'
  BY RingInvStep
<1> QED
  BY <1>1, <1>2, PTL DEF Ring!RingSpec

\* Every variable of the ring keeps its type (SLRingBuffer).
THEOREM RingTypeCorrect == ASSUME Ring!RingAssumption PROVE Ring!RingSpec => []Ring!RingTypeOK
<1>1. RingInv => Ring!RingTypeOK
  BY DEF RingInv
<1> QED
  BY <1>1, RoomIsKept, PTL

\* No step changes a byte that was put and not taken yet, whatever the size of the ring,
\* as long as the reader takes what is there and does not pass the end between the
\* two loads (the comment at slring_buffer.h:6).
THEOREM RingNothingOverwritten == ASSUME Ring!RingAssumption PROVE Ring!RingSpec => Ring!UnreadBytesStay
<1>1. ASSUME RingInv, [Ring!RingNext]_(Ring!ringVars)
      PROVE  [~overrun /\ ~split' => \A i \in Ring!Unread : buffer'[i] = buffer[i]]_(Ring!ringVars)
  <2>1. CASE UNCHANGED buffer
    BY <2>1
  <2>2. CASE Ring!CopyPart
    <3> SUFFICES ASSUME ~overrun, ~split', NEW i \in Ring!Unread
                 PROVE  buffer'[i] = buffer[i]
      OBVIOUS
    <3>0. i \in Ring!Cell
      BY DEF Ring!Unread
    <3>1. /\ ~split /\ ~(~readIsLow /\ read < Space) /\ writer = "test" /\ Ring!Fits
      BY <1>1, <2>2 DEF Ring!CopyPart, RingInv, Ring!RingTypeOK
    <3>2. Ring!DataSize + Len(part) <= Size - Space
      <4>1. Ring!RingTypeOK /\ RoomKept
        BY <1>1 DEF RingInv
      <4> QED
        BY <3>1, <4>1, FitsInRoom
    <3>3. /\ read \in Int /\ 0 <= read /\ read < Size
          /\ write \in Int /\ 0 <= write /\ write < Size
          /\ i \in Int /\ 0 <= i /\ i < Size
          /\ Size \in Int /\ Space \in Int /\ 0 < Space
          /\ Len(part) \in Nat
      BY <1>1, <3>0 DEF RingInv, Ring!RingTypeOK, Ring!RingAssumption, Ring!Cell
    <3>4. Ring!Distance(read, i) < Ring!DataSize
      BY DEF Ring!Unread
    <3>5. ~(Ring!Distance(write, i) < Len(part))
      BY <3>2, <3>3, <3>4 DEF Ring!Distance, Ring!DataSize
    <3> QED
      BY <2>2, <3>0, <3>5 DEF Ring!CopyPart
  <2>3. UNCHANGED buffer \/ Ring!CopyPart
    BY <1>1 DEF Ring!RingNext, Ring!BeginPut, Ring!RefusePart, Ring!PublishPart, Ring!WriterRestarts, Ring!ReadOut,
               Ring!ringVars
  <2> QED
    BY <2>1, <2>2, <2>3
<1> QED
  BY <1>1, RoomIsKept, PTL DEF Ring!RingSpec, Ring!UnreadBytesStay

-----------------------------------------------------------------------------
\* What the assumption says of a message.
LEMMA ShapeFacts ==
  ASSUME NEW s \in Shapes
  PROVE  /\ s \in Seq(Nat) /\ s # <<>> /\ Tail(s) \in Seq(Nat)
         /\ Head(s) \in Nat \ {0} /\ Length(s) \in Nat \ {0}
         /\ Tail(s) = <<>> => Length(s) = Head(s)
         /\ Tail(s) # <<>> => /\ Len(Tail(s)) = 1 /\ Tail(s)[1] \in Nat \ {0}
                             /\ Length(s) = Head(s) + Tail(s)[1]
<1>1. s \in Seq(Nat \ {0}) /\ (Len(s) = 1 \/ Len(s) = 2)
  BY SessionAssumption
<1>2. /\ s # <<>> /\ Head(s) = s[1] /\ s[1] \in Nat \ {0}
      /\ Tail(s) \in Seq(Nat \ {0}) /\ Len(Tail(s)) = Len(s) - 1
      /\ \A i \in 1..Len(Tail(s)) : Tail(s)[i] = s[i + 1]
  BY <1>1, HeadTailProperties, ElementOfSeq
<1>3. s \in Seq(Nat) /\ Tail(s) \in Seq(Nat)
  <2>1. ASSUME NEW q \in Seq(Nat \ {0}) PROVE q \in Seq(Nat)
    <3>1. Len(q) \in Nat /\ q = [i \in 1..Len(q) |-> q[i]] /\ \A i \in 1..Len(q) : q[i] \in Nat
      OBVIOUS
    <3> QED
      BY <3>1
  <2> QED
    BY <1>1, <1>2, <2>1
<1>4. CASE Len(s) = 1
  <2>1. Len(Tail(s)) = 0
    BY <1>2, <1>4
  <2>2. Tail(s) = <<>>
    BY <1>3, <2>1, EmptySeq
  <2> QED
    BY <1>2, <1>3, <1>4, <2>2 DEF Length
<1>5. CASE Len(s) = 2
  <2>1. Len(Tail(s)) = 1 /\ Tail(s)[1] = s[2] /\ s[2] \in Nat \ {0}
    <3>1. Len(Tail(s)) = 1 /\ 1 \in 1..Len(Tail(s)) /\ 2 \in 1..Len(s)
      BY <1>2, <1>5
    <3> QED
      BY <1>1, <1>2, <3>1, ElementOfSeq
  <2>2. Tail(s) # <<>>
    <3>1. Tail(s) \in Seq(Nat) /\ ~(Len(Tail(s)) = 0)
      BY <1>3, <2>1
    <3> QED
      BY <3>1, EmptySeq, Zenon
  <2>3. Length(s) = s[1] + s[2] /\ Length(s) \in Nat \ {0}
    BY <1>2, <1>5, <2>1 DEF Length
  <2> QED
    BY <1>2, <1>3, <2>1, <2>2, <2>3
<1> QED
  BY <1>1, <1>4, <1>5

\* While parts of a message are still to come, its length is known.
LengthKnown == shape # <<>> => len \in {Length(s) : s \in Shapes}

\* The inductive invariant of the session.
IInv == TypeOK /\ PartFits /\ LengthKnown

-----------------------------------------------------------------------------
LEMMA RingAssumed == Ring!RingAssumption
BY SessionAssumption DEF Ring!RingAssumption

\* The parts of a message are bytes.
LEMMA PartsAreBytes ==
  ASSUME NEW n \in 0..(Numbers - 1), NEW l \in {Length(s) : s \in Shapes},
         NEW from \in Nat, NEW count \in Nat
  PROVE  Bytes(n, l, from, count) \in Seq(Byte)
<1>1. \A i \in 1..count : [number |-> n, len |-> l, at |-> from + i - 1] \in Byte
  BY DEF Byte
<1> QED
  BY <1>1 DEF Bytes

LEMMA InvInit == Init => IInv
<1> SUFFICES ASSUME Init PROVE IInv
  OBVIOUS
<1>1. Ring!RingInit
  BY DEF Init
<1>2. Ring!RingTypeOK /\ PartFits
  BY <1>1, RingAssumed, RingInvInit DEF RingInv
<1>3. 0 \in 0..(Numbers - 1) /\ 0 \in 0..RecvSize
  BY SessionAssumption
<1>4. shape \in Seq(Nat) /\ complete \in Seq([number : 0..(Numbers - 1), len : Nat])
  BY DEF Init
<1> QED
  BY <1>2, <1>3, <1>4 DEF Init, IInv, TypeOK, LengthKnown

\* What a step of the session does to the ring.
LEMMA RingStep == ASSUME IInv, [Next]_vars PROVE [Ring!RingNext]_ring
<1> USE SessionAssumption DEF IInv, TypeOK
<1>1. ASSUME NEW s \in Shapes, BeginMessage(s) PROVE Ring!RingNext
  <2>1. Bytes(number, len', 0, Head(s)) \in Seq(Byte)
    BY <1>1, PartsAreBytes DEF BeginMessage
  <2> QED
    BY <1>1, <2>1 DEF BeginMessage, Ring!RingNext
<1>2. CASE BeginNextPart
  <2>1. Bytes(number, len, at, Head(shape)) \in Seq(Byte)
    BY <1>2, PartsAreBytes DEF BeginNextPart, LengthKnown
  <2> QED
    BY <1>2, <2>1 DEF BeginNextPart, Ring!RingNext
<1>3. CASE Skip
  BY <1>3 DEF Skip, Ring!RingNext
<1>4. CASE CopyPart \/ RefusePart \/ PublishPart \/ SenderRestarts
  BY <1>4 DEF CopyPart, RefusePart, PublishPart, SenderRestarts, Ring!RingNext
<1>5. CASE PeekHeader \/ Receive \/ ReceiverRestarts \/ UNCHANGED vars
  BY <1>5 DEF PeekHeader, Receive, ReceiverRestarts, vars
<1> QED
  BY <1>1, <1>2, <1>3, <1>4, <1>5 DEF Next

\* The message of which a byte is in the ring has a length.
LEMMA ByteLength == \A b \in Byte : b.len \in Nat
BY ShapeFacts DEF Byte

LEMMA InvStep == ASSUME IInv, [Next]_vars PROVE IInv'
<1> USE SessionAssumption DEF IInv, LengthKnown
<1> DEFINE SenderType == /\ number \in 0..(Numbers - 1)
                         /\ shape \in Seq(Nat) /\ len \in Nat /\ at \in Nat
                         /\ LengthKnown
           OtherType == /\ complete \in Seq([number : 0..(Numbers - 1), len : Nat])
                        /\ reader \in {"poll", "peek", "skip", "lost"}
                        /\ msgSize \in 0..RecvSize
                        /\ torn \in BOOLEAN
<1>1. Ring!RingTypeOK' /\ PartFits'
  <2>1. Ring!RingTypeOK
    BY DEF TypeOK
  <2>2. [Ring!RingNext]_(Ring!ringVars)
    BY RingStep DEF ring, Ring!ringVars, Ring!writerVars
  <2> QED
    BY <2>1, <2>2, RingAssumed, RingTypeStep
<1>2. SenderType /\ OtherType
  BY DEF TypeOK
<1>3. SenderType' /\ OtherType'
  <2>1. ASSUME NEW s \in Shapes, BeginMessage(s) PROVE SenderType' /\ OtherType'
    BY <1>2, <2>1, ShapeFacts DEF BeginMessage, receiver
  <2>2. CASE BeginNextPart
    <3>1. Head(shape) \in Nat /\ Tail(shape) \in Seq(Nat)
      BY <1>2, <2>2 DEF BeginNextPart
    <3> QED
      BY <1>2, <2>2, <3>1 DEF BeginNextPart, receiver
  <2>3. CASE CopyPart
    BY <1>2, <2>3 DEF CopyPart, sender, receiver
  <2>4. CASE RefusePart
    BY <1>2, <2>4 DEF RefusePart, sender, receiver
  <2>5. CASE PublishPart
    <3>1. (number + 1) % Numbers \in 0..(Numbers - 1)
      BY <1>2
    <3>2. [number |-> number, len |-> len] \in [number : 0..(Numbers - 1), len : Nat]
      BY <1>2
    <3>3. complete' \in Seq([number : 0..(Numbers - 1), len : Nat])
      <4>1. complete' \in {complete, Append(complete, [number |-> number, len |-> len])}
        BY <2>5 DEF PublishPart
      <4>2. ASSUME NEW R, NEW m \in R, complete \in Seq(R) PROVE Append(complete, m) \in Seq(R)
        BY <4>2
      <4> DEFINE M == [number : 0..(Numbers - 1), len : Nat]
                 m == [number |-> number, len |-> len]
      <4>3. m \in M /\ complete \in Seq(M)
        BY <1>2, <3>2
      <4> HIDE DEF M, m
      <4>4. Append(complete, m) \in Seq(M)
        BY <4>2, <4>3
      <4> QED
        BY <4>1, <4>3, <4>4 DEF M, m
    <3>4. number' \in 0..(Numbers - 1) /\ UNCHANGED <<shape, len, at, receiver, torn>>
      BY <1>2, <2>5, <3>1 DEF PublishPart
    <3> QED
      BY <1>2, <3>3, <3>4 DEF receiver
  <2>6. CASE SenderRestarts
    <3>1. UNCHANGED <<number, len, at, complete, receiver>> /\ shape' = <<>>
      BY <2>6 DEF SenderRestarts
    <3>2. torn' \in BOOLEAN
      BY <2>6 DEF SenderRestarts
    <3> QED
      BY <1>2, <3>1, <3>2 DEF receiver
  <2>7. CASE PeekHeader
    <3>1. msgSize' \in 0..RecvSize
      <4>1. CASE IsHeader /\ At(0).len <= RecvSize
        <5>1. At(0) \in Byte \union {Blank} /\ At(0) # Blank
          <6>1. (read + 0) % Size \in Ring!Cell
            BY DEF TypeOK, Ring!RingTypeOK, Ring!Cell
          <6> QED
            BY <4>1, <6>1 DEF TypeOK, Ring!RingTypeOK, At, IsHeader
        <5>2. At(0).len \in Nat
          BY <5>1, ByteLength
        <5> QED
          BY <2>7, <4>1, <5>2 DEF PeekHeader
      <4>2. CASE ~(IsHeader /\ At(0).len <= RecvSize)
        BY <2>7, <4>2 DEF PeekHeader
      <4> QED
        BY <4>1, <4>2
    <3>2. reader' \in {"peek", "lost"} /\ UNCHANGED <<sender, complete, torn>>
      BY <2>7 DEF PeekHeader
    <3> QED
      BY <1>2, <3>1, <3>2 DEF sender
  <2>8. CASE Receive
    <3>1. torn' \in BOOLEAN
      BY <2>8 DEF Receive
    <3>2. reader' \in {"poll", "skip"} /\ UNCHANGED <<sender, complete, msgSize>>
      BY <2>8 DEF Receive
    <3> QED
      BY <1>2, <3>1, <3>2 DEF sender
  <2>9. CASE Skip
    <3>1. complete' \in Seq([number : 0..(Numbers - 1), len : Nat])
      BY <1>2, <2>9 DEF Skip
    <3> QED
      BY <1>2, <2>9, <3>1 DEF Skip, sender
  <2>10. CASE ReceiverRestarts
    BY <1>2, <2>10 DEF ReceiverRestarts, sender
  <2>11. CASE UNCHANGED vars
    BY <1>2, <2>11 DEF vars, sender, receiver
  <2> QED
    BY <2>1, <2>2, <2>3, <2>4, <2>5, <2>6, <2>7, <2>8, <2>9, <2>10, <2>11 DEF Next
<1> QED
  BY <1>1, <1>3 DEF TypeOK

\* Every variable of a session keeps its type (IPCSession).
THEOREM TypeCorrect == Spec => []TypeOK
<1>1. IInv => TypeOK
  BY DEF IInv
<1> QED
  BY <1>1, InvInit, InvStep, PTL DEF Spec

\* Two sessions move their ring as one process that puts and one that takes (IPCSession
\* send and procRecv on SLShmQueue): what holds of RingBuffer holds of their ring.
THEOREM Implementation == Spec => UsesRing
<1>1. Init => Ring!RingInit
  BY DEF Init
<1>2. IInv /\ [Next]_vars => [Ring!RingNext]_(Ring!ringVars)
  BY RingStep DEF ring, Ring!ringVars, Ring!writerVars
<1> QED
  BY <1>1, <1>2, InvInit, InvStep, PTL DEF Spec, UsesRing, Ring!RingSpec

\* No byte of a message is overwritten before it is taken (IPCSession on SLRingBuffer).
THEOREM NothingOverwritten == Spec => UnreadBytesStay
<1>1. Ring!RingSpec => Ring!UnreadBytesStay
  BY RingAssumed, RingNothingOverwritten
<1> QED
  BY <1>1, Implementation DEF UsesRing, UnreadBytesStay

-----------------------------------------------------------------------------
\* What is in the ring, message by message.  The proofs about it do without sums: where
\* each message begins is a function that exists.

\* How many bytes of the message that is being sent are in the ring, and how many with
\* the part that put has copied.
Sent   == IF writer # "idle" THEN at - Len(part) ELSE IF shape # <<>> THEN at ELSE 0
Copied == IF writer = "publish" THEN Sent + Len(part) ELSE Sent

\* From the given distance on there are the first bytes of a message.
Holds(from, n, l, bytes) ==
  \A k \in 0..(bytes - 1) : At(from + k) = [number |-> n, len |-> l, at |-> k]

\* The messages begin at the distances start from _read, and the last number in start is
\* where the message begins that is being sent.
Offsets(start) ==
  /\ start \in [1..(Len(complete) + 1) -> Nat]
  /\ start[1] = 0
  /\ \A i \in 1..Len(complete) : /\ complete[i].len > 0
                                 /\ start[i + 1] = start[i] + complete[i].len
  /\ \A i, j \in 1..(Len(complete) + 1) : i <= j => start[i] <= start[j]

Layout(start) ==
  /\ Offsets(start)
  /\ \A i \in 1..Len(complete) :
        Holds(start[i], complete[i].number, complete[i].len, complete[i].len)
  /\ start[Len(complete) + 1] + Sent = Ring!DataSize
  /\ Holds(start[Len(complete) + 1], number, len, Copied)

\* The parts that are put are the next ones of their message.
SenderInv ==
  /\ writer # "idle" => /\ Len(part) \in 1..at
                        /\ part = Bytes(number, len, at - Len(part), Len(part))
  /\ shape # <<>> => /\ Len(shape) = 1 /\ shape[1] \in Nat \ {0}
                     /\ at > 0 /\ len = at + shape[1]
  /\ shape = <<>> /\ writer # "idle" => at = len

\* The message at _read is the oldest one, or the one that is being sent.
ReaderInv ==
  /\ reader = "skip" => complete # <<>> /\ msgSize = complete[1].len
  /\ reader = "peek" => IF complete # <<>> THEN msgSize = complete[1].len
                                           ELSE Sent > 0 /\ msgSize = len

\* The inductive invariant about messages.
MessageInv ==
  /\ IInv /\ RoomKept
  /\ Sound => /\ ~overrun
              /\ SenderInv /\ ReaderInv
              /\ \E start : Layout(start)

-----------------------------------------------------------------------------
\* What put and get do to the bytes ahead of _read.

LEMMA AtCell ==
  ASSUME Ring!RingTypeOK, NEW d \in Nat, d < Size
  PROVE  /\ (read + d) % Size \in Ring!Cell
         /\ (read + d) % Size = IF read + d < Size THEN read + d ELSE read + d - Size
<1>1. read \in Ring!Cell
  BY DEF Ring!RingTypeOK
<1> QED
  BY <1>1, Forward, RingAssumed

LEMMA RingNumbers ==
  ASSUME Ring!RingTypeOK
  PROVE  /\ read \in Int /\ 0 <= read /\ read < Size
         /\ write \in Int /\ 0 <= write /\ write < Size
         /\ Size \in Nat /\ Space \in Int /\ 0 < Space /\ Space < Size
         /\ Len(part) \in Nat
         /\ Ring!DataSize = IF write >= read THEN write - read ELSE write - read + Size
         /\ Ring!DataSize \in Nat
BY RingAssumed DEF Ring!RingTypeOK, Ring!RingAssumption, Ring!Cell, Ring!DataSize,
                   Ring!Distance

LEMMA CopyAppends ==
  ASSUME NEW size, size = Ring!DataSize,
         IInv, RoomKept, Ring!CopyPart, ~overrun, ~split'
  PROVE  /\ \A d \in 0..(size - 1) : At(d)' = At(d)
         /\ \A k \in 0..(Len(part) - 1) : At(size + k)' = part[k + 1]
<1>1. /\ ~split /\ ~(~readIsLow /\ read < Space) /\ writer = "test" /\ Ring!Fits
      /\ UNCHANGED <<read, write, part, readIsLow, overrun>>
      /\ buffer' = [i \in Ring!Cell |-> IF Ring!Distance(write, i) < Len(part)
                                        THEN part[Ring!Distance(write, i) + 1]
                                        ELSE buffer[i]]
  BY DEF Ring!CopyPart
<1>2. Ring!RingTypeOK
  BY DEF IInv, TypeOK
<1>3. Ring!DataSize + Len(part) <= Size - Space
  BY <1>1, <1>2, FitsInRoom, RingAssumed
<1>n. /\ read \in Int /\ 0 <= read /\ read < Size
      /\ write \in Int /\ 0 <= write /\ write < Size
      /\ Size \in Int /\ Space \in Int /\ 0 < Space /\ Len(part) \in Nat
      /\ size \in Int /\ size = Ring!DataSize
      /\ size = IF write >= read THEN write - read ELSE write - read + Size
  BY <1>2, RingNumbers
<1>4. ASSUME NEW d \in 0..(size - 1) PROVE At(d)' = At(d)
  <2> DEFINE c == (read + d) % Size
  <2>1. d \in Nat /\ d < Size
    BY <1>n, <1>3
  <2>2. c \in Ring!Cell /\ c = IF read + d < Size THEN read + d ELSE read + d - Size
    BY <1>2, <2>1, AtCell
  <2> HIDE DEF c
  <2>3. ~(Ring!Distance(write, c) < Len(part))
    <3>1. /\ c \in Int /\ 0 <= c /\ c < Size /\ d < size
          /\ c = IF read + d < Size THEN read + d ELSE read + d - Size
      BY <1>n, <2>2 DEF Ring!Cell
    <3> QED
      BY <1>n, <1>3, <2>1, <3>1 DEF Ring!Distance
  <2>4. buffer'[c] = buffer[c]
    BY <1>1, <2>2, <2>3
  <2>5. At(d)' = buffer'[c] /\ At(d) = buffer[c]
    BY <1>1 DEF At, c
  <2> QED
    BY <2>4, <2>5
<1>5. ASSUME NEW k \in 0..(Len(part) - 1) PROVE At(size + k)' = part[k + 1]
  <2> DEFINE d == size + k
             c == (read + d) % Size
  <2>0. k \in Nat /\ k < Len(part)
    BY <1>n
  <2>1. d \in Nat /\ d < Size
    BY <1>n, <1>3, <2>0
  <2>2. c \in Ring!Cell /\ c = IF read + d < Size THEN read + d ELSE read + d - Size
    BY <1>2, <2>1, AtCell
  <2>4. At(size + k)' = buffer'[c]
    BY <1>1 DEF At
  <2> HIDE DEF c
  <2>5. Ring!Distance(write, c) = k
    <3>1. /\ c \in Int /\ 0 <= c /\ c < Size
          /\ c = IF read + d < Size THEN read + d ELSE read + d - Size
      BY <1>n, <2>2 DEF Ring!Cell
    <3> QED
      BY <1>n, <1>3, <2>0, <3>1 DEF Ring!Distance
  <2>6. buffer'[c] = part[k + 1]
    BY <1>1, <2>0, <2>2, <2>5
  <2> QED
    BY <2>4, <2>6
<1> QED
  BY <1>4, <1>5

LEMMA PublishGrows ==
  ASSUME IInv, Ring!PublishPart, Ring!DataSize + Len(part) <= Size - Space
  PROVE  /\ Ring!DataSize' = Ring!DataSize + Len(part)
         /\ \A d : At(d)' = At(d)
<1>1. write' = Ring!NewPos /\ UNCHANGED <<buffer, read>>
  BY DEF Ring!PublishPart
<1>2. Ring!RingTypeOK
  BY DEF IInv, TypeOK
<1>3. Ring!DataSize' = Ring!DataSize + Len(part)
  BY <1>1, <1>2, RingNumbers DEF Ring!DataSize, Ring!Distance, Ring!NewPos, Ring!Wraps
<1>4. \A d : At(d)' = At(d)
  BY <1>1 DEF At
<1> QED
  BY <1>3, <1>4

LEMMA ReadOutShifts ==
  ASSUME IInv, NEW n \in Nat, Ring!ReadOut(n), n <= Ring!DataSize
  PROVE  /\ Ring!DataSize' = Ring!DataSize - n
         /\ \A d \in Nat : n + d < Size => At(d)' = At(n + d)
<1>1. read' = (read + n) % Size /\ UNCHANGED <<buffer, write>>
  BY DEF Ring!ReadOut
<1>2. Ring!RingTypeOK
  BY DEF IInv, TypeOK
<1>3. n < Size
  BY <1>2, RingNumbers
<1>n. /\ read \in Int /\ 0 <= read /\ read < Size
      /\ write \in Int /\ 0 <= write /\ write < Size
      /\ Size \in Int
  BY <1>2, RingNumbers
<1>4. read' = IF read + n < Size THEN read + n ELSE read + n - Size
  BY <1>1, <1>2, <1>3, AtCell
<1>5. Ring!DataSize' = Ring!DataSize - n
  <2>1. Ring!DataSize' = IF write >= read' THEN write - read' ELSE write - read' + Size
    BY <1>1 DEF Ring!DataSize, Ring!Distance
  <2>2. PICK size : size = Ring!DataSize
    OBVIOUS
  <2>3. /\ size = IF write >= read THEN write - read ELSE write - read + Size
        /\ n <= size
    BY <1>2, <2>2, RingNumbers
  <2>4. (IF write >= read' THEN write - read' ELSE write - read' + Size) = size - n
    BY <1>n, <1>4, <2>3
  <2> QED
    BY <2>1, <2>2, <2>4
<1>6. ASSUME NEW d \in Nat, n + d < Size PROVE At(d)' = At(n + d)
  <2>1. read' \in Ring!Cell
    BY <1>1, <1>2, <1>3, AtCell
  <2>2. (read' + d) % Size = IF read' + d < Size THEN read' + d ELSE read' + d - Size
    BY <1>2, <1>3, <1>6, <2>1, Forward, RingAssumed, RingNumbers
  <2>3. (read + (n + d)) % Size
          = IF read + (n + d) < Size THEN read + (n + d) ELSE read + (n + d) - Size
    BY <1>2, <1>6, AtCell
  <2>4. (read' + d) % Size = (read + (n + d)) % Size
    <3> DEFINE a == (read' + d) % Size
               b == (read + (n + d)) % Size
    <3>1. /\ a = IF read' + d < Size THEN read' + d ELSE read' + d - Size
          /\ b = IF read + (n + d) < Size THEN read + (n + d) ELSE read + (n + d) - Size
      BY <2>2, <2>3
    <3> HIDE DEF a, b
    <3>2. a = b
      BY <1>n, <1>3, <1>4, <1>6, <3>1
    <3> QED
      BY <3>2 DEF a, b
  <2> QED
    BY <1>1, <2>4 DEF At
<1> QED
  BY <1>5, <1>6

-----------------------------------------------------------------------------
\* The part of the invariant that needs a sound connection.
Good == ~overrun /\ SenderInv /\ ReaderInv /\ \E start : Layout(start)

LEMMA BytesFacts ==
  ASSUME NEW n, NEW l, NEW from \in Nat, NEW count \in Nat
  PROVE  /\ Len(Bytes(n, l, from, count)) = count
         /\ \A k \in 0..(count - 1) :
               Bytes(n, l, from, count)[k + 1] = [number |-> n, len |-> l, at |-> from + k]
<1>1. Len(Bytes(n, l, from, count)) = count
  BY DEF Bytes
<1>2. ASSUME NEW k \in 0..(count - 1)
      PROVE  Bytes(n, l, from, count)[k + 1] = [number |-> n, len |-> l, at |-> from + k]
  <2>1. k + 1 \in 1..count /\ from + (k + 1) - 1 = from + k
    OBVIOUS
  <2>2. Bytes(n, l, from, count)[k + 1]
          = [number |-> n, len |-> l, at |-> from + (k + 1) - 1]
    BY <2>1 DEF Bytes
  <2> QED
    BY <2>1, <2>2
<1> QED
  BY <1>1, <1>2

LEMMA CompleteFacts ==
  ASSUME IInv
  PROVE  /\ Len(complete) \in Nat
         /\ \A i \in 1..Len(complete) : complete[i].len \in Nat
<1> DEFINE M == [number : 0..(Numbers - 1), len : Nat]
<1>1. complete \in Seq(M)
  BY DEF IInv, TypeOK
<1>2. \A m \in M : m.len \in Nat
  OBVIOUS
<1> HIDE DEF M
<1>3. Len(complete) \in Nat /\ \A i \in 1..Len(complete) : complete[i] \in M
  BY <1>1, ElementOfSeq
<1> QED
  BY <1>2, <1>3

LEMMA SentType ==
  ASSUME IInv, SenderInv
  PROVE  /\ Sent \in Nat /\ Copied \in Nat /\ Sent <= Copied
         /\ Len(part) \in Nat
         /\ writer = "publish" => Copied = at
BY DEF IInv, TypeOK, SenderInv, Sent, Copied, Ring!RingTypeOK

\* A step that neither moves what is in the ring nor completes a message.
LEMMA LayoutKept ==
  ASSUME NEW start, Layout(start), UNCHANGED <<buffer, read, write, complete>>,
         Sent' = Sent, Copied' = 0 \/ (Copied' = Copied /\ UNCHANGED <<number, len>>)
  PROVE  Layout(start)'
<1>1. Offsets(start)'
  BY DEF Layout, Offsets
<1>2. \A d : At(d)' = At(d)
  BY DEF At
<1>3. Ring!DataSize' = Ring!DataSize
  BY DEF Ring!DataSize, Ring!Distance
<1>4. \A i \in 1..Len(complete') :
         Holds(start[i], complete[i].number, complete[i].len, complete[i].len)'
  BY <1>2 DEF Layout, Holds
<1>5. Holds(start[Len(complete) + 1], number, len, Copied)'
  BY <1>2 DEF Layout, Holds
<1> QED
  BY <1>1, <1>3, <1>4, <1>5 DEF Layout

\* Every step that is not sound any more stays so.
LEMMA SoundBefore ==
  ASSUME IInv, [Next]_vars, Sound'
  PROVE  Sound
<1>1. torn => torn'
  BY DEF Next, vars, BeginMessage, BeginNextPart, CopyPart, RefusePart, PublishPart,
         SenderRestarts, PeekHeader, Receive, Skip, ReceiverRestarts
<1>2. split => split'
  BY DEF Next, vars, ring, BeginMessage, BeginNextPart, CopyPart, RefusePart, PublishPart,
         SenderRestarts, PeekHeader, Receive, Skip, ReceiverRestarts, Ring!BeginPut,
         Ring!CopyPart, Ring!RefusePart, Ring!PublishPart, Ring!WriterRestarts,
         Ring!ReadOut, Ring!writerVars
<1> QED
  BY <1>1, <1>2 DEF Sound

LEMMA GoodBeginMessage ==
  ASSUME MessageInv, Sound, NEW s \in Shapes, BeginMessage(s)
  PROVE  Good'
<1>1. /\ ~overrun /\ SenderInv /\ ReaderInv /\ \E start : Layout(start)
      /\ number \in 0..(Numbers - 1)
  BY DEF MessageInv, IInv, TypeOK
<1>2. /\ shape = <<>> /\ writer = "idle" /\ writer' = "test"
      /\ shape' = Tail(s) /\ len' = Length(s) /\ at' = Head(s)
      /\ part' = Bytes(number, len', 0, Head(s))
      /\ UNCHANGED <<buffer, read, write, complete, number, overrun, reader, msgSize>>
  BY DEF BeginMessage, Ring!BeginPut, receiver
<1>3. /\ Head(s) \in Nat \ {0} /\ Length(s) \in Nat \ {0}
      /\ Tail(s) = <<>> => Length(s) = Head(s)
      /\ Tail(s) # <<>> => /\ Len(Tail(s)) = 1 /\ Tail(s)[1] \in Nat \ {0}
                           /\ Length(s) = Head(s) + Tail(s)[1]
  BY ShapeFacts
<1>4. Len(part') = at' /\ at' - Len(part') = 0
  <2>1. Len(Bytes(number, len', 0, Head(s))) = Head(s)
    <3>1. Head(s) \in Nat /\ 0 \in Nat
      BY <1>3
    <3> QED
      BY <3>1, BytesFacts, Zenon
  <2> QED
    BY <1>2, <1>3, <2>1
<1>5. Sent = 0 /\ Sent' = 0 /\ Copied' = 0
  BY <1>2, <1>4 DEF Sent, Copied
<1>6. SenderInv'
  <2>1. Len(part') \in 1..at' /\ part' = Bytes(number', len', at' - Len(part'), Len(part'))
    BY <1>2, <1>3, <1>4
  <2>2. shape' # <<>> => /\ Len(shape') = 1 /\ shape'[1] \in Nat \ {0}
                         /\ at' > 0 /\ len' = at' + shape'[1]
    BY <1>2, <1>3
  <2>3. shape' = <<>> => at' = len'
    BY <1>2, <1>3
  <2> QED
    BY <2>1, <2>2, <2>3 DEF SenderInv
<1>7. ReaderInv'
  BY <1>1, <1>2, <1>5 DEF ReaderInv
<1>8. \E start : Layout(start)'
  BY <1>1, <1>2, <1>5, LayoutKept
<1> QED
  BY <1>1, <1>2, <1>6, <1>7, <1>8 DEF Good

LEMMA GoodBeginNextPart ==
  ASSUME MessageInv, Sound, BeginNextPart
  PROVE  Good'
<1>1. /\ ~overrun /\ SenderInv /\ ReaderInv /\ \E start : Layout(start)
      /\ at \in Nat /\ len \in Nat
  BY DEF MessageInv, IInv, TypeOK
<1>2. /\ shape # <<>> /\ writer = "idle" /\ writer' = "test"
      /\ shape' = Tail(shape) /\ at' = at + Head(shape)
      /\ part' = Bytes(number, len, at, Head(shape))
      /\ UNCHANGED <<buffer, read, write, complete, number, len, overrun, reader, msgSize>>
  BY DEF BeginNextPart, Ring!BeginPut, receiver
<1>3. /\ Head(shape) \in Nat \ {0} /\ Tail(shape) = <<>> /\ at > 0
      /\ len = at + Head(shape)
  <2>1. Len(shape) = 1 /\ shape[1] \in Nat \ {0} /\ len = at + shape[1] /\ at > 0
    BY <1>1, <1>2 DEF SenderInv
  <2>2. shape \in Seq(Nat)
    BY DEF MessageInv, IInv, TypeOK
  <2>3. Head(shape) = shape[1] /\ Tail(shape) \in Seq(Nat) /\ Len(Tail(shape)) = 0
    BY <1>2, <2>1, <2>2, HeadTailProperties
  <2>4. Tail(shape) = <<>>
    BY <2>3, EmptySeq
  <2> QED
    BY <2>1, <2>3, <2>4
<1>4. Len(part') = Head(shape) /\ at' - Len(part') = at
  <2>1. Len(Bytes(number, len, at, Head(shape))) = Head(shape)
    BY <1>1, <1>3, BytesFacts, Zenon
  <2> QED
    BY <1>1, <1>2, <1>3, <2>1
<1>5. Sent = at /\ Copied = at /\ Sent' = at /\ Copied' = at
  BY <1>2, <1>4 DEF Sent, Copied
<1>6. SenderInv'
  <2>1. Len(part') \in 1..at'
    <3>1. at \in Nat /\ Head(shape) \in Nat \ {0} /\ at' = at + Head(shape)
          /\ Len(part') = Head(shape)
      BY <1>1, <1>2, <1>3, <1>4
    <3> QED
      BY <3>1
  <2>2. part' = Bytes(number', len', at' - Len(part'), Len(part'))
    BY <1>2, <1>4, Zenon
  <2>3. shape' = <<>> /\ at' = len'
    BY <1>2, <1>3
  <2> QED
    BY <2>1, <2>2, <2>3 DEF SenderInv
<1>7. ReaderInv'
  BY <1>1, <1>2, <1>5 DEF ReaderInv
<1>8. \E start : Layout(start)'
  BY <1>1, <1>2, <1>5, LayoutKept
<1> QED
  BY <1>1, <1>2, <1>6, <1>7, <1>8 DEF Good

LEMMA GoodCopyPart ==
  ASSUME MessageInv, Sound, Sound', CopyPart
  PROVE  Good'
<1>1. /\ ~overrun /\ SenderInv /\ ReaderInv /\ IInv /\ RoomKept
  BY DEF MessageInv
<1>2. PICK start : Layout(start)
  BY DEF MessageInv
<1>3. /\ writer = "test" /\ writer' = "publish" /\ Ring!CopyPart /\ ~split'
      /\ UNCHANGED <<read, write, complete, number, shape, len, at, part, overrun,
                     reader, msgSize>>
  BY DEF CopyPart, Ring!CopyPart, sender, receiver, Sound
<1>4. /\ Sent \in Nat /\ Copied = Sent /\ Sent' = Sent /\ Copied' = Sent + Len(part)
      /\ Len(part) \in Nat /\ Len(part) <= at /\ at \in Nat /\ Sent = at - Len(part)
  BY <1>1, <1>3, SentType DEF Sent, Copied, SenderInv, IInv, TypeOK
<1>b. part = Bytes(number, len, Sent, Len(part))
  BY <1>1, <1>3 DEF SenderInv, Sent
<1> PICK size : size = Ring!DataSize
  OBVIOUS
<1>5. /\ \A d \in 0..(size - 1) : At(d)' = At(d)
      /\ \A k \in 0..(Len(part) - 1) : At(size + k)' = part[k + 1]
  BY <1>1, <1>3, CopyAppends
<1>6. Ring!DataSize' = Ring!DataSize
  BY <1>3 DEF Ring!DataSize, Ring!Distance
<1> PICK last : last = start[Len(complete) + 1]
  OBVIOUS
<1>7. /\ Len(complete) \in Nat
      /\ start \in [1..(Len(complete) + 1) -> Nat]
      /\ last \in Nat /\ last + Sent = size
      /\ \A i \in 1..Len(complete) :
            /\ complete[i].len > 0 /\ start[i + 1] = start[i] + complete[i].len
            /\ start[i + 1] <= last
  <2>1. Len(complete) \in Nat
    BY <1>1, CompleteFacts
  <2>2. start \in [1..(Len(complete) + 1) -> Nat] /\ last \in Nat
    BY <1>2, <2>1 DEF Layout, Offsets
  <2>3. \A i \in 1..Len(complete) : start[i + 1] <= last
    BY <1>2, <2>1 DEF Layout, Offsets
  <2> QED
    BY <1>2, <2>1, <2>2, <2>3 DEF Layout, Offsets
<1>d. size \in Nat
  BY <1>4, <1>7
<1>8. Offsets(start)'
  BY <1>2, <1>3 DEF Layout, Offsets
<1>9. ASSUME NEW i \in 1..Len(complete)
      PROVE  Holds(start[i], complete[i].number, complete[i].len, complete[i].len)'
  <2>1. complete[i].len \in Nat
    BY <1>1, CompleteFacts
  <2>2. ASSUME NEW k \in 0..(complete[i].len - 1)
        PROVE  start[i] + k \in 0..(size - 1)
    <3>1. start[i] \in Nat /\ start[i + 1] = start[i] + complete[i].len /\ start[i + 1] <= last
      BY <1>7
    <3> DEFINE s == start[i]
               l == complete[i].len
    <3>2. s \in Nat /\ l \in Nat /\ s + l <= last /\ k \in 0..(l - 1)
      BY <2>1, <3>1
    <3>3. last \in Nat /\ Sent \in Nat /\ last + Sent = size
      BY <1>4, <1>7
    <3> HIDE DEF s, l
    <3>4. s + k \in 0..(size - 1)
      BY <3>2, <3>3
    <3> QED
      BY <3>4 DEF s
  <2>3. Holds(start[i], complete[i].number, complete[i].len, complete[i].len)
    BY <1>2 DEF Layout
  <2> QED
    BY <1>3, <1>5, <2>2, <2>3 DEF Holds
<1>10. Holds(last, number, len, Copied)'
  <2> SUFFICES ASSUME NEW k \in 0..(Sent + Len(part) - 1)
               PROVE  At(last + k)' = [number |-> number, len |-> len, at |-> k]
    BY <1>3, <1>4 DEF Holds
  <2>1. CASE k < Sent
    <3>1. last + k \in 0..(size - 1) /\ k \in 0..(Copied - 1)
      <4>1. last \in Nat /\ Sent \in Nat /\ last + Sent = size /\ Copied = Sent
        BY <1>4, <1>7
      <4> QED
        BY <2>1, <4>1
    <3>2. At(last + k) = [number |-> number, len |-> len, at |-> k]
      BY <1>2, <3>1 DEF Layout, Holds
    <3> QED
      BY <1>5, <3>1, <3>2
  <2>2. CASE k >= Sent
    <3> DEFINE j == k - Sent
    <3>1. j \in 0..(Len(part) - 1) /\ last + k = size + j
      <4>1. /\ last \in Nat /\ Sent \in Nat /\ last + Sent = size
            /\ Len(part) \in Nat
        BY <1>4, <1>7
      <4> QED
        BY <2>2, <4>1
    <3> HIDE DEF j
    <3>2. At(last + k)' = part[j + 1]
      BY <1>5, <3>1
    <3>3. part[j + 1] = [number |-> number, len |-> len, at |-> Sent + j]
      <4>1. Bytes(number, len, Sent, Len(part))[j + 1]
              = [number |-> number, len |-> len, at |-> Sent + j]
        <5>1. PICK count \in Nat : count = Len(part)
          BY <1>4
        <5>2. Sent \in Nat /\ j \in 0..(count - 1)
          BY <1>4, <3>1, <5>1
        <5>3. Bytes(number, len, Sent, count)[j + 1]
                = [number |-> number, len |-> len, at |-> Sent + j]
          BY <5>2, BytesFacts
        <5> QED
          BY <5>1, <5>3
      <4>2. part = Bytes(number, len, Sent, Len(part))
        BY <1>b
      <4> QED
        BY <4>1, <4>2, Zenon
    <3>4. Sent + j = k
      BY <1>4 DEF j
    <3> QED
      BY <3>2, <3>3, <3>4
  <2> QED
    BY <1>4, <2>1, <2>2
<1>11. Layout(start)'
  BY <1>3, <1>4, <1>6, <1>7, <1>8, <1>9, <1>10 DEF Layout
<1>12. SenderInv' /\ ReaderInv'
  BY <1>1, <1>3, <1>4, <1>b DEF SenderInv, ReaderInv
<1> QED
  BY <1>1, <1>3, <1>11, <1>12 DEF Good

\* A message whose last part is published joins the complete ones.
LEMMA CompleteGrows ==
  ASSUME IInv, complete' = Append(complete, [number |-> number, len |-> len])
  PROVE  /\ Len(complete') = Len(complete) + 1 /\ complete' # <<>>
         /\ \A i \in 1..Len(complete) : complete'[i] = complete[i]
         /\ complete'[Len(complete) + 1].number = number
         /\ complete'[Len(complete) + 1].len = len
<1> DEFINE M == [number : 0..(Numbers - 1), len : Nat]
           m == [number |-> number, len |-> len]
<1>1. complete \in Seq(M) /\ m \in M /\ m.number = number /\ m.len = len
  BY DEF IInv, TypeOK
<1>2. complete' = Append(complete, m)
  OBVIOUS
<1> HIDE DEF M, m
<1>3. /\ Len(complete') = Len(complete) + 1 /\ complete' \in Seq(M)
      /\ \A i \in 1..Len(complete) : complete'[i] = complete[i]
      /\ complete'[Len(complete) + 1] = m
  BY <1>1, <1>2, AppendProperties
<1>4. complete' # <<>>
  BY <1>1, <1>3, EmptySeq
<1> QED
  BY <1>1, <1>3, <1>4

LEMMA GoodPublishPart ==
  ASSUME MessageInv, Sound, PublishPart
  PROVE  Good'
<1>1. /\ ~overrun /\ SenderInv /\ ReaderInv /\ IInv /\ RoomKept
  BY DEF MessageInv
<1>2. PICK start : Layout(start)
  BY DEF MessageInv
<1>3. /\ writer = "publish" /\ writer' = "idle" /\ Ring!PublishPart
      /\ UNCHANGED <<read, shape, len, at, overrun, reader, msgSize>>
  BY DEF PublishPart, Ring!PublishPart, receiver
<1>4. /\ Ring!DataSize + Len(part) <= Size - Space
  BY <1>1, <1>3 DEF RoomKept, Sound
<1>5. /\ Ring!DataSize' = Ring!DataSize + Len(part) /\ \A d : At(d)' = At(d)
  BY <1>1, <1>3, <1>4, PublishGrows
<1>6. /\ at \in Nat /\ at > 0 /\ Len(part) \in Nat /\ Sent = at - Len(part) /\ Sent \in Nat
      /\ Copied = at
  BY <1>1, <1>3, SentType DEF Sent, SenderInv, IInv, TypeOK
<1>7. SenderInv'
  BY <1>1, <1>3 DEF SenderInv
<1> PICK n : n = Len(complete)
  OBVIOUS
<1> PICK last : last = start[n + 1]
  OBVIOUS
<1>8. /\ n \in Nat /\ last \in Nat /\ last + Sent = Ring!DataSize
      /\ Holds(last, number, len, at)
      /\ start \in [1..(n + 1) -> Nat]
      /\ \A i \in 1..(n + 1) : start[i] <= last
  <2>1. n \in Nat
    BY <1>1, CompleteFacts
  <2> QED
    BY <1>2, <1>6, <2>1 DEF Layout, Offsets
<1>9. Ring!DataSize' = last + at
  <2>1. Ring!DataSize' = (last + Sent) + Len(part)
    BY <1>5, <1>8
  <2> QED
    BY <1>6, <1>8, <2>1
<1>10. CASE shape # <<>>
  <2>1. UNCHANGED <<complete, number>>
    BY <1>10 DEF PublishPart
  <2>2. Sent' = at /\ Copied' = at
    BY <1>3, <1>10 DEF Sent, Copied
  <2>3. Offsets(start)'
    BY <1>2, <2>1 DEF Layout, Offsets
  <2>4. \A i \in 1..Len(complete') :
           Holds(start[i], complete[i].number, complete[i].len, complete[i].len)'
    BY <1>2, <1>5, <2>1 DEF Layout, Holds
  <2>5. Holds(start[Len(complete) + 1], number, len, Copied)'
    BY <1>3, <1>5, <1>8, <2>1, <2>2 DEF Holds
  <2>6. Layout(start)'
    BY <1>8, <1>9, <2>1, <2>2, <2>3, <2>4, <2>5 DEF Layout
  <2>7. ReaderInv'
    BY <1>1, <1>3, <1>6, <2>1, <2>2 DEF ReaderInv
  <2> QED
    BY <1>1, <1>3, <1>7, <2>6, <2>7 DEF Good
<1>11. CASE shape = <<>>
  <2>1. /\ complete' = Append(complete, [number |-> number, len |-> len])
        /\ Sent' = 0 /\ Copied' = 0 /\ at = len
    BY <1>1, <1>3, <1>11 DEF PublishPart, Sent, Copied, SenderInv
  <2>2. /\ Len(complete') = n + 1 /\ complete' # <<>>
        /\ \A i \in 1..n : complete'[i] = complete[i]
        /\ complete'[n + 1].number = number /\ complete'[n + 1].len = len
    BY <1>1, <2>1, CompleteGrows
  <2> PICK next : next = [i \in 1..(n + 2) |-> IF i = n + 2 THEN last + at ELSE start[i]]
    OBVIOUS
  <2>3. /\ next \in [1..(n + 2) -> Nat] /\ next[n + 2] = last + at
        /\ \A i \in 1..(n + 1) : next[i] = start[i]
    BY <1>6, <1>8
  <2>4. Offsets(next)'
    <3>1. next[1] = 0
      BY <1>2, <1>8, <2>3 DEF Layout, Offsets
    <3>2. ASSUME NEW i \in 1..(n + 1)
          PROVE  complete'[i].len > 0 /\ next[i + 1] = next[i] + complete'[i].len
      <4>1. CASE i = n + 1
        <5>1. complete'[i].len = at /\ i + 1 = n + 2 /\ next[i] = last
          BY <1>8, <2>1, <2>2, <2>3, <4>1
        <5> QED
          BY <1>6, <2>3, <5>1
      <4>2. CASE i \in 1..n
        <5>1. complete[i].len > 0 /\ start[i + 1] = start[i] + complete[i].len
          BY <1>2, <4>2 DEF Layout, Offsets
        <5>2. i + 1 \in 1..(n + 1) /\ i \in 1..(n + 1)
          BY <1>8, <4>2
        <5> QED
          BY <2>2, <2>3, <4>2, <5>1, <5>2
      <4> QED
        BY <1>8, <4>1, <4>2
    <3>3. ASSUME NEW i \in 1..(n + 2), NEW j \in 1..(n + 2), i <= j
          PROVE  next[i] <= next[j]
      <4>1. CASE j \in 1..(n + 1)
        <5>1. i \in 1..(n + 1)
          BY <1>8, <3>3, <4>1
        <5>2. start[i] <= start[j]
          BY <1>2, <3>3, <4>1, <5>1 DEF Layout, Offsets
        <5> QED
          BY <2>3, <4>1, <5>1, <5>2
      <4>2. CASE j = n + 2 /\ i \in 1..(n + 1)
        <5>1. start[i] \in Nat /\ start[i] <= last /\ next[i] = start[i] /\ next[j] = last + at
          BY <1>8, <2>3, <4>2
        <5> QED
          BY <1>6, <1>8, <5>1
      <4>3. CASE j = n + 2 /\ i = n + 2
        BY <1>6, <1>8, <2>3, <4>3
      <4> QED
        BY <1>8, <4>1, <4>2, <4>3
    <3>4. Len(complete') + 1 = n + 2
      BY <1>8, <2>2
    <3> QED
      BY <2>2, <2>3, <3>1, <3>2, <3>3, <3>4 DEF Offsets
  <2>5. ASSUME NEW i \in 1..Len(complete')
        PROVE  Holds(next[i], complete[i].number, complete[i].len, complete[i].len)'
    <3>1. CASE i \in 1..n
      <4>1. Holds(start[i], complete[i].number, complete[i].len, complete[i].len)
        BY <1>2, <3>1 DEF Layout
      <4>2. next[i] = start[i] /\ complete'[i] = complete[i]
        BY <1>8, <2>2, <2>3, <3>1
      <4> QED
        BY <1>5, <4>1, <4>2 DEF Holds
    <3>2. CASE i = n + 1
      <4>1. /\ next[i] = last
            /\ complete'[i].number = number /\ complete'[i].len = len
        BY <1>8, <2>2, <2>3, <3>2
      <4>2. Holds(last, number, len, len)
        BY <1>8, <2>1
      <4> QED
        BY <1>5, <4>1, <4>2 DEF Holds
    <3> QED
      BY <1>8, <2>2, <3>1, <3>2
  <2>6. Holds(next[Len(complete) + 1], number, len, Copied)'
    BY <2>1 DEF Holds
  <2>7. next[Len(complete') + 1] + Sent' = Ring!DataSize'
    <3>1. Len(complete') + 1 = n + 2
      BY <1>8, <2>2
    <3> QED
      BY <1>6, <1>8, <1>9, <2>1, <2>3, <3>1
  <2>8. Layout(next)'
    BY <2>4, <2>5, <2>6, <2>7 DEF Layout
  <2>9. ReaderInv'
    <3>1. CASE complete # <<>>
      <4>1. complete'[1] = complete[1]
        <5>1. 1 \in 1..n
          BY <1>1, <1>8, <3>1, EmptySeq DEF IInv, TypeOK
        <5> QED
          BY <2>2, <5>1
      <4> QED
        BY <1>1, <1>3, <2>2, <3>1, <4>1 DEF ReaderInv
    <3>2. CASE complete = <<>>
      <4>1. complete'[1].len = len
        <5>1. n = 0
          BY <3>2
        <5> QED
          BY <2>2, <5>1
      <4> QED
        BY <1>1, <1>3, <2>2, <3>2, <4>1 DEF ReaderInv
    <3> QED
      BY <3>1, <3>2
  <2> QED
    BY <1>1, <1>3, <1>7, <2>8, <2>9 DEF Good
<1> QED
  BY <1>10, <1>11

LEMMA GoodSenderRestarts ==
  ASSUME MessageInv, Sound, Sound', SenderRestarts
  PROVE  Good'
<1>1. /\ ~overrun /\ SenderInv /\ ReaderInv /\ IInv
      /\ \E start : Layout(start)
  BY DEF MessageInv
<1>2. /\ writer' = "idle" /\ shape' = <<>>
      /\ IF writer = "idle" THEN shape = <<>> ELSE at = Len(part)
      /\ UNCHANGED <<buffer, read, write, complete, number, len, overrun, reader, msgSize>>
  BY DEF SenderRestarts, Ring!WriterRestarts, receiver, Sound
<1>3. Sent = 0 /\ Sent' = 0 /\ Copied' = 0
  <2>1. at \in Nat
    BY <1>1 DEF IInv, TypeOK
  <2> QED
    BY <1>2, <2>1 DEF Sent, Copied
<1>4. SenderInv'
  BY <1>2 DEF SenderInv
<1>5. ReaderInv'
  BY <1>1, <1>2, <1>3 DEF ReaderInv
<1>6. \E start : Layout(start)'
  BY <1>1, <1>2, <1>3, LayoutKept
<1> QED
  BY <1>1, <1>2, <1>4, <1>5, <1>6 DEF Good

\* The header is that of the oldest message, or of the one that is being sent.
LEMMA GoodPeekHeader ==
  ASSUME MessageInv, Sound, PeekHeader
  PROVE  Good'
<1>1. /\ ~overrun /\ SenderInv /\ ReaderInv /\ IInv
  BY DEF MessageInv
<1>2. PICK start : Layout(start)
  BY DEF MessageInv
<1>3. /\ reader' \in {"peek", "lost"} /\ (reader' = "peek" => msgSize' = At(0).len)
      /\ read # write
      /\ UNCHANGED <<buffer, read, write, complete, number, len, shape, at, writer, part,
                     overrun>>
  BY DEF PeekHeader, ring, sender
<1>4. Sent' = Sent /\ Copied' = Copied
  BY <1>3 DEF Sent, Copied
<1>5. ReaderInv'
  <2>1. CASE complete # <<>>
    <3>1. 1 \in 1..Len(complete)
      <4>1. Len(complete) \in Nat /\ Len(complete) # 0
        BY <1>1, <2>1, EmptySeq DEF IInv, TypeOK
      <4> QED
        BY <4>1
    <3>2. Holds(start[1], complete[1].number, complete[1].len, complete[1].len)
      BY <1>2, <3>1 DEF Layout
    <3>3. 0 \in 0..(complete[1].len - 1) /\ start[1] + 0 = 0
      <4>1. complete[1].len \in Nat /\ complete[1].len > 0 /\ start[1] = 0
        BY <1>1, <1>2, <3>1, CompleteFacts DEF Layout, Offsets
      <4> QED
        BY <4>1
    <3>4. At(0).len = complete[1].len
      <4>1. At(start[1] + 0)
              = [number |-> complete[1].number, len |-> complete[1].len, at |-> 0]
        BY <3>2, <3>3 DEF Holds
      <4> QED
        BY <3>3, <4>1
    <3> QED
      BY <1>3, <2>1, <3>4 DEF ReaderInv
  <2>2. CASE complete = <<>>
    <3>1. start[1] = 0 /\ Sent = Ring!DataSize /\ Holds(0, number, len, Copied)
      <4>1. Len(complete) = 0
        BY <2>2
      <4>2. start[1] = 0 /\ start[0 + 1] + Sent = Ring!DataSize
            /\ Holds(start[0 + 1], number, len, Copied)
        BY <1>2, <4>1 DEF Layout, Offsets
      <4>3. Sent \in Nat
        BY <1>1, SentType
      <4> QED
        BY <4>2, <4>3
    <3>2. Sent > 0
      BY <1>1, <1>3, <3>1, RingNumbers DEF IInv, TypeOK
    <3>3. 0 \in 0..(Copied - 1)
      BY <1>1, <3>2, SentType
    <3>4. At(0 + 0) = [number |-> number, len |-> len, at |-> 0]
      BY <3>1, <3>3 DEF Holds
    <3>5. At(0).len = len
      BY <3>4
    <3> QED
      BY <1>3, <1>4, <2>2, <3>2, <3>5 DEF ReaderInv
  <2> QED
    BY <2>1, <2>2
<1>6. SenderInv'
  BY <1>1, <1>3 DEF SenderInv
<1>7. Layout(start)'
  BY <1>2, <1>3, <1>4, LayoutKept
<1> QED
  BY <1>1, <1>3, <1>5, <1>6, <1>7 DEF Good

\* The callback gets a message only if it is complete; else it asks too early.
LEMMA GoodReceive ==
  ASSUME MessageInv, Sound, Sound', Receive
  PROVE  Good'
<1>1. /\ ~overrun /\ SenderInv /\ ReaderInv /\ \E start : Layout(start)
  BY DEF MessageInv
<1>2. /\ reader = "peek" /\ reader' \in {"poll", "skip"} /\ complete # <<>>
      /\ UNCHANGED <<buffer, read, write, complete, number, len, shape, at, writer, part,
                     overrun, msgSize>>
  BY DEF Receive, ring, sender, Sound
<1>3. Sent' = Sent /\ Copied' = Copied
  BY <1>2 DEF Sent, Copied
<1>4. SenderInv' /\ ReaderInv'
  BY <1>1, <1>2 DEF SenderInv, ReaderInv
<1>5. \E start : Layout(start)'
  BY <1>1, <1>2, <1>3, LayoutKept
<1> QED
  BY <1>1, <1>2, <1>4, <1>5 DEF Good

LEMMA GoodReceiverRestarts ==
  ASSUME MessageInv, Sound, ReceiverRestarts \/ UNCHANGED vars
  PROVE  Good'
<1>1. /\ ~overrun /\ SenderInv /\ ReaderInv /\ \E start : Layout(start)
  BY DEF MessageInv
<1>2. /\ reader' = "poll" \/ UNCHANGED <<reader, msgSize>>
      /\ UNCHANGED <<buffer, read, write, complete, number, len, shape, at, writer, part,
                     overrun>>
  BY DEF ReceiverRestarts, vars, ring, sender, receiver
<1>3. Sent' = Sent /\ Copied' = Copied
  BY <1>2 DEF Sent, Copied
<1>4. SenderInv' /\ ReaderInv'
  BY <1>1, <1>2, <1>3 DEF SenderInv, ReaderInv
<1>5. \E start : Layout(start)'
  BY <1>1, <1>2, <1>3, LayoutKept
<1> QED
  BY <1>1, <1>2, <1>4, <1>5 DEF Good

\* Where the messages begin when the first of them, of m bytes, has been taken.
Starts(n, start, length) ==
  /\ start \in [1..(n + 1) -> Nat] /\ length \in [1..n -> Nat] /\ start[1] = 0
  /\ \A i \in 1..n : start[i + 1] = start[i] + length[i]
  /\ \A i, j \in 1..(n + 1) : i <= j => start[i] <= start[j]

StartsNext(n, start, length, m) ==
  /\ \A i \in 1..n : m <= start[i + 1] /\ start[i + 1] <= start[n + 1]
  /\ \E next \in [1..n -> Nat] :
        /\ next[1] = 0 /\ start[n + 1] = m + next[n]
        /\ \A i \in 1..n : start[i + 1] = m + next[i]
        /\ \A i \in 1..(n - 1) : next[i + 1] = next[i] + length[i + 1]
        /\ \A i, j \in 1..n : i <= j => next[i] <= next[j]

LEMMA StartsShift ==
  ASSUME NEW n \in Nat \ {0}, NEW start, NEW length, NEW m \in Nat, m = length[1],
         Starts(n, start, length)
  PROVE  StartsNext(n, start, length, m)
<1> USE DEF Starts
<1>1. start[2] = m
  <2>1. 1 \in 1..n /\ start[1 + 1] = start[1] + length[1]
    OBVIOUS
  <2> QED
    BY <2>1
<1>2. ASSUME NEW i \in 1..n
      PROVE  start[i + 1] \in Nat /\ m <= start[i + 1] /\ start[i + 1] <= start[n + 1]
  <2>1. /\ 2 \in 1..(n + 1) /\ i + 1 \in 1..(n + 1) /\ n + 1 \in 1..(n + 1)
        /\ 2 <= i + 1 /\ i + 1 <= n + 1
    OBVIOUS
  <2> QED
    BY <1>1, <2>1
<1>a. PICK next : next = [i \in 1..n |-> start[i + 1] - m]
  OBVIOUS
<1>b. \A i \in 1..n : start[i + 1] - m \in Nat /\ start[i + 1] = m + (start[i + 1] - m)
  BY <1>2
<1>3. next \in [1..n -> Nat] /\ \A i \in 1..n : start[i + 1] = m + next[i]
  BY <1>a, <1>b
<1>4. next[1] = 0 /\ start[n + 1] = m + next[n]
  <2>1. 1 \in 1..n /\ n \in 1..n /\ 1 + 1 = 2
    OBVIOUS
  <2>2. start[n + 1] = m + next[n] /\ start[1 + 1] = m + next[1] /\ next[1] \in Nat
    BY <1>3, <2>1
  <2>3. m = m + next[1]
    BY <1>1, <2>1, <2>2, Zenon
  <2>4. \A k \in Nat : m = m + k => k = 0
    OBVIOUS
  <2> QED
    BY <2>2, <2>3, <2>4, Zenon
<1>5. ASSUME NEW i \in 1..(n - 1) PROVE next[i + 1] = next[i] + length[i + 1]
  <2>1. i \in 1..n /\ i + 1 \in 1..n
    OBVIOUS
  <2> DEFINE a == next[i + 1]
             b == next[i]
             c == length[i + 1]
  <2>2. a \in Nat /\ b \in Nat /\ c \in Nat /\ m + a = (m + b) + c
    <3>1. /\ start[i + 1] = m + b /\ start[(i + 1) + 1] = m + a
          /\ start[(i + 1) + 1] = start[i + 1] + c
      BY <1>3, <2>1
    <3> QED
      BY <1>3, <2>1, <3>1
  <2> HIDE DEF a, b, c
  <2>3. a = b + c
    BY <2>2
  <2> QED
    BY <2>3 DEF a, b, c
<1>6. ASSUME NEW i \in 1..n, NEW j \in 1..n, i <= j PROVE next[i] <= next[j]
  <2>1. i + 1 \in 1..(n + 1) /\ j + 1 \in 1..(n + 1) /\ i + 1 <= j + 1
    BY <1>6
  <2> DEFINE a == next[i]
             b == next[j]
  <2>2. a \in Nat /\ b \in Nat /\ m + a <= m + b
    BY <1>3, <2>1
  <2> HIDE DEF a, b
  <2>3. a <= b
    BY <2>2
  <2> QED
    BY <2>3 DEF a, b
<1> QED
  BY <1>2, <1>3, <1>4, <1>5, <1>6 DEF StartsNext

\* The oldest message, and nothing else, is taken out of the ring.
LEMMA GoodSkip ==
  ASSUME MessageInv, Sound, Skip
  PROVE  Good'
<1>1. /\ ~overrun /\ SenderInv /\ ReaderInv /\ IInv /\ RoomKept
  BY DEF MessageInv
<1>2. PICK start : Layout(start)
  BY DEF MessageInv
<1>3. /\ complete # <<>> /\ msgSize = complete[1].len /\ complete' = Tail(complete)
      /\ reader' = "poll" /\ Ring!ReadOut(msgSize)
      /\ overrun' = (overrun \/ msgSize > Ring!DataSize)
      /\ UNCHANGED <<write, writer, part, number, len, shape, at>>
  BY <1>1 DEF Skip, ReaderInv, Ring!ReadOut, Ring!writerVars, sender
<1>n. PICK n : n = Len(complete)
  OBVIOUS
<1>l. PICK last : last = start[n + 1]
  OBVIOUS
<1>m. PICK m : m = msgSize
  OBVIOUS
<1>4. /\ n \in Nat \ {0} /\ m \in Nat
      /\ Len(complete') = n - 1 /\ \A i \in 1..(n - 1) : complete'[i] = complete[i + 1]
  <2> DEFINE M == [number : 0..(Numbers - 1), len : Nat]
  <2>1. complete \in Seq(M) /\ m \in Nat
    BY <1>1, <1>m DEF IInv, TypeOK
  <2> HIDE DEF M
  <2>2. n \in Nat /\ n # 0
    BY <1>3, <1>n, <2>1, EmptySeq
  <2>3. Len(complete') = n - 1 /\ \A i \in 1..(n - 1) : complete'[i] = complete[i + 1]
    <3>1. /\ Len(Tail(complete)) = Len(complete) - 1
          /\ \A i \in 1..Len(Tail(complete)) : Tail(complete)[i] = complete[i + 1]
      BY <1>3, <2>1, HeadTailProperties
    <3> QED
      BY <1>3, <1>n, <3>1
  <2> QED
    BY <2>1, <2>2, <2>3
<1>5. /\ start \in [1..(n + 1) -> Nat] /\ start[1] = 0
      /\ \A i \in 1..n : complete[i].len > 0 /\ start[i + 1] = start[i] + complete[i].len
      /\ \A i, j \in 1..(n + 1) : i <= j => start[i] <= start[j]
      /\ last \in Nat /\ last + Sent = Ring!DataSize
  BY <1>2, <1>4, <1>n, <1>l DEF Layout, Offsets
<1>6. /\ \A i \in 1..n : m <= start[i + 1] /\ start[i + 1] <= last
      /\ \E next \in [1..n -> Nat] :
            /\ next[1] = 0 /\ last = m + next[n]
            /\ \A i \in 1..n : start[i + 1] = m + next[i]
            /\ \A i \in 1..(n - 1) : next[i + 1] = next[i] + complete[i + 1].len
            /\ \A i, j \in 1..n : i <= j => next[i] <= next[j]
  <2>a. PICK length : length = [i \in 1..n |-> complete[i].len]
    OBVIOUS
  <2>1. /\ length \in [1..n -> Nat] /\ \A i \in 1..n : length[i] = complete[i].len
        /\ m = length[1] /\ \A i \in 1..(n - 1) : length[i + 1] = complete[i + 1].len
    <3>1. \A i \in 1..n : complete[i].len \in Nat
      BY <1>1, <1>n, CompleteFacts
    <3>2. 1 \in 1..n /\ \A i \in 1..(n - 1) : i + 1 \in 1..n
      BY <1>4
    <3> QED
      BY <1>3, <1>m, <2>a, <3>1, <3>2
  <2>2. \A i \in 1..n : start[i + 1] = start[i] + length[i]
    BY <1>5, <2>1
  <2>3. StartsNext(n, start, length, m)
    <3>1. n \in Nat \ {0} /\ m \in Nat /\ m = length[1] /\ Starts(n, start, length)
      BY <1>4, <1>5, <2>1, <2>2 DEF Starts
    <3> QED
      BY <3>1, StartsShift, Zenon
  <2>4. start[n + 1] = last /\ \A i \in 1..(n - 1) : length[i + 1] = complete[i + 1].len
    BY <1>l, <2>1
  <2> QED
    BY <2>3, <2>4, Zenon DEF StartsNext
<1>7. m <= last /\ m <= Ring!DataSize /\ Sent \in Nat /\ Copied \in Nat /\ Sent <= Copied
  <2>1. Sent \in Nat /\ Copied \in Nat /\ Sent <= Copied
    BY <1>1, SentType
  <2>2. m <= last
    BY <1>4, <1>5, <1>6
  <2> QED
    BY <1>4, <1>5, <2>1, <2>2
<1>8. last + Copied < Size /\ Size \in Nat
  <2>1. /\ Size \in Nat /\ Space \in Int /\ 0 < Space /\ Len(part) \in Nat
        /\ Ring!DataSize \in Nat
    BY <1>1, RingNumbers DEF IInv, TypeOK
  <2>2. Ring!DataSize <= Size - Space
        /\ (writer = "publish" => Ring!DataSize + Len(part) <= Size - Space)
    BY <1>1 DEF RoomKept, Sound
  <2>3. Copied = IF writer = "publish" THEN Sent + Len(part) ELSE Sent
    BY DEF Copied
  <2> QED
    BY <1>5, <1>7, <2>1, <2>2, <2>3
<1>9. /\ Ring!DataSize' = Ring!DataSize - m
      /\ \A d \in Nat : m + d < Size => At(d)' = At(m + d)
  <2>1. IInv /\ Ring!ReadOut(m) /\ m \in Nat /\ m <= Ring!DataSize
    BY <1>1, <1>3, <1>4, <1>7, <1>m
  <2> QED
    BY <2>1, ReadOutShifts
<1>10. ~overrun'
  <2>1. Ring!DataSize \in Nat
    BY <1>1, RingNumbers DEF IInv, TypeOK
  <2>2. ~(msgSize > Ring!DataSize)
    BY <1>m, <1>4, <1>7, <2>1
  <2>3. ~overrun /\ overrun' = (overrun \/ msgSize > Ring!DataSize)
    BY <1>1, <1>3
  <2> QED
    BY <2>2, <2>3, Zenon
<1>11. Sent' = Sent /\ Copied' = Copied
  BY <1>3 DEF Sent, Copied
<1>12. PICK next \in [1..n -> Nat] :
            /\ next[1] = 0 /\ last = m + next[n]
            /\ \A i \in 1..n : start[i + 1] = m + next[i]
            /\ \A i \in 1..(n - 1) : next[i + 1] = next[i] + complete[i + 1].len
            /\ \A i, j \in 1..n : i <= j => next[i] <= next[j]
  BY <1>6
<1>13. Offsets(next)'
  <2>1. Len(complete') + 1 = n /\ Len(complete') = n - 1
    BY <1>4
  <2>2. ASSUME NEW i \in 1..(n - 1)
        PROVE  complete'[i].len > 0 /\ next[i + 1] = next[i] + complete'[i].len
    <3>1. i + 1 \in 1..n /\ complete'[i] = complete[i + 1]
      BY <1>4
    <3> QED
      BY <1>5, <1>12, <3>1
  <2> QED
    BY <1>12, <2>1, <2>2 DEF Offsets
<1>14. ASSUME NEW i \in 1..Len(complete')
       PROVE  Holds(next[i], complete[i].number, complete[i].len, complete[i].len)'
  <2>1. i + 1 \in 1..n /\ i \in 1..n /\ complete'[i] = complete[i + 1]
    BY <1>4
  <2>l. PICK l : l = complete[i + 1].len
    OBVIOUS
  <2>2. Holds(start[i + 1], complete[i + 1].number, l, l)
    BY <1>2, <1>n, <2>1, <2>l DEF Layout
  <2>3. /\ l \in Nat /\ next[i] \in Nat /\ start[i + 1] = m + next[i]
        /\ start[i + 1] + l <= last
    <3>1. start[(i + 1) + 1] = start[i + 1] + l /\ start[(i + 1) + 1] <= last
      BY <1>5, <1>6, <2>1, <2>l
    <3>2. l \in Nat
      BY <1>1, <1>n, <2>1, <2>l, CompleteFacts
    <3> QED
      BY <1>12, <2>1, <3>1, <3>2
  <2>4. ASSUME NEW k \in 0..(l - 1)
        PROVE  At(next[i] + k)' = At(start[i + 1] + k)
    <3>a. PICK a : a = next[i]
      OBVIOUS
    <3>b. PICK b : b = start[i + 1]
      OBVIOUS
    <3>1. /\ m \in Nat /\ a \in Nat /\ b = m + a /\ l \in Nat /\ k \in Nat /\ k < l
          /\ b + l <= last /\ last \in Nat /\ last <= Size /\ Size \in Nat
      <4>1. m \in Nat /\ last \in Nat /\ last <= Size /\ Size \in Nat
        BY <1>4, <1>5, <1>7, <1>8
      <4> QED
        BY <2>3, <3>a, <3>b, <4>1
    <3>2. a + k \in Nat /\ m + (a + k) = b + k /\ m + (a + k) < Size
      BY <3>1
    <3>3. At(a + k)' = At(m + (a + k))
      BY <1>9, <3>2
    <3> QED
      BY <3>2, <3>3, <3>a, <3>b, Zenon
  <2>5. complete'[i].number = complete[i + 1].number /\ complete'[i].len = l
    BY <2>1, <2>l
  <2> QED
    BY <2>2, <2>4, <2>5 DEF Holds
<1>15. Holds(next[Len(complete) + 1], number, len, Copied)'
  <2>1. Len(complete') + 1 = n /\ n \in 1..n
    BY <1>4
  <2>2. Holds(last, number, len, Copied)
    BY <1>2, <1>l, <1>n DEF Layout
  <2>3. ASSUME NEW k \in 0..(Copied - 1) PROVE At(next[n] + k)' = At(last + k)
    <3>a. PICK a : a = next[n]
      OBVIOUS
    <3>1. /\ m \in Nat /\ a \in Nat /\ last = m + a /\ last \in Nat /\ k \in Nat
          /\ k < Copied /\ Copied \in Nat /\ last + Copied < Size /\ Size \in Nat
      BY <1>4, <1>5, <1>7, <1>8, <1>12, <2>1, <3>a
    <3>2. a + k \in Nat /\ m + (a + k) = last + k /\ m + (a + k) < Size
      BY <3>1
    <3>3. At(a + k)' = At(m + (a + k))
      BY <1>9, <3>2
    <3> QED
      BY <3>2, <3>3, <3>a, Zenon
  <2> QED
    BY <1>3, <1>11, <2>1, <2>2, <2>3 DEF Holds
<1>16. next[Len(complete') + 1] + Sent' = Ring!DataSize'
  <2>1. Len(complete') + 1 = n /\ n \in 1..n
    BY <1>4
  <2>q. PICK q : q = next[n]
    OBVIOUS
  <2>2. /\ last \in Nat /\ last + Sent = Ring!DataSize /\ Sent \in Nat /\ m \in Nat
        /\ Ring!DataSize' = Ring!DataSize - m /\ q \in Nat /\ last = m + q
    BY <1>4, <1>5, <1>7, <1>9, <1>12, <2>1, <2>q
  <2>3. Ring!DataSize' = q + Sent
    BY <2>2
  <2> QED
    BY <1>11, <2>1, <2>3, <2>q, Zenon
<1>17. Layout(next)'
  BY <1>13, <1>14, <1>15, <1>16 DEF Layout
<1>18. SenderInv' /\ ReaderInv'
  BY <1>1, <1>3 DEF SenderInv, ReaderInv
<1> QED
  BY <1>10, <1>17, <1>18 DEF Good

-----------------------------------------------------------------------------
LEMMA MessageInit == Init => MessageInv
<1> SUFFICES ASSUME Init PROVE MessageInv
  OBVIOUS
<1>1. IInv
  BY InvInit
<1>2. RoomKept /\ Ring!RingTypeOK
  BY RingAssumed, RingInvInit DEF Init, RingInv
<1>3. /\ read = 0 /\ write = 0 /\ writer = "idle" /\ shape = <<>> /\ complete = <<>>
      /\ reader = "poll" /\ ~overrun
  BY DEF Init, Ring!RingInit
<1>4. Sent = 0 /\ Copied = 0 /\ Ring!DataSize = 0 /\ Len(complete) = 0
  BY <1>3 DEF Sent, Copied, Ring!DataSize, Ring!Distance
<1>a. PICK start : start = [i \in 1..1 |-> 0]
  OBVIOUS
<1>5. start \in [1..1 -> Nat] /\ start[1] = 0 /\ \A i, j \in 1..1 : i <= j => start[i] <= start[j]
  BY <1>a
<1>6. Layout(start)
  BY <1>4, <1>5 DEF Layout, Offsets, Holds
<1>7. SenderInv /\ ReaderInv
  BY <1>3 DEF SenderInv, ReaderInv
<1> QED
  BY <1>1, <1>2, <1>3, <1>6, <1>7 DEF MessageInv

LEMMA MessageStep == ASSUME MessageInv, [Next]_vars PROVE MessageInv'
<1>1. IInv /\ IInv'
  BY InvStep DEF MessageInv
<1>2. RoomKept'
  <2>1. RingInv
    BY DEF MessageInv, IInv, TypeOK, RingInv
  <2>2. [Ring!RingNext]_(Ring!ringVars)
    BY <1>1, RingStep DEF ring, Ring!ringVars, Ring!writerVars
  <2> QED
    BY <2>1, <2>2, RingAssumed, RingInvStep DEF RingInv
<1>3. ASSUME Sound' PROVE Good'
  <2>1. Sound
    BY <1>1, <1>3, SoundBefore
  <2>2. CASE \E s \in Shapes : BeginMessage(s)
    BY <2>1, <2>2, GoodBeginMessage
  <2>3. CASE BeginNextPart
    BY <2>1, <2>3, GoodBeginNextPart
  <2>4. CASE CopyPart
    BY <1>3, <2>1, <2>4, GoodCopyPart
  <2>5. ~RefusePart
    BY <1>3 DEF RefusePart, Sound
  <2>6. CASE PublishPart
    BY <2>1, <2>6, GoodPublishPart
  <2>7. CASE SenderRestarts
    BY <1>3, <2>1, <2>7, GoodSenderRestarts
  <2>8. CASE PeekHeader
    BY <2>1, <2>8, GoodPeekHeader
  <2>9. CASE Receive
    BY <1>3, <2>1, <2>9, GoodReceive
  <2>10. CASE Skip
    BY <2>1, <2>10, GoodSkip
  <2>11. CASE ReceiverRestarts \/ UNCHANGED vars
    BY <2>1, <2>11, GoodReceiverRestarts
  <2> QED
    BY <2>2, <2>3, <2>4, <2>5, <2>6, <2>7, <2>8, <2>9, <2>10, <2>11 DEF Next
<1> QED
  BY <1>1, <1>2, <1>3 DEF MessageInv, Good

\* The bytes that procRecv hands to the callback are the oldest message in the ring, all
\* of it and nothing else, however long the ring and the messages are.
THEOREM WholeMessages == Spec => []ReceivesWholeMessages
<1>1. MessageInv => ReceivesWholeMessages
  <2> SUFFICES ASSUME MessageInv, reader = "skip", Sound
               PROVE  [i \in 1..msgSize |-> At(i - 1)]
                        = Bytes(Head(complete).number, Head(complete).len, 0, Head(complete).len)
    BY DEF ReceivesWholeMessages
  <2>1. IInv /\ ReaderInv /\ complete # <<>> /\ msgSize = complete[1].len
    BY DEF MessageInv, ReaderInv
  <2>2. PICK start : Layout(start)
    BY DEF MessageInv
  <2>3. Head(complete) = complete[1] /\ 1 \in 1..Len(complete)
    <3> DEFINE M == [number : 0..(Numbers - 1), len : Nat]
    <3>1. complete \in Seq(M)
      BY <2>1 DEF IInv, TypeOK
    <3> HIDE DEF M
    <3>2. Len(complete) \in Nat /\ Len(complete) # 0
      BY <2>1, <3>1, EmptySeq
    <3> QED
      BY <2>1, <3>1, <3>2, HeadTailProperties
  <2>4. Holds(start[1], complete[1].number, complete[1].len, complete[1].len) /\ start[1] = 0
    BY <2>2, <2>3 DEF Layout, Offsets
  <2>5. ASSUME NEW i \in 1..msgSize
        PROVE  At(i - 1) = [number |-> complete[1].number, len |-> complete[1].len,
                            at |-> 0 + i - 1]
    <3>1. msgSize \in Nat
      BY <2>1 DEF IInv, TypeOK
    <3>2. i - 1 \in 0..(msgSize - 1) /\ 0 + (i - 1) = i - 1 /\ 0 + i - 1 = i - 1
      BY <3>1
    <3>3. At(0 + (i - 1)) = [number |-> complete[1].number, len |-> complete[1].len,
                             at |-> i - 1]
      BY <2>1, <2>4, <3>2 DEF Holds
    <3> QED
      BY <3>2, <3>3
  <2> QED
    BY <2>1, <2>3, <2>5 DEF Bytes
<1> QED
  BY <1>1, MessageInit, MessageStep, PTL DEF Spec

\* The reader takes no more than there is, although it never looks how much that is, as
\* long as no message is cut short (IPCSession::procRecv).
THEOREM NeverOverrun == Spec => []NeverOverruns
<1>1. MessageInv => NeverOverruns
  BY DEF MessageInv, NeverOverruns
<1> QED
  BY <1>1, MessageInit, MessageStep, PTL DEF Spec
=============================================================================
