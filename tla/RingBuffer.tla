----------------------------- MODULE RingBuffer ------------------------------
(***************************************************************************)
(* sl::SLRingBuffer (src/src/public/slring_buffer.h) in shared memory: one *)
(* process puts, another gets, and neither takes a lock.                   *)
(*                                                                         *)
(* put reads _read twice to find out how far it may write.  In a build     *)
(* without optimisation, as the debug build is, these are two loads, and   *)
(* the reader may move between them: they are two steps here.  If _read    *)
(* passes the end of the buffer there, put leaves less than SPACE free     *)
(* cells, and the next put takes the ring for empty.  It copies the bytes  *)
(* before it moves _write.  What the reader takes it chooses itself: get   *)
(* and readOut do not look how much there is.                              *)
(***************************************************************************)
EXTENDS Integers, Sequences

CONSTANTS Size,  \* _size
          Space, \* SPACE (8 in the code)
          Byte,  \* what a cell can hold
          Blank  \* what a cell holds before anything was written to it

RingAssumption == Size \in Nat /\ Space \in Nat \ {0} /\ Space < Size

Cell == 0..(Size - 1)

VARIABLES buffer,    \* the cells
          read,      \* _read
          write,     \* _write
          writer,    \* where put is
          part,      \* the bytes it puts
          readIsLow, \* its first load: _read < SPACE
          split,     \* (history) _read passed the end between its two loads
          overrun    \* (history) the reader took more than there was

writerVars == <<writer, part, readIsLow, split>>
ringVars   == <<buffer, read, write, writerVars, overrun>>

\* How far cell i is ahead of cell "from".
Distance(from, i) == IF i >= from THEN i - from ELSE i - from + Size

DataSize == Distance(read, write)

Unread == {i \in Cell : Distance(read, i) < DataSize}

\* init, by the process that finds the memory without a valid checksum.
RingInit == /\ buffer = [i \in Cell |-> Blank]
            /\ read = 0 /\ write = 0
            /\ writer = "idle" /\ part = <<>>
            /\ readIsLow = FALSE /\ split = FALSE
            /\ overrun = FALSE

-----------------------------------------------------------------------------
\* put(p): the first load of _read.
BeginPut(p) == /\ writer = "idle" /\ p # <<>>
               /\ part' = p
               /\ readIsLow' = (read < Space)
               /\ writer' = "test"
               /\ UNCHANGED <<buffer, read, write, split, overrun>>

MinPos == (IF readIsLow THEN Size ELSE 0) + read - Space
Wraps  == write + Len(part) >= Size
NewPos == IF Wraps THEN write + Len(part) - Size ELSE write + Len(part)

\* Mistake: put does not look how far it gets behind the end of the buffer.
FitsAlwaysBehindEnd == /\ Len(part) <= Size - Space
                       /\ write > MinPos \/ ~(Wraps \/ NewPos > MinPos)

\* Behind the second load: is there room?
Fits == /\ Len(part) <= Size - Space
        /\ IF write > MinPos THEN ~(Wraps /\ NewPos > MinPos)
                             ELSE ~(Wraps \/ NewPos > MinPos)

CopyPart == /\ writer = "test" /\ Fits
            /\ buffer' = [i \in Cell |-> IF Distance(write, i) < Len(part)
                                         THEN part[Distance(write, i) + 1]
                                         ELSE buffer[i]]
            /\ split' = (split \/ (~readIsLow /\ read < Space))
            /\ writer' = "publish"
            /\ UNCHANGED <<read, write, part, readIsLow, overrun>>

RefusePart == /\ writer = "test" /\ ~Fits
              /\ writer' = "idle" /\ part' = <<>>
              /\ UNCHANGED <<buffer, read, write, readIsLow, split, overrun>>

\* _write moves behind the bytes.
PublishPart == /\ writer = "publish"
               /\ write' = NewPos
               /\ writer' = "idle" /\ part' = <<>>
               /\ UNCHANGED <<buffer, read, readIsLow, split, overrun>>

\* The process that puts dies and starts again: the ring keeps its checksum, hence
\* its contents.
WriterRestarts == /\ writer' = "idle" /\ part' = <<>>
                  /\ UNCHANGED <<buffer, read, write, readIsLow, split, overrun>>

\* readOut(n), and get(n).
ReadOut(n) == /\ overrun' = (overrun \/ n > DataSize)
              /\ read' = (read + n) % Size
              /\ UNCHANGED <<buffer, write, writerVars>>

RingNext == \/ \E p \in Seq(Byte) : BeginPut(p)
            \/ CopyPart \/ RefusePart \/ PublishPart \/ WriterRestarts
            \/ \E n \in Nat : ReadOut(n)

RingSpec == RingInit /\ [][RingNext]_ringVars

-----------------------------------------------------------------------------
RingTypeOK == /\ buffer \in [Cell -> Byte \union {Blank}]
              /\ read \in Cell /\ write \in Cell
              /\ writer \in {"idle", "test", "publish"}
              /\ part \in Seq(Byte)
              /\ readIsLow \in BOOLEAN /\ split \in BOOLEAN /\ overrun \in BOOLEAN

\* No step changes a byte that was put and not yet taken, as long as the reader takes
\* only what is there and _read has not passed the end between the loads of a put
\* (slring_buffer.h put: "if only two objects use the queue, one way, no mutual
\* exclusion is needed").
UnreadBytesStay ==
    [][~overrun /\ ~split' => \A i \in Unread : buffer'[i] = buffer[i]]_ringVars
=============================================================================
