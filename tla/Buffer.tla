------------------------------- MODULE Buffer -------------------------------
(***************************************************************************)
(* Buffer (src/src/buffer.cc): the bytes of a connection, held in          *)
(* [head_, tail_) of a vector that keeps prepend_ bytes free in front of   *)
(* them.  Indexes are 0-based as in the code.  A buffer is a record, and   *)
(* the methods that call one another are operators on it.                  *)
(***************************************************************************)
EXTENDS Integers, Sequences

CONSTANTS
    Chunk,          \* the byte strings users hand over
    Byte,           \* the bytes they are made of
    Unwritten,      \* what else a byte of the vector may be
    InitialSize,    \* the arguments of the constructor
    PrependSize,
    MaxSize         \* bound on the size of the vector

ASSUME ChunkAssumption ==
    Chunk \subseteq Seq(Byte) /\ Unwritten \notin Byte
ASSUME SizeAssumption ==
    /\ InitialSize \in Nat /\ PrependSize \in Nat /\ MaxSize \in Nat
    /\ PrependSize <= InitialSize /\ InitialSize <= MaxSize

VARIABLES
    buf,    \* [head, tail, size, data]: head_, tail_, data_.size(), data_
    ended   \* the method in which an assert failed, or which wrote outside the
            \* vector, after which anything may happen; or "none"

bufferVars == <<buf, ended>>

BufferInit ==
    /\ buf = [head |-> PrependSize, tail |-> PrependSize, size |-> InitialSize,
              data |-> [i \in 0..(InitialSize - 1) |-> Unwritten]]
    /\ ended = "none"

-----------------------------------------------------------------------------
(* The methods, as operators on the record.                                *)

ReadableBytes(b) == b.tail - b.head
WriteableBytes(b) == b.size - ReadableBytes(b)

\* The bytes in [head_, tail_), as a reader of begin() and size() finds them.
Content(b) ==
    [i \in 1..ReadableBytes(b) |->
        IF b.head + i - 1 \in 0..(b.size - 1) THEN b.data[b.head + i - 1]
        ELSE Unwritten]

\* data_.resize(n).
Resize(b, n) ==
    [b EXCEPT !.size = n,
              !.data = [i \in 0..(n - 1) |->
                           IF i < b.size THEN b.data[i] ELSE Unwritten]]

\* std::copy() of s to the place at: what lies outside the vector is lost.
Copy(b, s, at) ==
    [b EXCEPT !.data = [i \in 0..(b.size - 1) |->
                           IF i \in at..(at + Len(s) - 1) THEN s[i - at + 1]
                           ELSE b.data[i]]]

\* The bytes are written at tail_ and counted.
CopyToTail(b, s) == [Copy(b, s, b.tail) EXCEPT !.tail = @ + Len(s)]

\* Mutant: tail_ is computed from the head_ that has moved already.
MoveHeadFirst(b, index) ==
    [Copy(b, Content(b), index) EXCEPT !.head = index,
                                       !.tail = b.tail]

MoveTo(b, index) ==
    [Copy(b, Content(b), index) EXCEPT !.head = index,
                                       !.tail = index + ReadableBytes(b)]

\* The assert of MoveTo().
MoveFits(b, index) == index + ReadableBytes(b) <= b.size

\* Mutant: the space kept in front of the bytes is taken for free.
TooSmallWithoutPrepend(b, n) == WriteableBytes(b) < n

TooSmall(b, n) == WriteableBytes(b) - PrependSize < n

\* The size the vector is grown to, at least; the capacity may be larger.
Grown(b, n) == n + b.tail + b.size

\* EnsureWritableSpace(): the vector grows, here to cap, or the bytes move.
EnsureWritableSpace(b, n, cap) ==
    IF TooSmall(b, n) THEN Resize(b, cap) ELSE MoveTo(b, PrependSize)

Appended(b, s, cap) == CopyToTail(EnsureWritableSpace(b, Len(s), cap), s)

\* What capacity() may be after EnsureWritableSpace(n).
Capacities(b, n) == IF TooSmall(b, n) THEN Grown(b, n)..MaxSize ELSE {b.size}

\* ReadFd(): readv() fills the vector and then a local array.
ReadInto(b, s, cap) ==
    LET room == b.size - b.tail
        full == CopyToTail(b, SubSeq(s, 1, room))
    IN  IF Len(s) <= room THEN CopyToTail(b, s)
        ELSE Appended(full, SubSeq(s, room + 1, Len(s)), cap)

-----------------------------------------------------------------------------
(* The calls users make.                                                   *)

\* The assert of MoveTo() ends the program when what it asks for fails.
Asserts(fits, method, after) ==
    /\ ended = "none"
    /\ IF fits THEN buf' = after /\ UNCHANGED ended
       ELSE ended' = method /\ UNCHANGED buf

\* Whether EnsureWritableSpace(n) gets past that assert.
Ensures(b, n) == TooSmall(b, n) \/ MoveFits(b, PrependSize)

AppendBytes(s) ==
    \E cap \in Capacities(buf, Len(s)) :
        Asserts(Ensures(buf, Len(s)), "Append", Appended(buf, s, cap))

ReadFd(s) ==
    LET spill == Len(s) - (buf.size - buf.tail)
        full == [buf EXCEPT !.tail = buf.size]
    IN  IF spill <= 0
        THEN ended = "none" /\ buf' = ReadInto(buf, s, buf.size) /\ UNCHANGED ended
        ELSE \E cap \in Capacities(full, spill) :
                 Asserts(Ensures(full, spill), "ReadFd", ReadInto(buf, s, cap))

Reserve(n) ==
    \E cap \in Capacities(buf, n) :
        Asserts(Ensures(buf, n), "Reserve", EnsureWritableSpace(buf, n, cap))

Pop(n) ==
    /\ ended = "none"
    /\ n <= ReadableBytes(buf)
    /\ buf' = [buf EXCEPT !.head = @ + n]
    /\ UNCHANGED ended

\* Prepend() asserts that there is room and copies to data() - head_, which is
\* in the vector only when head_ has become 0.
Prepend(s) ==
    LET head == buf.head - Len(s)
    IN  /\ ended = "none"
        /\ head >= 0
        /\ buf' = Copy([buf EXCEPT !.head = head], s, -head)
        /\ ended' = IF head > 0 /\ s # <<>> THEN "Prepend" ELSE ended

Shrink ==
    LET moved == MoveTo(buf, PrependSize)
    IN  Asserts(MoveFits(buf, PrependSize), "Shrink", Resize(moved, moved.tail))

BufferNext ==
    \/ \E s \in Chunk :
           AppendBytes(s) \/ ReadFd(s) \/ Prepend(s) \/ Reserve(Len(s))
    \/ \E n \in 1..ReadableBytes(buf) : Pop(n)
    \/ Shrink

BufferSpec == BufferInit /\ [][BufferNext]_bufferVars

-----------------------------------------------------------------------------
(* Properties.                                                             *)

BufferTypeOK ==
    /\ buf.head \in Nat /\ buf.tail \in Nat /\ buf.size \in 0..MaxSize
    /\ buf.data \in [0..(buf.size - 1) -> Byte \cup {Unwritten}]
    /\ ended \in {"none", "Append", "ReadFd", "Reserve", "Shrink", "Prepend"}

\* Through any sequence of calls the indexes stay in order and inside the
\* vector and only written bytes are in between, until one of two calls ends
\* it: Shrink() when a header has taken the space that MoveTo() wants in front
\* (l. 37, 57), and Prepend() of a header that leaves some of that space, which
\* is written outside the vector (l. 70).  No other call fails an assert (the
\* space calculation of l. 47 has to count prepend_, the move of l. 53 to fit).
WellFormed ==
    /\ BufferTypeOK
    /\ buf.head <= buf.tail /\ buf.tail <= buf.size
    /\ ended # "Prepend" => \A i \in buf.head..(buf.tail - 1) : buf.data[i] \in Byte
    /\ ended # "none" => \/ ended = "Shrink" /\ buf.head < PrependSize
                         \/ ended = "Prepend" /\ buf.head > 0

Queue == INSTANCE ByteQueue WITH queue <- Content(buf), broken <- ended = "Prepend"

\* Growing, moving, shrinking and the two-part read never lose, repeat or
\* reorder a byte, nor does a header that fills the space in front: Buffer
\* implements a queue of bytes that a header shorter than that space breaks.
ImplementsByteQueue == Queue!Spec
=============================================================================
