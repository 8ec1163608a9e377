----------------------------- MODULE HttpProofs -----------------------------
(***************************************************************************)
(* Proofs about Buffer, for any sizes and any bytes: the calls keep the    *)
(* indexes in order, and what is between them changes like a queue.        *)
(*                                                                         *)
(* Proofs about HttpServer, for any routes, sizes, chunks and scripts: when*)
(* the parser hands over each request no sooner than it has arrived, the   *)
(* responses are pumped out whole, one after the other.                    *)
(*                                                                         *)
(* The two components do not meet: no theorem speaks of both.              *)
(***************************************************************************)
EXTENDS HttpServer, Buffer, SequenceTheorems, FiniteSetTheorems, TLAPS

-----------------------------------------------------------------------------
(* Buffer.                                                                 *)

Cell == Byte \cup {Unwritten}

\* A buffer whose indexes are in order and inside the vector, with bytes that
\* were written in between.
Good(b) ==
    /\ b \in [head : Nat, tail : Nat, size : 0..MaxSize, data : [0..(b.size - 1) -> Cell]]
    /\ b.head <= b.tail /\ b.tail <= b.size
    /\ \A i \in b.head..(b.tail - 1) : b.data[i] \in Byte

\* The same of a buffer with a header that was not written where it belongs.
Misheaded(b) ==
    /\ b.head \in Nat /\ b.tail \in Nat /\ b.size \in 0..MaxSize
    /\ b.data \in [0..(b.size - 1) -> Cell]
    /\ 0 < b.head /\ b.head <= b.tail /\ b.tail <= b.size

\* The inductive invariant: all is well, or one of the two calls ended it.
BufferInv ==
    \/ ended = "none" /\ Good(buf)
    \/ ended = "Shrink" /\ Good(buf) /\ buf.head < PrependSize
    \/ ended = "Prepend" /\ Misheaded(buf)

-----------------------------------------------------------------------------
(* The methods keep a buffer good; what they do to its bytes.              *)

\* What a reader of a good buffer finds.
LEMMA ContentOf ==
    ASSUME NEW b, Good(b)
    PROVE  /\ Content(b) \in Seq(Byte)
           /\ Len(Content(b)) = b.tail - b.head
           /\ \A i \in 1..(b.tail - b.head) : Content(b)[i] = b.data[b.head + i - 1]
<1> DEFINE n == b.tail - b.head
<1>1. /\ b.head \in Nat /\ b.tail \in Nat /\ b.size \in Nat
      /\ b.head <= b.tail /\ b.tail <= b.size /\ n \in Nat
      /\ \A i \in b.head..(b.tail - 1) : b.data[i] \in Byte
  BY SizeAssumption DEF Good
<1>2. Content(b) = [i \in 1..n |->
                      IF b.head + i - 1 \in 0..(b.size - 1) THEN b.data[b.head + i - 1]
                      ELSE Unwritten]
  BY DEF Content, ReadableBytes
<1>3. \A i \in 1..n : /\ b.head + i - 1 \in 0..(b.size - 1)
                      /\ b.head + i - 1 \in b.head..(b.tail - 1)
  BY <1>1
<1>4. \A i \in 1..n : Content(b)[i] = b.data[b.head + i - 1] /\ Content(b)[i] \in Byte
  BY <1>1, <1>2, <1>3
<1>5. DOMAIN Content(b) = 1..n /\ Content(b) \in [1..n -> Byte]
  BY <1>2, <1>4
<1> HIDE DEF n
<1>6. Content(b) \in Seq(Byte)
  BY <1>1, <1>5
<1>7. Len(Content(b)) = n
  BY <1>1, <1>5, <1>6, LenProperties
<1> QED
  BY <1>4, <1>6, <1>7 DEF n

\* Buffers that hold the same bytes.
LEMMA SameContent ==
    ASSUME NEW b, Good(b), NEW c, Good(c), c.tail - c.head = b.tail - b.head,
           \A i \in 1..(b.tail - b.head) : c.data[c.head + i - 1] = b.data[b.head + i - 1]
    PROVE  Content(c) = Content(b)
BY ContentOf, SeqEqual

\* resize() to a size that does not cut bytes off.
LEMMA ResizeKeeps ==
    ASSUME NEW b, Good(b), NEW n \in 0..MaxSize, b.tail <= n
    PROVE  /\ Good(Resize(b, n)) /\ Content(Resize(b, n)) = Content(b)
           /\ Resize(b, n).head = b.head /\ Resize(b, n).tail = b.tail
           /\ Resize(b, n).size = n
<1> DEFINE d == [i \in 0..(n - 1) |-> IF i < b.size THEN b.data[i] ELSE Unwritten]
           r == Resize(b, n)
<1>1. /\ b.head \in Nat /\ b.tail \in Nat /\ b.size \in 0..MaxSize
      /\ b.head <= b.tail /\ b.tail <= b.size /\ MaxSize \in Nat
      /\ b.data \in [0..(b.size - 1) -> Cell]
      /\ \A i \in b.head..(b.tail - 1) : b.data[i] \in Byte
  BY SizeAssumption DEF Good
<1>2. \A i \in 0..(n - 1) : d[i] \in Cell /\ (i < b.size => d[i] = b.data[i])
  BY <1>1 DEF Cell
<1>3. d \in [0..(n - 1) -> Cell]
  BY <1>2
<1>4. r = [b EXCEPT !.size = n, !.data = d]
  BY DEF Resize
<1> HIDE DEF d, r
<1>5. r = [head |-> b.head, tail |-> b.tail, size |-> n, data |-> d]
  BY <1>4 DEF Good
<1>6. Good(r)
  <2>1. \A i \in b.head..(b.tail - 1) : i \in 0..(n - 1) /\ i < b.size
    BY <1>1
  <2>2. \A i \in b.head..(b.tail - 1) : d[i] \in Byte
    BY <1>1, <1>2, <2>1
  <2>3. r.head = b.head /\ r.tail = b.tail /\ r.size = n /\ r.data = d
    BY <1>5
  <2>4. r \in [head : Nat, tail : Nat, size : 0..MaxSize, data : [0..(n - 1) -> Cell]]
    BY <1>1, <1>3, <1>5
  <2> QED
    BY <1>1, <2>2, <2>3, <2>4 DEF Good
<1>7. Content(r) = Content(b)
  <2>1. \A i \in 1..(b.tail - b.head) : /\ b.head + i - 1 \in 0..(n - 1)
                                        /\ b.head + i - 1 < b.size
    BY <1>1
  <2>2. \A i \in 1..(b.tail - b.head) : d[b.head + i - 1] = b.data[b.head + i - 1]
    BY <1>2, <2>1
  <2>3. r.head = b.head /\ r.tail = b.tail /\ r.data = d
    BY <1>5
  <2> QED
    BY <1>6, <2>2, <2>3, SameContent
<1> QED
  BY <1>5, <1>6, <1>7 DEF r

\* The fields after std::copy() into the vector.
LEMMA CopyFields ==
    ASSUME NEW b, Good(b), NEW s \in Seq(Byte), NEW at \in Nat
    PROVE  /\ Copy(b, s, at) = [head |-> b.head, tail |-> b.tail, size |-> b.size,
                                data |-> Copy(b, s, at).data]
           /\ Copy(b, s, at).data \in [0..(b.size - 1) -> Cell]
           /\ \A i \in 0..(b.size - 1) :
                  Copy(b, s, at).data[i] = IF i \in at..(at + Len(s) - 1) THEN s[i - at + 1]
                                           ELSE b.data[i]
<1> DEFINE d == [i \in 0..(b.size - 1) |->
                    IF i \in at..(at + Len(s) - 1) THEN s[i - at + 1] ELSE b.data[i]]
<1>1. Len(s) \in Nat /\ \A j \in 1..Len(s) : s[j] \in Byte
  OBVIOUS
<1>2. \A i \in 0..(b.size - 1) : i \in at..(at + Len(s) - 1) => i - at + 1 \in 1..Len(s)
  BY <1>1
<1>3. \A i \in 0..(b.size - 1) : b.data[i] \in Cell
  BY DEF Good
<1>4. \A i \in 0..(b.size - 1) : d[i] \in Cell
  BY <1>1, <1>2, <1>3 DEF Cell
<1>5. d \in [0..(b.size - 1) -> Cell]
  BY <1>4
<1>6. Copy(b, s, at) = [b EXCEPT !.data = d]
  BY DEF Copy
<1>7. \A i \in 0..(b.size - 1) :
         d[i] = IF i \in at..(at + Len(s) - 1) THEN s[i - at + 1] ELSE b.data[i]
  OBVIOUS
<1> HIDE DEF d
<1>8. Copy(b, s, at) = [head |-> b.head, tail |-> b.tail, size |-> b.size, data |-> d]
  BY <1>6 DEF Good
<1>9. Copy(b, s, at).data = d
  BY <1>8
<1> QED
  BY <1>5, <1>7, <1>8, <1>9

\* Bytes written at tail_, with room for them, follow the others.
LEMMA CopyToTailAppends ==
    ASSUME NEW b, Good(b), NEW s \in Seq(Byte), b.tail + Len(s) <= b.size
    PROVE  /\ Good(CopyToTail(b, s)) /\ Content(CopyToTail(b, s)) = Content(b) \o s
           /\ CopyToTail(b, s).head = b.head /\ CopyToTail(b, s).tail = b.tail + Len(s)
           /\ CopyToTail(b, s).size = b.size
<1> DEFINE c == Copy(b, s, b.tail)
           r == CopyToTail(b, s)
           d == c.data
<1>1. /\ b.head \in Nat /\ b.tail \in Nat /\ b.size \in 0..MaxSize
      /\ b.head <= b.tail /\ b.tail <= b.size /\ MaxSize \in Nat /\ Len(s) \in Nat
      /\ \A i \in b.head..(b.tail - 1) : b.data[i] \in Byte
      /\ \A j \in 1..Len(s) : s[j] \in Byte
  BY SizeAssumption DEF Good
<1>2. /\ c = [head |-> b.head, tail |-> b.tail, size |-> b.size, data |-> d]
      /\ d \in [0..(b.size - 1) -> Cell]
      /\ \A i \in 0..(b.size - 1) :
            d[i] = IF i \in b.tail..(b.tail + Len(s) - 1) THEN s[i - b.tail + 1] ELSE b.data[i]
  BY <1>1, CopyFields
<1>3. r = [c EXCEPT !.tail = @ + Len(s)]
  BY DEF CopyToTail
<1> HIDE DEF c, d, r
<1>4. r = [head |-> b.head, tail |-> b.tail + Len(s), size |-> b.size, data |-> d]
  BY <1>2, <1>3
<1>5. r.head = b.head /\ r.tail = b.tail + Len(s) /\ r.size = b.size /\ r.data = d
  BY <1>4
<1>6. /\ \A i \in b.head..(b.tail - 1) : d[i] = b.data[i]
      /\ \A i \in b.tail..(b.tail + Len(s) - 1) : d[i] = s[i - b.tail + 1]
  <2>1. \A i \in b.head..(b.tail - 1) : /\ i \in 0..(b.size - 1)
                                        /\ i \notin b.tail..(b.tail + Len(s) - 1)
    BY <1>1
  <2>2. \A i \in b.tail..(b.tail + Len(s) - 1) : i \in 0..(b.size - 1)
    BY <1>1
  <2> QED
    BY <1>2, <2>1, <2>2
<1>7. Good(r)
  <2>1. \A i \in b.head..(b.tail + Len(s) - 1) : d[i] \in Byte
    <3> SUFFICES ASSUME NEW i \in b.head..(b.tail + Len(s) - 1) PROVE d[i] \in Byte
      OBVIOUS
    <3>1. CASE i < b.tail
      <4>1. i \in b.head..(b.tail - 1)
        BY <1>1, <3>1
      <4> QED
        BY <1>1, <1>6, <4>1
    <3>2. CASE ~(i < b.tail)
      <4>1. i \in b.tail..(b.tail + Len(s) - 1) /\ i - b.tail + 1 \in 1..Len(s)
        BY <1>1, <3>2
      <4> QED
        BY <1>1, <1>6, <4>1
    <3> QED
      BY <3>1, <3>2
  <2>2. r \in [head : Nat, tail : Nat, size : 0..MaxSize, data : [0..(b.size - 1) -> Cell]]
    BY <1>1, <1>2, <1>4
  <2> QED
    BY <1>1, <1>5, <2>1, <2>2 DEF Good
<1>8. Content(r) = Content(b) \o s
  <2> DEFINE n == b.tail - b.head
  <2>1. /\ Content(b) \in Seq(Byte) /\ Len(Content(b)) = n
        /\ \A i \in 1..n : Content(b)[i] = b.data[b.head + i - 1]
    BY ContentOf
  <2>2. /\ Content(r) \in Seq(Byte) /\ Len(Content(r)) = n + Len(s)
        /\ \A i \in 1..(n + Len(s)) : Content(r)[i] = d[b.head + i - 1]
    <3>1. r.tail - r.head = n + Len(s)
      BY <1>1, <1>5
    <3> QED
      BY <1>5, <1>7, <3>1, ContentOf
  <2>3. /\ Content(b) \o s \in Seq(Byte) /\ Len(Content(b) \o s) = n + Len(s)
        /\ \A i \in 1..(n + Len(s)) :
              (Content(b) \o s)[i] = IF i <= n THEN Content(b)[i] ELSE s[i - n]
    BY <2>1, ConcatProperties
  <2>4. ASSUME NEW i \in 1..(n + Len(s)) PROVE Content(r)[i] = (Content(b) \o s)[i]
    <3>1. CASE i <= n
      <4>1. i \in 1..n /\ b.head + i - 1 \in b.head..(b.tail - 1)
        BY <1>1, <3>1
      <4> QED
        BY <1>6, <2>1, <2>2, <2>3, <3>1, <4>1
    <3>2. CASE ~(i <= n)
      <4>1. /\ b.head + i - 1 \in b.tail..(b.tail + Len(s) - 1)
            /\ (b.head + i - 1) - b.tail + 1 = i - n
        BY <1>1, <3>2
      <4> QED
        BY <1>6, <2>2, <2>3, <3>2, <4>1
    <3> QED
      BY <3>1, <3>2
  <2> HIDE DEF n
  <2> QED
    BY <2>2, <2>3, <2>4, SeqEqual
<1> QED
  BY <1>5, <1>7, <1>8 DEF r

\* MoveTo() with its assert.
LEMMA MoveToKeeps ==
    ASSUME NEW b, Good(b), NEW index \in Nat, MoveFits(b, index)
    PROVE  /\ Good(MoveTo(b, index)) /\ Content(MoveTo(b, index)) = Content(b)
           /\ MoveTo(b, index).head = index
           /\ MoveTo(b, index).tail = index + (b.tail - b.head)
           /\ MoveTo(b, index).size = b.size
<1> DEFINE s == Content(b)
           n == b.tail - b.head
           c == Copy(b, s, index)
           r == MoveTo(b, index)
           d == c.data
<1>1. /\ b.head \in Nat /\ b.tail \in Nat /\ b.size \in 0..MaxSize
      /\ b.head <= b.tail /\ b.tail <= b.size /\ MaxSize \in Nat
      /\ n \in Nat /\ index + n <= b.size
  BY SizeAssumption DEF Good, MoveFits, ReadableBytes
<1>2. /\ s \in Seq(Byte) /\ Len(s) = n
      /\ \A i \in 1..n : s[i] = b.data[b.head + i - 1] /\ s[i] \in Byte
  BY ContentOf, ElementOfSeq
<1>3. /\ c = [head |-> b.head, tail |-> b.tail, size |-> b.size, data |-> d]
      /\ d \in [0..(b.size - 1) -> Cell]
      /\ \A i \in 0..(b.size - 1) :
            d[i] = IF i \in index..(index + n - 1) THEN s[i - index + 1] ELSE b.data[i]
  BY <1>2, CopyFields
<1>4. r = [c EXCEPT !.head = index, !.tail = index + n]
  BY DEF MoveTo, ReadableBytes
<1> HIDE DEF s, n, c, d, r
<1>5. r = [head |-> index, tail |-> index + n, size |-> b.size, data |-> d]
  BY <1>3, <1>4
<1>6. r.head = index /\ r.tail = index + n /\ r.size = b.size /\ r.data = d
  BY <1>5
<1>7. \A i \in 1..n : /\ index + i - 1 \in 0..(b.size - 1)
                      /\ index + i - 1 \in index..(index + n - 1)
                      /\ (index + i - 1) - index + 1 = i
  BY <1>1
<1>8. \A i \in 1..n : d[index + i - 1] = s[i]
  BY <1>3, <1>7
<1>9. Good(r)
  <2>1. \A i \in index..(index + n - 1) : d[i] \in Byte
    <3> SUFFICES ASSUME NEW i \in index..(index + n - 1) PROVE d[i] \in Byte
      OBVIOUS
    <3>1. i - index + 1 \in 1..n /\ i = index + (i - index + 1) - 1
      BY <1>1
    <3> QED
      BY <1>2, <1>8, <3>1
  <2>2. r \in [head : Nat, tail : Nat, size : 0..MaxSize, data : [0..(b.size - 1) -> Cell]]
    BY <1>1, <1>3, <1>5
  <2> QED
    BY <1>1, <1>6, <2>1, <2>2 DEF Good
<1>10. Content(r) = Content(b)
  <2>1. r.tail - r.head = n
    BY <1>1, <1>6
  <2>2. \A i \in 1..n : r.data[r.head + i - 1] = b.data[b.head + i - 1]
    BY <1>2, <1>6, <1>8
  <2> QED
    BY <1>9, <2>1, <2>2, SameContent DEF n
<1> QED
  BY <1>6, <1>9, <1>10 DEF r, n

\* EnsureWritableSpace(n) makes room for n bytes behind tail_, by growing or by
\* moving, whose assert holds.
LEMMA EnsureMakesRoom ==
    ASSUME NEW b, Good(b), NEW n \in Nat, NEW cap \in Capacities(b, n)
    PROVE  /\ Good(EnsureWritableSpace(b, n, cap))
           /\ Content(EnsureWritableSpace(b, n, cap)) = Content(b)
           /\ EnsureWritableSpace(b, n, cap).tail + n <= EnsureWritableSpace(b, n, cap).size
           /\ TooSmall(b, n) \/ MoveFits(b, PrependSize)
<1>1. /\ b.head \in Nat /\ b.tail \in Nat /\ b.size \in 0..MaxSize
      /\ b.head <= b.tail /\ b.tail <= b.size /\ MaxSize \in Nat /\ PrependSize \in Nat
  BY SizeAssumption DEF Good
<1>2. CASE TooSmall(b, n)
  <2>1. cap \in 0..MaxSize /\ b.tail + n <= cap
    BY <1>1, <1>2 DEF Capacities, Grown
  <2>2. EnsureWritableSpace(b, n, cap) = Resize(b, cap)
    BY <1>2 DEF EnsureWritableSpace
  <2> QED
    BY <1>1, <1>2, <2>1, <2>2, ResizeKeeps
<1>3. CASE ~TooSmall(b, n)
  <2>1. MoveFits(b, PrependSize) /\ PrependSize + (b.tail - b.head) + n <= b.size
    BY <1>1, <1>3 DEF TooSmall, MoveFits, WriteableBytes, ReadableBytes
  <2>2. EnsureWritableSpace(b, n, cap) = MoveTo(b, PrependSize)
    BY <1>3 DEF EnsureWritableSpace
  <2> QED
    BY <1>1, <2>1, <2>2, MoveToKeeps
<1> QED
  BY <1>2, <1>3

\* Append(): the bytes follow the others.
LEMMA AppendedAppends ==
    ASSUME NEW b, Good(b), NEW s \in Seq(Byte), NEW cap \in Capacities(b, Len(s))
    PROVE  Good(Appended(b, s, cap)) /\ Content(Appended(b, s, cap)) = Content(b) \o s
<1> DEFINE e == EnsureWritableSpace(b, Len(s), cap)
<1>1. Len(s) \in Nat
  OBVIOUS
<1>2. Good(e) /\ Content(e) = Content(b) /\ e.tail + Len(s) <= e.size
  BY <1>1, EnsureMakesRoom
<1>3. Appended(b, s, cap) = CopyToTail(e, s)
  BY DEF Appended
<1> HIDE DEF e
<1> QED
  BY <1>2, <1>3, CopyToTailAppends

\* ReadFd(): what readv() put behind tail_ and what it put in the local array
\* follow each other.
LEMMA ReadIntoAppends ==
    ASSUME NEW b, Good(b), NEW s \in Seq(Byte), NEW cap,
           Len(s) > b.size - b.tail =>
               cap \in Capacities([b EXCEPT !.tail = b.size], Len(s) - (b.size - b.tail))
    PROVE  Good(ReadInto(b, s, cap)) /\ Content(ReadInto(b, s, cap)) = Content(b) \o s
<1> DEFINE room == b.size - b.tail
           s1 == SubSeq(s, 1, room)
           s2 == SubSeq(s, room + 1, Len(s))
           full == CopyToTail(b, s1)
<1>1. /\ b.head \in Nat /\ b.tail \in Nat /\ b.size \in 0..MaxSize
      /\ b.head <= b.tail /\ b.tail <= b.size /\ MaxSize \in Nat
      /\ Len(s) \in Nat /\ room \in Nat
  BY SizeAssumption DEF Good
<1>2. CASE Len(s) <= room
  <2>1. ReadInto(b, s, cap) = CopyToTail(b, s)
    BY <1>2 DEF ReadInto
  <2>2. b.tail + Len(s) <= b.size
    BY <1>1, <1>2
  <2> QED
    BY <2>1, <2>2, CopyToTailAppends
<1>3. CASE ~(Len(s) <= room)
  <2>1. ReadInto(b, s, cap) = Appended(full, s2, cap)
    BY <1>3 DEF ReadInto
  <2>2. \A i \in 1..Len(s) : s[i] \in Byte
    OBVIOUS
  <2>3. s1 \in Seq(Byte) /\ Len(s1) = room
    <3>1. \A i \in 1..room : s[i] \in Byte
      BY <1>1, <1>3, <2>2
    <3>2. /\ s1 \in Seq(Byte)
          /\ Len(s1) = IF 1 <= room THEN room - 1 + 1 ELSE 0
      BY <1>1, <3>1, SubSeqProperties
    <3> QED
      BY <1>1, <3>2
  <2>4. s2 \in Seq(Byte) /\ Len(s2) = Len(s) - room
    <3>1. \A i \in (room + 1)..Len(s) : s[i] \in Byte
      BY <1>1, <1>3, <2>2
    <3>2. /\ s2 \in Seq(Byte)
          /\ Len(s2) = IF room + 1 <= Len(s) THEN Len(s) - (room + 1) + 1 ELSE 0
      BY <1>1, <3>1, SubSeqProperties
    <3> QED
      BY <1>1, <1>3, <3>2
  <2>5. s1 \o s2 = s
    <3>1. /\ 1 \in 1..Len(s)+1 /\ room \in (1 - 1)..Len(s) /\ Len(s) \in room..Len(s)
      BY <1>1, <1>3
    <3>2. s1 \o s2 = SubSeq(s, 1, Len(s))
      BY <3>1, ConcatAdjacentSubSeq
    <3> QED
      BY <3>2, SubSeqFull
  <2>6. /\ Good(full) /\ Content(full) = Content(b) \o s1
        /\ full.head = b.head /\ full.tail = b.size /\ full.size = b.size
    <3>1. b.tail + Len(s1) = b.size /\ b.tail + Len(s1) <= b.size
      BY <1>1, <2>3
    <3> HIDE DEF s1
    <3> QED
      BY <2>3, <3>1, CopyToTailAppends
  <2>7. cap \in Capacities(full, Len(s2))
    <3> DEFINE g == [b EXCEPT !.tail = b.size]
    <3>1. g.head = b.head /\ g.tail = b.size /\ g.size = b.size
      BY DEF Good
    <3>2. cap \in Capacities(g, Len(s) - room)
      BY <1>1, <1>3
    <3> HIDE DEF g
    <3> QED
      BY <2>4, <2>6, <3>1, <3>2
         DEF Capacities, TooSmall, Grown, WriteableBytes, ReadableBytes
  <2> HIDE DEF s1, s2, full
  <2>8. /\ Good(Appended(full, s2, cap))
        /\ Content(Appended(full, s2, cap)) = (Content(b) \o s1) \o s2
    BY <2>4, <2>6, <2>7, AppendedAppends
  <2>9. Content(b) \in Seq(Byte)
    BY ContentOf
  <2>10. (Content(b) \o s1) \o s2 = Content(b) \o (s1 \o s2)
    <3> DEFINE c == Content(b)
    <3>1. c \in Seq(Byte) /\ s1 \in Seq(Byte) /\ s2 \in Seq(Byte)
      BY <2>3, <2>4, <2>9
    <3> HIDE DEF c
    <3>2. \A x, y, z \in Seq(Byte) : (x \o y) \o z = x \o (y \o z)
      BY ConcatAssociative
    <3>3. (c \o s1) \o s2 = c \o (s1 \o s2)
      BY <3>1, <3>2
    <3> QED
      BY <3>3 DEF c
  <2> QED
    BY <2>1, <2>5, <2>8, <2>10
<1> QED
  BY <1>2, <1>3

\* Pop(): the front bytes are gone.
LEMMA PopTakes ==
    ASSUME NEW b, Good(b), NEW n \in Nat, n <= ReadableBytes(b)
    PROVE  /\ Good([b EXCEPT !.head = @ + n])
           /\ Content([b EXCEPT !.head = @ + n])
                  = SubSeq(Content(b), n + 1, Len(Content(b)))
<1> DEFINE r == [b EXCEPT !.head = @ + n]
           m == b.tail - b.head
           q == SubSeq(Content(b), n + 1, Len(Content(b)))
<1>1. /\ b.head \in Nat /\ b.tail \in Nat /\ b.size \in 0..MaxSize
      /\ b.head <= b.tail /\ b.tail <= b.size /\ MaxSize \in Nat
      /\ m \in Nat /\ n <= m /\ b.data \in [0..(b.size - 1) -> Cell]
      /\ \A i \in b.head..(b.tail - 1) : b.data[i] \in Byte
  BY SizeAssumption DEF Good, ReadableBytes
<1>2. r = [head |-> b.head + n, tail |-> b.tail, size |-> b.size, data |-> b.data]
  BY DEF Good
<1> HIDE DEF r
<1>3. r.head = b.head + n /\ r.tail = b.tail /\ r.size = b.size /\ r.data = b.data
  BY <1>2
<1>4. Good(r)
  <2>1. r \in [head : Nat, tail : Nat, size : 0..MaxSize, data : [0..(b.size - 1) -> Cell]]
    BY <1>1, <1>2
  <2>2. \A i \in (b.head + n)..(b.tail - 1) : b.data[i] \in Byte
    <3>1. \A i \in (b.head + n)..(b.tail - 1) : i \in b.head..(b.tail - 1)
      BY <1>1
    <3> QED
      BY <1>1, <3>1
  <2> QED
    BY <1>1, <1>3, <2>1, <2>2 DEF Good
<1>5. /\ Content(b) \in Seq(Byte) /\ Len(Content(b)) = m
      /\ \A i \in 1..m : Content(b)[i] = b.data[b.head + i - 1]
  BY ContentOf
<1>6. /\ Content(r) \in Seq(Byte) /\ Len(Content(r)) = m - n
      /\ \A i \in 1..(m - n) : Content(r)[i] = b.data[b.head + n + i - 1]
  <2>1. r.tail - r.head = m - n
    BY <1>1, <1>3
  <2> QED
    BY <1>3, <1>4, <2>1, ContentOf
<1>7. /\ q \in Seq(Byte) /\ Len(q) = m - n
      /\ \A i \in 1..(m - n) : q[i] = Content(b)[n + i]
  <2>1. \A i \in (n + 1)..m : Content(b)[i] \in Byte
    <3>1. \A i \in (n + 1)..m : i \in 1..m
      BY <1>1
    <3> QED
      BY <1>5, <3>1, ElementOfSeq
  <2> HIDE DEF m
  <2>2. /\ q \in Seq(Byte)
        /\ Len(q) = IF n + 1 <= m THEN m - (n + 1) + 1 ELSE 0
        /\ \A i \in 1..(m - (n + 1) + 1) : q[i] = Content(b)[(n + 1) + i - 1]
    BY <1>1, <1>5, <2>1, SubSeqProperties
  <2>3. m - (n + 1) + 1 = m - n /\ \A i \in Nat : (n + 1) + i - 1 = n + i
    BY <1>1
  <2>4. \A i \in 1..(m - n) : i \in Nat
    BY <1>1
  <2>5. Len(q) = m - n
    BY <1>1, <2>2
  <2> QED
    BY <2>2, <2>3, <2>4, <2>5
<1>8. \A i \in 1..(m - n) : Content(r)[i] = q[i]
  <2>1. \A i \in 1..(m - n) : n + i \in 1..m /\ b.head + (n + i) - 1 = b.head + n + i - 1
    BY <1>1
  <2> QED
    BY <1>5, <1>6, <1>7, <2>1
<1> HIDE DEF m, q
<1>9. Content(r) = q
  BY <1>6, <1>7, <1>8, SeqEqual
<1> QED
  BY <1>4, <1>9 DEF r, q

\* Prepend() of a header that fills the space in front of the bytes.
LEMMA PrependPuts ==
    ASSUME NEW b, Good(b), NEW s \in Seq(Byte), Len(s) = b.head
    PROVE  /\ Good(Copy([b EXCEPT !.head = 0], s, 0))
           /\ Content(Copy([b EXCEPT !.head = 0], s, 0)) = s \o Content(b)
<1> DEFINE g == [b EXCEPT !.head = 0]
           r == Copy(g, s, 0)
           n == b.tail - b.head
           d == [i \in 0..(b.size - 1) |-> IF i \in 0..(0 + Len(s) - 1) THEN s[i - 0 + 1]
                                           ELSE b.data[i]]
<1>1. /\ b.head \in Nat /\ b.tail \in Nat /\ b.size \in 0..MaxSize
      /\ b.head <= b.tail /\ b.tail <= b.size /\ MaxSize \in Nat
      /\ n \in Nat /\ b.data \in [0..(b.size - 1) -> Cell]
      /\ \A i \in b.head..(b.tail - 1) : b.data[i] \in Byte
      /\ \A i \in 1..Len(s) : s[i] \in Byte
  BY SizeAssumption DEF Good
<1>2. g = [head |-> 0, tail |-> b.tail, size |-> b.size, data |-> b.data]
  BY DEF Good
<1>3. r = [head |-> 0, tail |-> b.tail, size |-> b.size, data |-> d]
  <2>1. g.size = b.size /\ g.data = b.data
    BY <1>2
  <2>2. r = [g EXCEPT !.data = d]
    BY <2>1 DEF Copy
  <2> HIDE DEF d, r, g
  <2> QED
    BY <1>2, <2>2
<1> HIDE DEF r, g
<1>4. /\ \A i \in 0..(b.head - 1) : d[i] = s[i + 1] /\ d[i] \in Byte
      /\ \A i \in b.head..(b.tail - 1) : d[i] = b.data[i]
  <2>1. \A i \in 0..(b.head - 1) :
           i \in 0..(b.size - 1) /\ i \in 0..(0 + Len(s) - 1) /\ i - 0 + 1 = i + 1
           /\ i + 1 \in 1..Len(s)
    BY <1>1
  <2>2. \A i \in b.head..(b.tail - 1) : i \in 0..(b.size - 1) /\ i \notin 0..(0 + Len(s) - 1)
    BY <1>1
  <2> QED
    BY <1>1, <2>1, <2>2
<1>5. d \in [0..(b.size - 1) -> Cell]
  <2>1. \A i \in 0..(b.size - 1) : i \in 0..(0 + Len(s) - 1) => i \in 0..(b.head - 1)
    BY <1>1
  <2>2. \A i \in 0..(b.size - 1) : d[i] \in Cell
    BY <1>1, <1>4, <2>1 DEF Cell
  <2> QED
    BY <2>2
<1> HIDE DEF d
<1>6. r.head = 0 /\ r.tail = b.tail /\ r.size = b.size /\ r.data = d
  BY <1>3
<1>7. Good(r)
  <2>1. r \in [head : Nat, tail : Nat, size : 0..MaxSize, data : [0..(b.size - 1) -> Cell]]
    BY <1>1, <1>3, <1>5
  <2>2. \A i \in 0..(b.tail - 1) : i \in 0..(b.head - 1) \/ i \in b.head..(b.tail - 1)
    BY <1>1
  <2>3. \A i \in 0..(b.tail - 1) : d[i] \in Byte
    BY <1>1, <1>4, <2>2
  <2> QED
    BY <1>1, <1>6, <2>1, <2>3 DEF Good
<1>8. /\ Content(b) \in Seq(Byte) /\ Len(Content(b)) = n
      /\ \A i \in 1..n : Content(b)[i] = b.data[b.head + i - 1]
  BY ContentOf
<1>9. /\ Content(r) \in Seq(Byte) /\ Len(Content(r)) = b.tail
      /\ \A i \in 1..b.tail : Content(r)[i] = d[i - 1]
  <2>1. r.tail - r.head = b.tail /\ \A i \in 1..b.tail : r.head + i - 1 = i - 1
    BY <1>1, <1>6
  <2> QED
    BY <1>6, <1>7, <2>1, ContentOf
<1>10. /\ s \o Content(b) \in Seq(Byte) /\ Len(s \o Content(b)) = b.tail
       /\ \A i \in 1..b.tail : (s \o Content(b))[i] =
             IF i <= b.head THEN s[i] ELSE Content(b)[i - b.head]
  <2>1. b.head + n = b.tail
    BY <1>1
  <2>2. /\ s \o Content(b) \in Seq(Byte)
        /\ Len(s \o Content(b)) = Len(s) + Len(Content(b))
        /\ \A i \in 1..(Len(s) + Len(Content(b))) : (s \o Content(b))[i] =
             IF i <= Len(s) THEN s[i] ELSE Content(b)[i - Len(s)]
    BY <1>8, ConcatProperties
  <2> QED
    BY <1>8, <2>1, <2>2
<1>11. ASSUME NEW i \in 1..b.tail PROVE Content(r)[i] = (s \o Content(b))[i]
  <2>1. CASE i <= b.head
    <3>1. i - 1 \in 0..(b.head - 1) /\ (i - 1) + 1 = i
      BY <1>1, <2>1
    <3> QED
      BY <1>4, <1>9, <1>10, <2>1, <3>1
  <2>2. CASE ~(i <= b.head)
    <3>1. i - 1 \in b.head..(b.tail - 1) /\ i - b.head \in 1..n
          /\ b.head + (i - b.head) - 1 = i - 1
      BY <1>1, <2>2
    <3> QED
      BY <1>4, <1>8, <1>9, <1>10, <2>2, <3>1
  <2> QED
    BY <2>1, <2>2
<1>12. Content(r) = s \o Content(b)
  BY <1>9, <1>10, <1>11, SeqEqual
<1> QED
  BY <1>7, <1>12 DEF r, g

\* Prepend() of a header that leaves some of that space.
LEMMA PrependMisses ==
    ASSUME NEW b, Good(b), NEW s \in Seq(Byte), Len(s) < b.head
    PROVE  Misheaded(Copy([b EXCEPT !.head = b.head - Len(s)], s, -(b.head - Len(s))))
<1> DEFINE h == b.head - Len(s)
           g == [b EXCEPT !.head = h]
           r == Copy(g, s, -h)
           d == [i \in 0..(b.size - 1) |-> IF i \in (-h)..(-h + Len(s) - 1) THEN s[i - (-h) + 1]
                                           ELSE b.data[i]]
<1>1. /\ b.head \in Nat /\ b.tail \in Nat /\ b.size \in 0..MaxSize
      /\ b.head <= b.tail /\ b.tail <= b.size /\ MaxSize \in Nat
      /\ h \in Nat /\ 0 < h /\ h <= b.head /\ b.data \in [0..(b.size - 1) -> Cell]
      /\ \A i \in 1..Len(s) : s[i] \in Byte
  BY SizeAssumption DEF Good
<1>2. g = [head |-> h, tail |-> b.tail, size |-> b.size, data |-> b.data]
  BY DEF Good
<1> HIDE DEF h
<1>3. r = [head |-> h, tail |-> b.tail, size |-> b.size, data |-> d]
  <2>1. g.size = b.size /\ g.data = b.data
    BY <1>2
  <2>2. r = [g EXCEPT !.data = d]
    BY <2>1 DEF Copy
  <2> HIDE DEF d, r, g
  <2> QED
    BY <1>2, <2>2
<1>4. \A i \in 0..(b.size - 1) : d[i] \in Cell
  <2>1. \A i \in 0..(b.size - 1) : i \in (-h)..(-h + Len(s) - 1) => i - (-h) + 1 \in 1..Len(s)
    BY <1>1
  <2> QED
    BY <1>1, <2>1 DEF Cell
<1>5. d \in [0..(b.size - 1) -> Cell]
  BY <1>4
<1> HIDE DEF d, r, g
<1>6. Misheaded(r)
  BY <1>1, <1>3, <1>5 DEF Misheaded
<1> QED
  BY <1>6 DEF r, g, h

\* Shrink() when the bytes can be moved behind the space in front.
LEMMA ShrinkKeeps ==
    ASSUME NEW b, Good(b), MoveFits(b, PrependSize)
    PROVE  LET moved == MoveTo(b, PrependSize)
           IN  /\ Good(Resize(moved, moved.tail))
               /\ Content(Resize(moved, moved.tail)) = Content(b)
<1> DEFINE moved == MoveTo(b, PrependSize)
<1>1. /\ b.head \in Nat /\ b.tail \in Nat /\ b.size \in 0..MaxSize /\ MaxSize \in Nat
      /\ b.head <= b.tail /\ b.tail <= b.size /\ PrependSize \in Nat
  BY SizeAssumption DEF Good
<1>3. Good(moved) /\ Content(moved) = Content(b)
  BY <1>1, MoveToKeeps
<1> HIDE DEF moved
<1>4. moved.tail \in 0..MaxSize /\ moved.tail <= moved.tail
  BY <1>1, <1>3 DEF Good
<1>5. /\ Good(Resize(moved, moved.tail))
      /\ Content(Resize(moved, moved.tail)) = Content(moved)
  BY <1>3, <1>4, ResizeKeeps
<1> QED
  BY <1>3, <1>5 DEF moved

-----------------------------------------------------------------------------
(* The calls, and the theorems.                                            *)

\* What a call may do: keep the buffer good and do to the bytes what the queue
\* allows, or be one of the two that end it.
Kept ==
    /\ ended' = "none" /\ Good(buf')
    /\ \/ Content(buf') = Content(buf)
       \/ \E s \in Chunk : \/ Content(buf') = Content(buf) \o s
                           \/ Content(buf') = s \o Content(buf)
       \/ \E n \in 1..Len(Content(buf)) :
              Content(buf') = SubSeq(Content(buf), n + 1, Len(Content(buf)))

Call ==
    \/ Kept
    \/ ended' = "Shrink" /\ buf' = buf /\ buf.head < PrependSize
    \/ ended' = "Prepend" /\ Misheaded(buf') /\ \E s \in Chunk : s # <<>>

\* Every step is such a call, of a buffer that was good.
LEMMA NextCalls ==
    ASSUME BufferInv, BufferNext PROVE ended = "none" /\ Good(buf) /\ Call
<1>1. ended = "none"
  BY DEF BufferNext, AppendBytes, ReadFd, Prepend, Reserve, Pop, Shrink, Asserts
<1>0. Good(buf)
  BY <1>1 DEF BufferInv
<1>2. ASSUME NEW s \in Chunk, AppendBytes(s) PROVE Call
  <2>1. s \in Seq(Byte) /\ Len(s) \in Nat
    BY ChunkAssumption
  <2>2. PICK cap \in Capacities(buf, Len(s)) :
          Asserts(Ensures(buf, Len(s)), "Append", Appended(buf, s, cap))
    BY <1>2 DEF AppendBytes
  <2>3. Ensures(buf, Len(s))
    BY <1>0, <2>1, <2>2, EnsureMakesRoom DEF Ensures
  <2>4. buf' = Appended(buf, s, cap) /\ ended' = "none"
    BY <2>2, <2>3 DEF Asserts
  <2>5. Good(buf') /\ Content(buf') = Content(buf) \o s
    BY <1>0, <2>1, <2>2, <2>4, AppendedAppends
  <2> QED
    BY <2>4, <2>5 DEF Call, Kept
<1>3. ASSUME NEW s \in Chunk, ReadFd(s) PROVE Call
  <2> DEFINE spill == Len(s) - (buf.size - buf.tail)
             full == [buf EXCEPT !.tail = buf.size]
  <2>1. s \in Seq(Byte) /\ Len(s) \in Nat
    BY ChunkAssumption
  <2>2. /\ buf.head \in Nat /\ buf.tail \in Nat /\ buf.size \in 0..MaxSize
        /\ buf.head <= buf.tail /\ buf.tail <= buf.size
        /\ MaxSize \in Nat /\ PrependSize \in Nat
    BY <1>0, SizeAssumption DEF Good
  <2>3. CASE spill <= 0
    <3>1. buf' = ReadInto(buf, s, buf.size) /\ ended' = "none"
      BY <1>3, <2>3 DEF ReadFd
    <3>2. ~(Len(s) > buf.size - buf.tail)
      BY <2>1, <2>2, <2>3
    <3>3. Good(buf') /\ Content(buf') = Content(buf) \o s
      BY <1>0, <2>1, <3>1, <3>2, ReadIntoAppends
    <3> QED
      BY <3>1, <3>3 DEF Call, Kept
  <2>4. CASE ~(spill <= 0)
    <3>1. PICK cap \in Capacities(full, spill) :
            Asserts(Ensures(full, spill), "ReadFd", ReadInto(buf, s, cap))
      BY <1>3, <2>4 DEF ReadFd
    <3>2. Ensures(full, spill)
      <4>1. /\ full.head = buf.head /\ full.tail = buf.size /\ full.size = buf.size
        BY <1>0 DEF Good
      <4>2. spill \in Nat
        BY <2>1, <2>2, <2>4
      <4> HIDE DEF full, spill
      <4> QED
        BY <2>2, <4>1, <4>2 DEF Ensures, TooSmall, MoveFits, WriteableBytes, ReadableBytes
    <3>3. buf' = ReadInto(buf, s, cap) /\ ended' = "none"
      BY <3>1, <3>2 DEF Asserts
    <3>4. Good(buf') /\ Content(buf') = Content(buf) \o s
      BY <1>0, <2>1, <3>1, <3>3, ReadIntoAppends
    <3> QED
      BY <3>3, <3>4 DEF Call, Kept
  <2> QED
    BY <2>3, <2>4
<1>4. ASSUME NEW s \in Chunk, Prepend(s) PROVE Call
  <2>1. s \in Seq(Byte) /\ Len(s) \in Nat /\ buf.head \in Nat
    BY <1>0, ChunkAssumption DEF Good
  <2>2. /\ buf.head - Len(s) >= 0
        /\ buf' = Copy([buf EXCEPT !.head = buf.head - Len(s)], s, -(buf.head - Len(s)))
        /\ ended' = IF buf.head - Len(s) > 0 /\ s # <<>> THEN "Prepend" ELSE "none"
    BY <1>1, <1>4 DEF Prepend
  <2>3. CASE Len(s) = buf.head
    <3>1. buf.head - Len(s) = 0 /\ -(buf.head - Len(s)) = 0
      BY <2>1, <2>3
    <3>2. buf' = Copy([buf EXCEPT !.head = 0], s, 0) /\ ended' = "none"
      BY <2>2, <3>1
    <3>3. Good(buf') /\ Content(buf') = s \o Content(buf)
      BY <1>0, <2>1, <2>3, <3>2, PrependPuts
    <3> QED
      BY <3>2, <3>3 DEF Call, Kept
  <2>4. CASE Len(s) # buf.head /\ s # <<>>
    <3>1. Len(s) < buf.head /\ buf.head - Len(s) > 0
      BY <2>1, <2>2, <2>4
    <3>2. Misheaded(buf')
      BY <1>0, <2>1, <2>2, <3>1, PrependMisses
    <3> QED
      BY <2>2, <2>4, <3>1, <3>2 DEF Call
  <2>5. CASE s = <<>>
    <3>1. Len(s) = 0 /\ buf.head - Len(s) = buf.head
      BY <2>1, <2>5
    <3>2. buf' = Copy([buf EXCEPT !.head = buf.head], s, -buf.head) /\ ended' = "none"
      BY <2>2, <2>5, <3>1
    <3>3. [buf EXCEPT !.head = buf.head] = buf
      BY <1>0 DEF Good
    <3>4. [i \in 0..(buf.size - 1) |-> IF i \in (-buf.head)..(-buf.head + Len(s) - 1)
                                       THEN s[i - (-buf.head) + 1] ELSE buf.data[i]] = buf.data
      <4>1. \A i : i \notin (-buf.head)..(-buf.head + Len(s) - 1)
        BY <2>1, <3>1
      <4>2. buf.data \in [0..(buf.size - 1) -> Cell]
        BY <1>0 DEF Good
      <4> QED
        BY <4>1, <4>2
    <3>5. buf' = [buf EXCEPT !.data = buf.data]
      BY <3>2, <3>3, <3>4 DEF Copy
    <3>6. buf' = buf
      BY <1>0, <3>5 DEF Good
    <3> QED
      BY <1>0, <3>2, <3>6 DEF Call, Kept
  <2> QED
    BY <2>3, <2>4, <2>5
<1>5. ASSUME NEW s \in Chunk, Reserve(Len(s)) PROVE Call
  <2>1. Len(s) \in Nat
    BY ChunkAssumption
  <2>2. PICK cap \in Capacities(buf, Len(s)) :
          Asserts(Ensures(buf, Len(s)), "Reserve", EnsureWritableSpace(buf, Len(s), cap))
    BY <1>5 DEF Reserve
  <2>3. Ensures(buf, Len(s))
    BY <1>0, <2>1, <2>2, EnsureMakesRoom DEF Ensures
  <2>4. buf' = EnsureWritableSpace(buf, Len(s), cap) /\ ended' = "none"
    BY <2>2, <2>3 DEF Asserts
  <2>5. Good(buf') /\ Content(buf') = Content(buf)
    BY <1>0, <2>1, <2>2, <2>4, EnsureMakesRoom
  <2> QED
    BY <2>4, <2>5 DEF Call, Kept
<1>6. ASSUME NEW n \in 1..ReadableBytes(buf), Pop(n) PROVE Call
  <2>1. /\ n \in Nat /\ n <= ReadableBytes(buf) /\ ended' = "none"
        /\ buf' = [buf EXCEPT !.head = @ + n]
    BY <1>6 DEF Pop
  <2>2. n \in 1..Len(Content(buf))
    BY <1>0, <1>6, ContentOf DEF ReadableBytes
  <2>3. Good(buf') /\ Content(buf') = SubSeq(Content(buf), n + 1, Len(Content(buf)))
    BY <1>0, <2>1, PopTakes
  <2> QED
    BY <2>1, <2>2, <2>3 DEF Call, Kept
<1>7. ASSUME Shrink PROVE Call
  <2> DEFINE moved == MoveTo(buf, PrependSize)
  <2>1. Asserts(MoveFits(buf, PrependSize), "Shrink", Resize(moved, moved.tail))
    BY <1>7 DEF Shrink
  <2>2. CASE MoveFits(buf, PrependSize)
    <3>1. buf' = Resize(moved, moved.tail) /\ ended' = "none"
      BY <2>1, <2>2 DEF Asserts
    <3>2. Good(buf') /\ Content(buf') = Content(buf)
      BY <1>0, <2>2, <3>1, ShrinkKeeps
    <3> QED
      BY <3>1, <3>2 DEF Call, Kept
  <2>3. CASE ~MoveFits(buf, PrependSize)
    <3>1. buf' = buf /\ ended' = "Shrink"
      BY <2>1, <2>3 DEF Asserts
    <3>2. buf.head < PrependSize
      BY <1>0, <2>3, SizeAssumption DEF Good, MoveFits, ReadableBytes
    <3> QED
      BY <3>1, <3>2 DEF Call
  <2> QED
    BY <2>2, <2>3
<1> QED
  BY <1>0, <1>1, <1>2, <1>3, <1>4, <1>5, <1>6, <1>7 DEF BufferNext

\* Every call keeps the invariant.
LEMMA BufferInvariance == BufferSpec => []BufferInv
<1>1. BufferInit => BufferInv
  <2> SUFFICES ASSUME BufferInit PROVE BufferInv
    OBVIOUS
  <2> DEFINE d == [i \in 0..(InitialSize - 1) |-> Unwritten]
  <2>2. d \in [0..(InitialSize - 1) -> Cell]
    BY DEF Cell
  <2> HIDE DEF d
  <2>3. buf = [head |-> PrependSize, tail |-> PrependSize, size |-> InitialSize, data |-> d]
    BY DEF BufferInit, d
  <2>4. Good(buf)
    BY <2>2, <2>3, SizeAssumption DEF Good
  <2> QED
    BY <2>4 DEF BufferInv, BufferInit
<1>2. BufferInv /\ [BufferNext]_bufferVars => BufferInv'
  <2> SUFFICES ASSUME BufferInv, [BufferNext]_bufferVars PROVE BufferInv'
    OBVIOUS
  <2>1. CASE BufferNext
    BY <2>1, NextCalls DEF Call, Kept, BufferInv
  <2>2. CASE UNCHANGED bufferVars
    <3>1. buf' = buf /\ ended' = ended
      BY <2>2 DEF bufferVars
    <3> QED
      BY <3>1 DEF BufferInv
  <2> QED
    BY <2>1, <2>2
<1> QED
  BY <1>1, <1>2, PTL DEF BufferSpec

\* For any initial size, any space in front and any bytes, the calls keep the
\* indexes in the vector and fail no assert of buffer.cc, but for Shrink() with
\* a header in that space and Prepend() of one that does not fill it.
THEOREM StaysWellFormed == BufferSpec => []WellFormed
<1>1. BufferInv => WellFormed
  BY DEF BufferInv, Good, Misheaded, WellFormed, BufferTypeOK, Cell
<1> QED
  BY BufferInvariance, <1>1, PTL

\* Buffer implements a queue of bytes, which only a header that does not fill
\* the space in front breaks: growing, moving, shrinking and the two parts of a
\* read are invisible or append.
THEOREM ActsAsQueue == BufferSpec => ImplementsByteQueue
<1>1. BufferInit => Queue!Init
  <2> SUFFICES ASSUME BufferInit PROVE Content(buf) = <<>> /\ (ended = "Prepend") = FALSE
    BY DEF Queue!Init
  <2>1. ReadableBytes(buf) = 0
    BY SizeAssumption DEF BufferInit, ReadableBytes
  <2>2. ended = "none"
    BY DEF BufferInit
  <2> QED
    BY <2>1, <2>2 DEF Content
<1>2. BufferInv /\ [BufferNext]_bufferVars => [Queue!Next]_(Queue!vars)
  <2> SUFFICES ASSUME BufferInv, [BufferNext]_bufferVars PROVE [Queue!Next]_(Queue!vars)
    OBVIOUS
  <2>1. CASE BufferNext
    <3>1. ended = "none" /\ Good(buf) /\ Call
      BY <2>1, NextCalls
    <3>2. ~(ended = "Prepend")
      BY <3>1
    <3>3. CASE Kept
      <4>1. ASSUME NEW n \in 1..Len(Content(buf)) PROVE n <= Len(Content(buf))
        BY <3>1, ContentOf DEF Good
      <4>2. (ended = "Prepend")' = (ended = "Prepend")
        BY <3>1, <3>3 DEF Kept
      <4> QED
        BY <3>2, <3>3, <4>1, <4>2
           DEF Kept, Queue!Next, Queue!Put, Queue!PutFront, Queue!Take, Queue!vars
    <3>4. CASE ended' = "Shrink" /\ buf' = buf
      <4>1. Content(buf)' = Content(buf)
        BY <3>4
      <4>2. (ended = "Prepend")' = (ended = "Prepend")
        BY <3>1, <3>4
      <4> QED
        BY <4>1, <4>2 DEF Queue!vars
    <3>5. CASE ended' = "Prepend" /\ \E s \in Chunk : s # <<>>
      BY <3>2, <3>5 DEF Queue!Next, Queue!Break
    <3> QED
      BY <3>1, <3>3, <3>4, <3>5 DEF Call
  <2>2. CASE UNCHANGED bufferVars
    <3>1. buf' = buf /\ ended' = ended
      BY <2>2 DEF bufferVars
    <3>2. Content(buf)' = Content(buf) /\ (ended = "Prepend")' = (ended = "Prepend")
      BY <3>1
    <3> QED
      BY <3>2 DEF Queue!vars
  <2> QED
    BY <2>1, <2>2
<1> QED
  BY BufferInvariance, <1>1, <1>2, PTL DEF BufferSpec, ImplementsByteQueue, Queue!Spec

-----------------------------------------------------------------------------
(* HttpServer.                                                             *)

Record == [length : Nat, sent : Nat]
AnyResponse == [length : Nat, buf : Nat, file : BOOLEAN, left : Nat, eof : BOOLEAN]

\* Responses, and histories, are what they are meant to be.
Types ==
    /\ script \in Scripts
    /\ out \in Seq(Record)
    /\ response \in AnyResponse

\* What the last response still lacks is what is left in its file, and nothing
\* of it stays behind in buf_; a file at its end has nothing left.
Pumping ==
    /\ Len(handled) = Len(out)
    /\ response.left > 0 => response.file /\ ~response.eof
    /\ Len(out) = 0 => response.left = 0 /\ ~response.file
    /\ Len(out) > 0 => out[Len(out)].sent + response.left = out[Len(out)].length

\* handled is a sequence.
Listed == \E S : handled \in Seq(S)

\* The inductive invariant.
IInv ==
    /\ Types /\ Listed /\ response.buf = 0 /\ ResponsesAreWhole
    /\ conn = "kEstablished" => Pumping

-----------------------------------------------------------------------------
(* Helpers.                                                                *)

\* The smaller of two numbers.
LEMMA MinOfTwo ==
    ASSUME NEW a \in Nat, NEW b \in Nat
    PROVE  Min({a, b}) = IF a <= b THEN a ELSE b
<1>1. PICK m \in {a, b} : \A y \in {a, b} : m <= y
  <2>1. CASE a <= b
    BY <2>1
  <2>2. CASE ~(a <= b)
    BY <2>2
  <2> QED
    BY <2>1, <2>2
<1>2. /\ Min({a, b}) \in {a, b}
      /\ \A y \in {a, b} : Min({a, b}) <= y
  BY <1>1 DEF Min
<1> QED
  BY <1>2

\* A history of outcomes grows by one.
LEMMA Grows ==
    ASSUME Listed, NEW x, handled' = Append(handled, x)
    PROVE  /\ Listed' /\ Len(handled) \in Nat /\ Len(handled') = Len(handled) + 1
           /\ handled'[Len(handled) + 1] = x
           /\ Len(handled) + 1 \in DOMAIN handled'
<1>1. PICK S : handled \in Seq(S)
  BY DEF Listed
<1>2. handled \in Seq(S \cup {x})
  BY <1>1
<1>3. /\ handled' \in Seq(S \cup {x}) /\ Len(handled') = Len(handled) + 1
      /\ handled'[Len(handled) + 1] = x
  BY <1>2, AppendProperties
<1> QED
  BY <1>2, <1>3 DEF Listed

\* The kinds of answers: nothing waits in buf_ after the Pop, and what was sent
\* at once with what is left in the file makes the length of the header.
LEMMA Answers ==
    ASSUME NEW req, req.router \in DOMAIN Routes,
           \A r \in DOMAIN Routes : Routes[r].kind # "unreadable"
    PROVE  LET a == Answer(req)
           IN  /\ a \in AnyResponse
               /\ a.buf + a.left = a.length
               /\ a.left > 0 => a.file /\ ~a.eof
<1>1. /\ Routes[req.router].size \in Nat
      /\ Routes[req.router].kind \in {"page", "file", "missing"}
  BY RoutesAssumption
<1>2. \/ Answer(req) = Response(Routes[req.router].size, Routes[req.router].size, FALSE, 0)
      \/ Answer(req) = Response(Routes[req.router].size, 0, TRUE, Routes[req.router].size)
      \/ Answer(req) = Response(0, 0, FALSE, 0)
  BY <1>1 DEF Answer, FileResponse
<1>3. ASSUME NEW a, NEW n \in Nat,
             \/ a = Response(n, n, FALSE, 0) \/ a = Response(n, 0, TRUE, n)
             \/ a = Response(0, 0, FALSE, 0)
      PROVE  /\ a \in AnyResponse /\ a.buf + a.left = a.length
             /\ a.left > 0 => a.file /\ ~a.eof
  <2>1. CASE a = Response(n, n, FALSE, 0)
    BY <2>1 DEF Response, AnyResponse
  <2>2. CASE a = Response(n, 0, TRUE, n)
    BY <2>2 DEF Response, AnyResponse
  <2>3. CASE a = Response(0, 0, FALSE, 0)
    BY <2>3 DEF Response, AnyResponse
  <2> QED
    BY <1>3, <2>1, <2>2, <2>3
<1> QED
  BY <1>1, <1>2, <1>3

\* A chunk that is loaded and sent: a file that is not at its end yet has
\* something left only as long as a whole chunk could be read.
LEMMA Loads ==
    ASSUME NEW r \in AnyResponse, r.buf = 0
    PROVE  LET l == LoadData(r)
           IN  /\ l.buf \in Nat /\ l.buf <= r.left
               /\ Popped(l) \in AnyResponse /\ Popped(l).buf = 0
               /\ l.buf + Popped(l).left = r.left
               /\ Popped(l).file = r.file
               /\ Popped(l).left > 0 => ~Popped(l).eof
<1> DEFINE n == IF r.left <= ChunkSize THEN r.left ELSE ChunkSize
           e == r.left < ChunkSize
           l == [length |-> r.length, buf |-> n, file |-> r.file, left |-> r.left - n,
                 eof |-> e]
<1>1. /\ r = [length |-> r.length, buf |-> r.buf, file |-> r.file, left |-> r.left,
              eof |-> r.eof]
      /\ r.length \in Nat /\ r.file \in BOOLEAN /\ r.left \in Nat /\ ChunkSize \in Nat
  BY HttpAssumption DEF AnyResponse
<1>2. /\ n \in Nat /\ n <= r.left /\ r.left - n \in Nat /\ e \in BOOLEAN
      /\ r.left - n > 0 => ~e
      /\ n + (r.left - n) = r.left
  BY <1>1
<1>3. Min({r.left, ChunkSize}) = n
  BY <1>1, MinOfTwo
<1> HIDE DEF n, e
<1>4. LoadData(r) = [r EXCEPT !.buf = r.buf + n, !.left = r.left - n, !.eof = e]
  BY <1>3 DEF LoadData, e
<1>5. r.buf + n = n
  BY <1>2
<1>6. LoadData(r) = l
  BY <1>1, <1>4, <1>5
<1>7. l \in AnyResponse /\ l.buf = n /\ l.left = r.left - n /\ l.file = r.file /\ l.eof = e
  BY <1>1, <1>2 DEF AnyResponse
<1> HIDE DEF l
<1>8. /\ Popped(l) \in AnyResponse /\ Popped(l).buf = 0 /\ Popped(l).left = r.left - n
      /\ Popped(l).file = r.file /\ Popped(l).eof = e
  BY <1>7 DEF AnyResponse, Popped
<1> QED
  BY <1>2, <1>6, <1>7, <1>8

\* The record of the last response is brought up to date.
LEMMA LastSent ==
    ASSUME NEW s \in Seq(Record), Len(s) # 0, NEW n \in Nat, conn = "kEstablished"
    PROVE  LET t == Sent(s, n)
           IN  /\ t \in Seq(Record) /\ Len(t) = Len(s) /\ DOMAIN t = DOMAIN s
               /\ t[Len(s)].sent = s[Len(s)].sent + n
               /\ t[Len(s)].length = s[Len(s)].length
               /\ \A i \in DOMAIN s : i # Len(s) => t[i] = s[i]
<1> DEFINE last == s[Len(s)]
           rec == [length |-> last.length, sent |-> last.sent + n]
<1>1. Len(s) \in 1..Len(s) /\ DOMAIN s = 1..Len(s)
  OBVIOUS
<1>2. last \in Record /\ last = [length |-> last.length, sent |-> last.sent]
      /\ last.sent \in Nat
  <2>1. last \in Record
    BY <1>1, ElementOfSeq
  <2> QED
    BY <2>1 DEF Record
<1>3. rec \in Record
  BY <1>2 DEF Record
<1>4. Sent(s, n) = [s EXCEPT ![Len(s)] = rec]
  <2>1. CASE n > 0
    <3>1. Sent(s, n) = [s EXCEPT ![Len(s)].sent = @ + n]
      BY <2>1 DEF Sent
    <3>2. [last EXCEPT !.sent = @ + n] = rec
      BY <1>2 DEF Record
    <3> QED
      BY <3>1, <3>2, Zenon
  <2>2. CASE ~(n > 0)
    <3>1. n = 0 /\ rec = last
      BY <1>2, <2>2
    <3>2. [s EXCEPT ![Len(s)] = last] = s
      BY <1>1
    <3> QED
      BY <2>2, <3>1, <3>2 DEF Sent
  <2> QED
    BY <2>1, <2>2
<1> HIDE DEF rec
<1>5. /\ Sent(s, n) \in Seq(Record) /\ Len(Sent(s, n)) = Len(s)
      /\ \A j \in 1..Len(s) : Sent(s, n)[j] = IF j = Len(s) THEN rec ELSE s[j]
  BY <1>1, <1>3, <1>4, ExceptSeq
<1>6. DOMAIN Sent(s, n) = DOMAIN s
  BY <1>1, <1>5, LenProperties
<1>7. Sent(s, n)[Len(s)] = rec /\ rec.sent = last.sent + n /\ rec.length = last.length
  BY <1>1, <1>5 DEF rec
<1> QED
  BY <1>1, <1>5, <1>6, <1>7

-----------------------------------------------------------------------------
(* The steps.                                                              *)

\* A new connection.
LEMMA InitIInv == Init => IInv
<1> SUFFICES ASSUME Init PROVE IInv
  OBVIOUS
<1>1. out = <<>> /\ out \in Seq(Record) /\ Len(out) = 0 /\ DOMAIN out = {}
      /\ handled \in Seq({}) /\ Len(handled) = 0
  BY DEF Init
<1>2. Types /\ response.buf = 0 /\ Pumping
  BY <1>1 DEF Init, Types, AnyResponse, Pumping, DefaultResponse, Response
<1> QED
  BY <1>1, <1>2 DEF IInv, Listed, ResponsesAreWhole

\* A step that leaves the responses alone; the connection may close.
Quiet ==
    /\ script' = script /\ out' = out /\ response' = response
    /\ conn' = "kEstablished" => conn = "kEstablished" /\ handled' = handled

\* It keeps the inductive invariant.
LEMMA QuietStep ==
    ASSUME IInv, Quiet, Listed' PROVE IInv'
<1>1. Types' /\ response'.buf = 0 /\ ResponsesAreWhole'
  BY DEF IInv, Types, ResponsesAreWhole, Quiet
<1>2. conn' = "kEstablished" => Pumping'
  BY DEF IInv, Pumping, Quiet
<1> QED
  BY <1>1, <1>2 DEF IInv

\* The pump: a chunk moves from the file into the response.
LEMMA WriteCbStep == ASSUME IInv, WriteCb PROVE IInv'
<1> DEFINE loaded == LoadData(response)
<1>1. script' = script /\ handled' = handled /\ conn' = conn
  BY DEF WriteCb, parserVars
<1>2. Listed'
  BY <1>1 DEF IInv, Listed
<1>3. CASE ~HasMoreDataToLoad(response)
  <2>1. out' = out /\ response' = response
    BY <1>3 DEF WriteCb
  <2> QED
    BY <1>1, <1>2, <2>1, QuietStep DEF Quiet
<1>4. CASE HasMoreDataToLoad(response)
  <2>1. out' = Sent(out, loaded.buf) /\ response' = Popped(loaded)
    BY <1>4 DEF WriteCb
  <2>2. out \in Seq(Record) /\ response \in AnyResponse
    BY DEF IInv, Types
  <2>3. response.buf = 0
    BY DEF IInv
  <2>4. /\ loaded.buf \in Nat /\ loaded.buf <= response.left
        /\ response' \in AnyResponse /\ response'.buf = 0
        /\ loaded.buf + response'.left = response.left
        /\ response'.file = response.file
        /\ response'.left > 0 => ~response'.eof
    BY <2>1, <2>2, <2>3, Loads, Zenon
  <2> HIDE DEF loaded
  <2>5. CASE conn # "kEstablished"
    <3>1. out' = out
      BY <2>1, <2>5 DEF Sent
    <3> QED
      BY <1>1, <1>2, <2>2, <2>4, <2>5, <3>1 DEF IInv, Types, ResponsesAreWhole
  <2>6. CASE conn = "kEstablished"
    <3>1. Pumping /\ response.file /\ Len(out) \in Nat /\ Len(out) # 0
      BY <1>4, <2>2, <2>6 DEF IInv, Pumping, HasMoreDataToLoad
    <3>2. /\ out[Len(out)].sent \in Nat /\ out[Len(out)].length \in Nat
          /\ response.left \in Nat /\ response'.left \in Nat
      <4>1. out[Len(out)] \in Record
        BY <2>2, <3>1, ElementOfSeq
      <4> QED
        BY <2>2, <2>4, <4>1 DEF Record, AnyResponse
    <3>4. /\ out' \in Seq(Record) /\ Len(out') = Len(out) /\ DOMAIN out' = DOMAIN out
          /\ out'[Len(out)].sent = out[Len(out)].sent + loaded.buf
          /\ out'[Len(out)].length = out[Len(out)].length
          /\ \A i \in DOMAIN out : i # Len(out) => out'[i] = out[i]
      BY <2>1, <2>2, <2>4, <2>6, <3>1, LastSent, Zenon
    <3>5. out'[Len(out)].sent + response'.left = out'[Len(out)].length
      BY <2>4, <3>1, <3>2, <3>4 DEF Pumping
    <3>6. ResponsesAreWhole'
      <4>1. ResponsesAreWhole
        BY DEF IInv
      <4>2. out'[Len(out)].sent <= out'[Len(out)].length
        BY <2>4, <3>2, <3>4, <3>5
      <4>3. ASSUME NEW i \in DOMAIN out
            PROVE  /\ out'[i].sent <= out'[i].length
                   /\ i < Len(out) => out'[i].sent = out'[i].length
        <5>1. CASE i = Len(out)
          BY <3>1, <4>2, <5>1
        <5>2. CASE i # Len(out)
          BY <3>4, <4>1, <4>3, <5>2 DEF ResponsesAreWhole
        <5> QED
          BY <5>1, <5>2
      <4> QED
        BY <3>4, <4>3 DEF ResponsesAreWhole
    <3>7. response'.left > 0 => response'.file /\ ~response'.eof
      BY <2>4, <3>1
    <3>8. Pumping'
      BY <1>1, <2>4, <3>1, <3>4, <3>5, <3>7 DEF Pumping
    <3> QED
      BY <1>1, <1>2, <2>2, <2>4, <3>4, <3>6, <3>8 DEF IInv, Types
  <2> QED
    BY <2>5, <2>6
<1> QED
  BY <1>3, <1>4

\* When a request is handled on an open connection every response before it is
\* complete: the client had not sent the end of the request before that.
LEMMA AllAnswered ==
    ASSUME Types, Listed, Pumping, ~Pipelining, HandledAsSent, HandledAsSent',
           NEW n \in 1..(Sendable - got), got' = got + n, script' = script,
           NEW x, x # Refused, handled' = Append(handled, x)
    PROVE  \A i \in DOMAIN out : out[i].sent = out[i].length
<1> DEFINE A == {i \in DOMAIN out : /\ out[i].sent = out[i].length
                                    /\ i = Len(out) => ~waiting}
<1>1. /\ script.ends \in Seq(Nat) /\ Requests \in Nat /\ Requests >= 1
      /\ \A k \in 1..Requests : EndOf(k) \in Nat
      /\ \A j, k \in 1..Requests : j < k => EndOf(j) < EndOf(k)
  <2>1. /\ script.ends \in Seq(Nat) /\ Len(script.ends) \in 1..MaxScript
        /\ \A j, k \in DOMAIN script.ends : j < k => script.ends[j] < script.ends[k]
    BY ScriptsAssumption DEF Types
  <2>2. MaxScript \in Nat /\ DOMAIN script.ends = 1..Len(script.ends)
    BY <2>1, HttpAssumption
  <2>3. /\ Len(script.ends) \in Nat /\ Len(script.ends) >= 1
        /\ \A k \in 1..Len(script.ends) : script.ends[k] \in Nat
    BY <2>1, <2>2
  <2>4. Requests = Len(script.ends) /\ \A k \in 1..Requests : EndOf(k) = script.ends[k]
    BY DEF Requests, EndOf
  <2> HIDE DEF Requests, EndOf
  <2>5. \A k \in 1..Requests : EndOf(k) \in Nat
    BY <2>3, <2>4
  <2>6. ASSUME NEW j \in 1..Requests, NEW k \in 1..Requests, j < k
        PROVE  EndOf(j) < EndOf(k)
    <3>1. j \in DOMAIN script.ends /\ k \in DOMAIN script.ends
      BY <2>2, <2>4
    <3>2. script.ends[j] < script.ends[k]
      BY <2>1, <2>6, <3>1
    <3> QED
      BY <2>4, <3>2
  <2> QED
    BY <2>1, <2>3, <2>4, <2>5, <2>6
<1>2. /\ Len(out) \in Nat /\ DOMAIN out = 1..Len(out) /\ Len(handled) = Len(out)
      /\ Len(handled') = Len(out) + 1 /\ handled'[Len(out) + 1] = x
      /\ Len(out) + 1 \in DOMAIN handled'
  BY Grows, LenProperties DEF Types, Pumping
<1>3. /\ Len(out) + 1 <= Requests
      /\ got' >= EndOf(Len(out) + 1)
  <2>1. Requests' = Requests /\ EndOf(Len(out) + 1)' = script.ends[Len(out') + 1]
    BY DEF Requests, EndOf
  <2>2. /\ Len(handled') <= Requests'
        /\ \A k \in DOMAIN handled' : handled'[k] # Refused => got' >= script'.ends[k]
    BY DEF HandledAsSent, EndOf, Refused
  <2> QED
    BY <1>2, <2>1, <2>2 DEF EndOf
<1>4. got \in Nat
  BY DEF HandledAsSent, TypeOK
<1>5. /\ IsFiniteSet(1..Len(out)) /\ Cardinality(1..Len(out)) = Len(out)
      /\ A \subseteq 1..Len(out)
  <2>1. A \subseteq 1..Len(out)
    BY <1>2
  <2> HIDE DEF A
  <2>2. 1 \in Int /\ Len(out) \in Int
    BY <1>2
  <2>3. /\ IsFiniteSet(1..Len(out))
        /\ Cardinality(1..Len(out)) = IF 1 > Len(out) THEN 0 ELSE Len(out) - 1 + 1
    BY ONLY <2>2, FS_Interval
  <2> QED
    BY <1>2, <2>1, <2>3
<1>6. /\ IsFiniteSet(A) /\ Cardinality(A) \in Nat /\ Cardinality(A) <= Len(out)
      /\ Cardinality(A) = Len(out) => A = 1..Len(out)
  BY <1>5, FS_Subset, FS_CardinalityType
<1>7. Answered = Cardinality(A)
  BY DEF Answered
<1> HIDE DEF A
<1>8. Sendable = EndOf(Answered + 1)
  BY <1>1, <1>2, <1>3, <1>6, <1>7 DEF Sendable
<1>9. EndOf(Answered + 1) \in Nat /\ EndOf(Len(out) + 1) \in Nat
  BY <1>1, <1>2, <1>3, <1>6, <1>7
<1>10. EndOf(Len(out) + 1) <= EndOf(Answered + 1)
  <2>1. n <= Sendable - got /\ n \in Int
    BY <1>4, <1>8, <1>9
  <2>2. got + n <= Sendable
    BY <1>4, <1>8, <1>9, <2>1
  <2> QED
    BY <1>3, <1>4, <1>8, <1>9, <2>1, <2>2
<1>11. ~(Answered < Len(out))
  <2> SUFFICES ASSUME Answered < Len(out) PROVE FALSE
    OBVIOUS
  <2>1. EndOf(Answered + 1) < EndOf(Len(out) + 1)
    BY <1>1, <1>2, <1>3, <1>6, <1>7
  <2> QED
    BY <1>9, <1>10, <2>1
<1>12. A = 1..Len(out)
  BY <1>2, <1>6, <1>7, <1>11
<1> QED
  BY <1>2, <1>12 DEF A

\* A request that has a route: its response follows a complete one.
LEMMA HandleStep ==
    ASSUME IInv, ~Pipelining, \A r \in DOMAIN Routes : Routes[r].kind # "unreadable",
           HandledAsSent, HandledAsSent',
           NEW n \in 1..(Sendable - got), got' = got + n, script' = script,
           NEW req, req.router \in DOMAIN Routes, Handle(req)
    PROVE  IInv'
<1> DEFINE answer == Answer(req)
           x == [type |-> req.type, router |-> req.router]
           rec == [length |-> answer.length, sent |-> answer.buf]
<1>1. /\ handled' = Append(handled, x) /\ conn' = conn /\ response' = Popped(answer)
      /\ out' = IF conn = "kEstablished" THEN Append(out, rec) ELSE out
  BY DEF Handle
<1>2. /\ answer \in AnyResponse /\ answer.buf + answer.left = answer.length
      /\ answer.left > 0 => answer.file /\ ~answer.eof
  BY Answers
<1> HIDE DEF answer
<1>3. /\ response' \in AnyResponse /\ response'.buf = 0 /\ response'.left = answer.left
      /\ response'.left > 0 => response'.file /\ ~response'.eof
  BY <1>1, <1>2 DEF Popped, AnyResponse
<1>4. Listed' /\ Len(handled') = Len(handled) + 1
  BY <1>1, Grows DEF IInv
<1>5. Types /\ Listed /\ ResponsesAreWhole /\ out \in Seq(Record) /\ script' \in Scripts
  BY DEF IInv, Types
<1>6. CASE conn # "kEstablished"
  <2>1. out' = out
    BY <1>1, <1>6
  <2> QED
    BY <1>1, <1>3, <1>4, <1>5, <1>6, <2>1 DEF IInv, Types, ResponsesAreWhole
<1>7. CASE conn = "kEstablished"
  <2>1. Pumping
    BY <1>7 DEF IInv
  <2>2. x # Refused
    <3>1. req.router # <<>> /\ x.router = req.router /\ Refused.router = <<>>
      BY RoutesAssumption DEF Refused
    <3> QED
      BY <3>1
  <2> HIDE DEF x
  <2>3. \A i \in DOMAIN out : out[i].sent = out[i].length
    BY <1>1, <1>5, <2>1, <2>2, AllAnswered
  <2>4. /\ rec \in Record /\ rec.length = answer.length /\ rec.sent = answer.buf
        /\ answer.buf \in Nat /\ answer.left \in Nat /\ answer.length \in Nat
    BY <1>2 DEF Record, AnyResponse
  <2> HIDE DEF rec
  <2>5. /\ out' \in Seq(Record) /\ Len(out) \in Nat /\ Len(out') = Len(out) + 1
        /\ \A i \in 1..Len(out) : out'[i] = out[i]
        /\ out'[Len(out) + 1] = rec
    BY <1>1, <1>5, <1>7, <2>4, AppendProperties
  <2>6. DOMAIN out = 1..Len(out) /\ DOMAIN out' = 1..(Len(out) + 1)
    BY <1>5, <2>5, LenProperties
  <2>7. ASSUME NEW i \in DOMAIN out'
        PROVE  /\ out'[i].sent <= out'[i].length
               /\ i < Len(out') => out'[i].sent = out'[i].length
    <3>1. CASE i = Len(out) + 1
      BY <1>2, <2>4, <2>5, <3>1
    <3>2. CASE i # Len(out) + 1
      <4>1. i \in 1..Len(out) /\ i \in DOMAIN out
        BY <2>5, <2>6, <3>2
      <4>2. out[i].sent = out[i].length /\ out[i].sent <= out[i].length
        BY <1>5, <2>3, <4>1 DEF ResponsesAreWhole
      <4> QED
        BY <2>5, <4>1, <4>2
    <3> QED
      BY <3>1, <3>2
  <2>8. ResponsesAreWhole'
    BY <2>7 DEF ResponsesAreWhole
  <2>9. Pumping'
    <3>1. Len(out') > 0 /\ Len(out') # 0
      BY <2>5
    <3>2. out'[Len(out')].sent + response'.left = out'[Len(out')].length
      BY <1>2, <1>3, <2>4, <2>5
    <3> QED
      BY <1>3, <1>4, <2>1, <2>5, <3>1, <3>2 DEF Pumping
  <2> QED
    BY <1>3, <1>4, <1>5, <2>5, <2>8, <2>9 DEF IInv, Types
<1> QED
  BY <1>6, <1>7

\* A read: the request is refused, handled or not complete yet.
LEMMA ReadCbStep ==
    ASSUME IInv, ~Pipelining, \A r \in DOMAIN Routes : Routes[r].kind # "unreadable",
           HandledAsSent, HandledAsSent', NEW n \in 1..(Sendable - got), ReadCb(n)
    PROVE  IInv'
<1>1. PICK req :
         /\ CASE req.state = "kRequestIsBad" -> Refuse
              [] req.state = "kDone" /\ req.router \notin DOMAIN Routes -> Refuse
              [] req.state = "kDone" /\ req.router \in DOMAIN Routes -> Handle(req)
              [] OTHER -> UNCHANGED <<response, connVars, handled, out>>
         /\ got' = got + n /\ script' = script
  BY DEF ReadCb
<1>2. \/ Refuse
      \/ req.router \in DOMAIN Routes /\ Handle(req)
      \/ UNCHANGED <<response, connVars, handled, out>>
  BY <1>1
<1>3. CASE Refuse
  <2>1. /\ response' = response /\ out' = out
        /\ conn = "kEstablished" => conn' = "kHalfShutdown" /\ handled' = Append(handled, Refused)
        /\ conn # "kEstablished" => conn' = conn /\ handled' = handled
    BY <1>3 DEF Refuse
  <2>2. Listed'
    BY <2>1, Grows DEF IInv, Listed
  <2> QED
    BY <1>1, <2>1, <2>2, QuietStep DEF Quiet
<1>4. CASE req.router \in DOMAIN Routes /\ Handle(req)
  BY <1>1, <1>4, HandleStep
<1>5. CASE UNCHANGED <<response, connVars, handled, out>>
  <2>1. Listed'
    BY <1>5 DEF IInv, Listed
  <2> QED
    BY <1>1, <1>5, <2>1, QuietStep DEF Quiet, connVars
<1> QED
  BY <1>2, <1>3, <1>4, <1>5

\* Every step.
LEMMA NextIInv ==
    ASSUME IInv, ~Pipelining, \A r \in DOMAIN Routes : Routes[r].kind # "unreadable",
           HandledAsSent, HandledAsSent', [Next]_vars
    PROVE  IInv'
<1>1. CASE Poll \/ HandleClose \/ HandleWrite \/ HandleWritePart \/ DoPeddingFunctors
           \/ UNCHANGED vars
  <2>1. handled' = handled /\ Quiet
    BY <1>1 DEF Quiet, Poll, HandleClose, HandleWrite, HandleWritePart,
                DoPeddingFunctors, vars, parserVars, connVars
  <2>2. Listed'
    BY <2>1 DEF IInv, Listed
  <2> QED
    BY <2>1, <2>2, QuietStep
<1> QED
  BY <1>1, ReadCbStep, WriteCbStep DEF Next

\* ResponsesAreWhole holds as long as the requests are handled as they were
\* sent, for a client that waits for its answers and files that can be opened:
\* however many write_cb_ functors are queued, whichever response they were
\* queued for, and whatever the socket takes of each write, no response gets
\* longer than its content-length and none is cut off by the next.
THEOREM WholeResponses ==
    ASSUME ~Pipelining, \A r \in DOMAIN Routes : Routes[r].kind # "unreadable"
    PROVE  Spec /\ []HandledAsSent => []ResponsesAreWhole
<1>1. IInv /\ HandledAsSent /\ HandledAsSent' /\ [Next]_vars => IInv'
  BY NextIInv
<1>2. IInv => ResponsesAreWhole
  BY DEF IInv
<1> QED
  BY InitIInv, <1>1, <1>2, PTL DEF Spec
=============================================================================
