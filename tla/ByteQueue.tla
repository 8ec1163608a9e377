------------------------------ MODULE ByteQueue ------------------------------
(***************************************************************************)
(* What Buffer promises its users: a queue of bytes that is appended to,   *)
(* taken from at the front, and may be given a header, which may break it. *)
(***************************************************************************)
EXTENDS Naturals, Sequences

CONSTANT Chunk  \* the byte strings users hand over

VARIABLES
    queue,
    broken  \* nothing is promised any more

vars == <<queue, broken>>

Init == queue = <<>> /\ broken = FALSE

\* Append() and ReadFd().
Put(s) == queue' = queue \o s

\* Prepend().
PutFront(s) == queue' = s \o queue

\* Pop().
Take(n) == n <= Len(queue) /\ queue' = SubSeq(queue, n + 1, Len(queue))

\* Prepend() of a header that is not written where it is looked for.
Break(s) == s # <<>> /\ broken'

Next ==
    /\ ~broken
    /\ \/ /\ \/ \E s \in Chunk : Put(s) \/ PutFront(s)
             \/ \E n \in 1..Len(queue) : Take(n)
          /\ UNCHANGED broken
       \/ \E s \in Chunk : Break(s)

Spec == Init /\ [][Next]_vars
=============================================================================
