------------------------------- MODULE UdpPeer -------------------------------
(***************************************************************************)
(* UdpPeer (src/src/udp_peer.cc) on its socket.  A datagram is its length. *)
(* OnMessage() looks at the datagram at the front of the kernel's queue    *)
(* with one system call and takes it with the same or with another one;    *)
(* datagrams go on arriving in between.                                    *)
(***************************************************************************)
EXTENDS Integers, Sequences, Subsequences

CONSTANTS
    Sizes,        \* lengths of the datagrams that come
    MaxDatagram,  \* the longest one there can be, 65527 in the code
    FixedSize,    \* buffer_size of a peer that does not grow its buffer
    FirstSize,    \* buffer_.size() at first of a peer that does, 1473
    MaxArrivals   \* bound on the datagrams that come

ASSUME SizesAssumption ==
    /\ Sizes \subseteq 0..MaxDatagram
    /\ MaxDatagram \in Nat /\ MaxArrivals \in Nat
    /\ FixedSize \in Nat \ {0} /\ FirstSize \in Nat \ {0}

VARIABLES
    auto_buffer_size,
    binded_addr,
    buffer_size,  \* buffer_.size()
    stage,        \* "poll", in OnMessage() "recv" or "take", "callback", or
                  \* "fatal" or "closed"
    size,         \* what the last recvfrom() returned
    \* The kernel.
    port,         \* the socket is bound
    rcvQueue,     \* datagrams received and not taken
    \* History.
    arrived,      \* all datagrams that came
    delivered,    \* lengths given to readable_cb_
    unsent        \* the sendto() by which the kernel bound the socket failed

kernelVars == <<port, rcvQueue, arrived>>
udpVars == <<auto_buffer_size, binded_addr, buffer_size, stage, size, kernelVars,
             delivered, unsent>>

Least(a, b) == IF a < b THEN a ELSE b

\* The two constructors, each with a buffer_size that is or is not 0.
UdpInit ==
    /\ auto_buffer_size \in BOOLEAN
    /\ binded_addr \in BOOLEAN
    /\ buffer_size = IF auto_buffer_size THEN FirstSize ELSE FixedSize + 1
    /\ stage = "poll"
    /\ size = 0
    /\ port = binded_addr
    /\ rcvQueue = <<>>
    /\ arrived = <<>>
    /\ delivered = <<>>
    /\ unsent = FALSE

-----------------------------------------------------------------------------
(* The network.                                                            *)

Arrive(n) ==
    /\ port /\ stage # "closed"
    /\ Len(arrived) < MaxArrivals
    /\ rcvQueue' = Append(rcvQueue, n)
    /\ arrived' = Append(arrived, n)
    /\ UNCHANGED <<auto_buffer_size, binded_addr, buffer_size, stage, size, port,
                   delivered, unsent>>

-----------------------------------------------------------------------------
(* OnMessage().                                                            *)

\* The poller reports the socket; a peer that is not bound gives up.
OnMessage ==
    /\ stage = "poll"
    /\ rcvQueue # <<>>
    /\ stage' = IF binded_addr THEN "recv" ELSE "fatal"
    /\ UNCHANGED <<auto_buffer_size, binded_addr, buffer_size, size, kernelVars,
                   delivered, unsent>>

\* Mutant: the byte that tells a whole datagram from a cut one is forgotten in
\* the largest buffer.
GrownToDatagram == Least(2 * buffer_size, MaxDatagram)

\* l. 71-75.
Grown == Least(2 * buffer_size, MaxDatagram + 1)

\* Mutant: what fills the buffer is taken for a whole datagram.
IsCutTooLate(n) == n > buffer_size

\* Only a datagram shorter than the buffer is known to be whole.
IsCut(n) == n >= buffer_size

\* recvfrom() with MSG_PEEK: the datagram stays in the queue.
RecvPeek ==
    /\ stage = "recv"
    /\ auto_buffer_size
    /\ size' = Least(Head(rcvQueue), buffer_size)
    /\ IF size' > 0 /\ IsCut(size')
       THEN buffer_size' = Grown /\ UNCHANGED stage
       ELSE /\ stage' = IF size' > 0 THEN "take" ELSE "poll"
            /\ UNCHANGED buffer_size
    /\ UNCHANGED <<auto_buffer_size, binded_addr, kernelVars, delivered, unsent>>

\* The recvfrom() of l. 78 that drops the datagram looked at.
Take ==
    /\ stage = "take"
    /\ rcvQueue' = Tail(rcvQueue)
    /\ stage' = "callback"
    /\ UNCHANGED <<auto_buffer_size, binded_addr, buffer_size, size, port, arrived,
                   delivered, unsent>>

\* recvfrom() without it: a cut or an empty datagram is lost.
RecvFixed ==
    /\ stage = "recv"
    /\ ~auto_buffer_size
    /\ size' = Least(Head(rcvQueue), buffer_size)
    /\ rcvQueue' = Tail(rcvQueue)
    /\ stage' = IF size' > 0 /\ ~IsCut(size') THEN "callback" ELSE "poll"
    /\ UNCHANGED <<auto_buffer_size, binded_addr, buffer_size, port, arrived,
                   delivered, unsent>>

\* recvfrom() fails.  The switch looks for errno values in size, which is -1:
\* whatever the error, it is logged and the method returns.
RecvFails ==
    /\ stage = "recv"
    /\ size' = -1
    /\ stage' = "poll"
    /\ UNCHANGED <<auto_buffer_size, binded_addr, buffer_size, kernelVars,
                   delivered, unsent>>

\* readable_cb_ is called; it returns later.
Deliver ==
    /\ stage = "callback"
    /\ delivered' = Append(delivered, size)
    /\ stage' = "poll"
    /\ UNCHANGED <<auto_buffer_size, binded_addr, buffer_size, size, kernelVars,
                   unsent>>

-----------------------------------------------------------------------------
(* SendTo() and the destructor, called by user code on the loop thread.    *)

\* Everything is sent.  EINTR, after which the code tries again, is no step.
SendTo ==
    /\ stage = "poll"
    /\ binded_addr' = TRUE
    /\ port' = TRUE
    /\ UNCHANGED <<auto_buffer_size, buffer_size, stage, size, rcvQueue, arrived,
                   delivered, unsent>>

\* Part of it or nothing is sent: that is logged or, for lack of memory and the
\* like, ends the program.  The kernel has bound the socket all the same.
SendToFails ==
    /\ stage = "poll"
    /\ stage' \in {"poll", "closed"}
    /\ port' = TRUE
    /\ unsent' = (unsent \/ ~port)
    /\ UNCHANGED <<auto_buffer_size, binded_addr, buffer_size, size, rcvQueue,
                   arrived, delivered>>

DestroyPeer ==
    /\ stage = "poll"
    /\ stage' = "closed"
    /\ port' = FALSE
    /\ rcvQueue' = <<>>
    /\ UNCHANGED <<auto_buffer_size, binded_addr, buffer_size, size, arrived,
                   delivered, unsent>>

UdpNext ==
    \/ \E n \in Sizes : Arrive(n)
    \/ OnMessage \/ RecvPeek \/ Take \/ RecvFixed \/ RecvFails \/ Deliver
    \/ SendTo \/ SendToFails \/ DestroyPeer

\* The loop calls OnMessage() as long as the socket is readable, OnMessage()
\* goes on, and recvfrom() does not fail for ever.
UdpFairness ==
    /\ WF_udpVars(OnMessage) /\ WF_udpVars(Take) /\ WF_udpVars(Deliver)
    /\ SF_udpVars(RecvPeek) /\ SF_udpVars(RecvFixed)

UdpSpec == UdpInit /\ [][UdpNext]_udpVars /\ UdpFairness

-----------------------------------------------------------------------------
(* Properties.                                                             *)

UdpTypeOK ==
    /\ auto_buffer_size \in BOOLEAN /\ binded_addr \in BOOLEAN
    /\ buffer_size \in Nat \ {0}
    /\ stage \in {"poll", "recv", "take", "callback", "fatal", "closed"}
    /\ size \in -1..MaxDatagram
    /\ port \in BOOLEAN
    /\ rcvQueue \in Seq(Sizes) /\ arrived \in Seq(Sizes)
    /\ unsent \in BOOLEAN

\* The datagrams a peer hands over: with buffer_size 0 all of them, otherwise
\* those that fit (udp_peer.h l. 15-19); empty ones are never handed over.
Wanted(n) == n > 0 /\ (auto_buffer_size \/ n <= FixedSize)

\* How many datagrams the code is done with: those taken from the kernel, and
\* not the one it is about to hand over.
Gone == Len(arrived) - Len(rcvQueue) - (IF stage = "callback" THEN 1 ELSE 0)

\* Every datagram taken from the kernel was handed over whole, once and in
\* order, or was too long for a fixed buffer: between looking at a datagram
\* and taking it (l. 57, 78) others arrive and the buffer changes its size.
\* The program ends over a socket the peer takes for unbound (l. 53) only when
\* the sendto() that bound it had failed.
WholeInOrder ==
    /\ UdpTypeOK
    /\ stage = "fatal" => unsent
    /\ stage # "closed" =>
           delivered \in Kept(arrived, {i \in 1..Gone : Wanted(arrived[i])})

\* Every datagram is taken from the kernel, also the longest there can be, for
\* which the buffer is grown to its limit (l. 69-77), unless an empty one comes
\* to be the first in the queue of a peer that grows its buffer: it is looked
\* at, takes the way of an error (l. 63, 103) and is not dropped, so that peer
\* never receives again, although udp_peer.h, l. 18, says that every datagram
\* must be received.
DatagramsAreTaken ==
    (rcvQueue # <<>>)
        ~> \/ rcvQueue = <<>>
           \/ stage \in {"closed", "fatal"}
           \/ auto_buffer_size /\ Head(rcvQueue) = 0
=============================================================================
