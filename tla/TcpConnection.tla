---------------------------- MODULE TcpConnection ----------------------------
(***************************************************************************)
(* One TcpConnection (src/src/tcp_connection.cc) from NewConnection() to   *)
(* its destructor, with the Channel and the EventLoop passes that drive it *)
(* and its owner, a TcpServer or a TcpClient.  Everything runs on the loop *)
(* thread; what interleaves is the order in which the poller's events, the *)
(* queued functors, user callbacks and the peer come.                      *)
(*                                                                         *)
(* Data is counted in units, not stored.  The object is alive while its    *)
(* owner, a functor or a running callback holds the shared_ptr.            *)
(***************************************************************************)
EXTENDS Naturals, Sequences

CONSTANTS
    Owners,      \* the kinds of owner: "server", "client" or both
    SockCap,     \* capacity of the kernel's send buffer
    MaxSend,     \* the largest Send()
    MaxAccepted, \* bound on the units accepted by Send()
    Watermark    \* watermark_

ASSUME OwnerAssumption == Owners \subseteq {"server", "client"}
ASSUME SizeAssumption ==
    /\ SockCap \in Nat /\ MaxSend \in Nat
    /\ MaxAccepted \in Nat /\ Watermark \in Nat

VARIABLES
    owner,       \* what owns the connection; it does not change
    state,       \* state_
    registered,  \* the poller knows channel_ (index_in_poller_ >= 0)
    events,      \* channel_.events_
    output,      \* output_buffer_->size()
    owned,       \* id_conn_ or conn_ holds the object
    aborted,     \* an assert failed, or a destroyed object was called
    phase,       \* where the loop is: "poll", "handle" or "functors"
    todo,        \* the callbacks this pass still has to make
    user,        \* whose callback runs: "none", "conn" or "other"
    pedding_functors,
    calling_functors,
    next,        \* the next of calling_functors to run
    \* The kernel and the peer.
    sndbuf,      \* units in the kernel's send buffer
    finSent,     \* shutdown(fd_, SHUT_WR) was called
    inData,      \* data to read
    peerFin,     \* the peer has shut down its side
    reset,       \* the peer has reset the connection
    \* History.
    accepted,    \* units Send() took over
    written,     \* units handed to the kernel
    dropped,     \* units lost to a write error
    owesWriteCb, \* something was accepted and write_cb_ has not run since
    closes,      \* calls of close_cb_
    destroyed    \* the owner was destroyed: "no", "quiet" or "busy"

loopVars == <<phase, todo, user>>
functorVars == <<pedding_functors, calling_functors, next>>
peerVars == <<inData, peerFin, reset>>
dataVars == <<output, sndbuf, written>>
vars == <<owner, state, registered, events, owned, aborted, loopVars,
          functorVars,
          peerVars, dataVars, finSent, accepted, dropped, owesWriteCb, closes,
          destroyed>>

State == {"kConnecting", "kEstablished", "kHalfShutdown", "kDisconnected"}
Handler == {"read", "write", "error", "close"}
Functor == {"write_cb", "DestroyConnection"}

IsWriting == "write" \in events

\* Nobody holds the object any more: it has been destroyed.
Freed ==
    /\ state # "kConnecting"
    /\ ~owned
    /\ user # "conn"
    /\ pedding_functors = <<>>
    /\ calling_functors = <<>>

\* The callback h is one that the loop still has to make in this pass.
Pends(h) == \E i \in DOMAIN todo : todo[i] = h

\* No assert has failed, neither in a method nor in the destructor of the
\* connection or of its channel, and the destroyed object will not be called;
\* otherwise the program is gone.
Alive ==
    /\ ~aborted
    /\ Freed => /\ state = "kDisconnected" /\ events = {}
                /\ \A h \in Handler : ~Pends(h)

\* The peer is told that no more comes: by ShutdownUnsafe(), or by close(fd_) in
\* the destructor, which says so whatever was left.
Ended == finSent \/ Freed

\* What waits in output_buffer_ when no HandleWrite() can follow is lost too.
Lost ==
    dropped + IF Freed \/ (state = "kDisconnected" /\ ~Pends("write"))
              THEN output ELSE 0

Init ==
    /\ owner \in Owners
    /\ state = "kConnecting"
    /\ registered = FALSE
    /\ events = {}
    /\ output = 0
    /\ owned = FALSE
    /\ aborted = FALSE
    /\ phase = "handle"
    /\ todo = <<>>
    /\ user = "none"
    /\ pedding_functors = <<>>
    /\ calling_functors = <<>>
    /\ next = 1
    /\ sndbuf = 0
    /\ finSent = FALSE
    /\ inData = FALSE
    /\ peerFin = FALSE
    /\ reset = FALSE
    /\ accepted = 0
    /\ written = 0
    /\ dropped = 0
    /\ owesWriteCb = FALSE
    /\ closes = 0
    /\ destroyed = "no"

-----------------------------------------------------------------------------
(* The owner.                                                              *)

\* NewConnection() of TcpServer or TcpClient, called by a listening or a
\* connecting channel: the constructor and SetReadableCallback() register the
\* channel for reading, OnEstablished() calls conn_cb_.
NewConnection ==
    /\ state = "kConnecting"
    /\ state' = "kEstablished"
    /\ registered' = TRUE
    /\ events' = {"read"}
    /\ owned' = TRUE
    /\ user' = "conn"
    /\ UNCHANGED <<owner, aborted, phase, todo, functorVars, peerVars,
                   dataVars, finSent, accepted, dropped, owesWriteCb, closes,
                   destroyed>>

\* Mutant: only an established connection takes its channel out.
DestroyKeepsChannel ==
    /\ state' = IF state = "kEstablished" THEN "kDisconnected" ELSE state
    /\ events' = IF state = "kEstablished" THEN {} ELSE events
    /\ aborted' = (registered /\ events' # {})
    /\ registered' = (registered /\ state # "kEstablished")

\* DestroyConnection(): RemoveChannel() asserts that no event is enabled.
DestroyConnection ==
    /\ state' = IF state = "kEstablished" THEN "kDisconnected" ELSE state
    /\ events' = IF state = "kEstablished" THEN {} ELSE events
    /\ aborted' = (registered /\ events' # {})
    /\ registered' = FALSE

\* ~TcpServer() or ~TcpClient(), called by user code that is not a callback
\* of this connection.  "busy": the connection waits for the end of a shutdown
\* or is about to be called in this pass.
OwnerDestroyed ==
    /\ Alive
    /\ owned
    /\ user = "other"
    /\ owned' = FALSE
    /\ destroyed' = IF state = "kHalfShutdown" \/ \E h \in Handler : Pends(h)
                    THEN "busy" ELSE "quiet"
    /\ IF owner = "server" THEN DestroyConnection
       ELSE UNCHANGED <<state, events, aborted, registered>>
    /\ UNCHANGED <<owner, loopVars, functorVars, peerVars, dataVars, finSent,
                   accepted, dropped, owesWriteCb, closes>>

-----------------------------------------------------------------------------
(* Send() and Shutdown(), called by user code on the loop thread.          *)

Least(a, b) == IF a < b THEN a ELSE b
Space == SockCap - sndbuf

\* Mutant: data waits in the buffer and write is not enabled.
EnableWriteForgotten == UNCHANGED <<events, registered>>

EnableWrite ==
    /\ events' = events \cup {"write"}
    /\ registered' = TRUE

\* SendUnsafe() appends: something is waiting already.  While the channel is
\* writing it returns before the watermark is looked at.
Append2Output(n) ==
    /\ output' = output + n
    /\ IF IsWriting THEN UNCHANGED <<events, registered>> ELSE EnableWrite
    /\ UNCHANGED <<sndbuf, written, pedding_functors, dropped>>

\* SendUnsafe() writes directly; what does not fit waits in output_buffer_.
\* A write error other than EAGAIN drops the data.
WriteDirectly(n) ==
    LET k == Least(n, Space)
    IN  IF reset
        THEN /\ dropped' = dropped + n
             /\ UNCHANGED <<dataVars, events, registered, pedding_functors>>
        ELSE /\ sndbuf' = sndbuf + k
             /\ written' = written + k
             /\ output' = n - k
             /\ IF k < n
                THEN EnableWrite /\ UNCHANGED pedding_functors
                ELSE /\ pedding_functors' = Append(pedding_functors, "write_cb")
                     /\ UNCHANGED <<events, registered>>
             /\ UNCHANGED dropped

\* The end of SendUnsafe(): DefaultHighWatermarkCb() calls Shutdown(), whose
\* ShutdownUnsafe() sends FIN unless the channel is writing.
HighWatermark ==
    ~IsWriting /\ ~(output = 0 /\ reset) /\ output' >= Watermark

Send(n) ==
    /\ Alive
    /\ user # "none"
    /\ state = "kEstablished"
    /\ accepted + n <= MaxAccepted
    /\ accepted' = accepted + n
    /\ owesWriteCb' = TRUE
    /\ IF IsWriting \/ output > 0 THEN Append2Output(n) ELSE WriteDirectly(n)
    /\ IF HighWatermark
       THEN /\ state' = "kHalfShutdown"
            /\ finSent' = ("write" \notin events')
       ELSE UNCHANGED <<state, finSent>>
    /\ UNCHANGED <<owner, owned, aborted, loopVars, calling_functors, next,
                   peerVars, closes, destroyed>>

\* Mutant: FIN is sent whether or not data waits.
FinAnyway == TRUE

\* ShutdownUnsafe(): FIN waits for the output to drain.
FinNow == finSent \/ ~IsWriting

Shutdown ==
    /\ Alive
    /\ user # "none"
    /\ state = "kEstablished"
    /\ state' = "kHalfShutdown"
    /\ finSent' = FinNow
    /\ UNCHANGED <<owner, registered, events, owned, aborted, loopVars,
                   functorVars, peerVars, dataVars, accepted, dropped,
                   owesWriteCb, closes, destroyed>>

UserReturns ==
    /\ Alive
    /\ user # "none"
    /\ user' = "none"
    /\ UNCHANGED <<owner, state, registered, events, owned, aborted, phase,
                   todo, functorVars, peerVars, dataVars, finSent, accepted,
                   dropped, owesWriteCb, closes, destroyed>>

-----------------------------------------------------------------------------
(* The handlers Channel::Handle() calls, in its order.                     *)

\* The callback h, when the condition holds.
When(h, condition) == IF condition THEN <<h>> ELSE <<>>

\* What the kernel reports of the socket, as the callbacks Handle() makes.
Revents ==
    When("read", "read" \in events /\ (inData \/ peerFin \/ reset))
    \o When("write", IsWriting /\ (Space > 0 \/ reset))
    \o When("error", reset)
    \o When("close", reset \/ (finSent /\ peerFin))

\* Which other channels may be active.  Once a TcpClient's connection has been
\* closed (and retry_ is set) a Connector is at work on the next one.
Others ==
    {"other"} \cup (IF owner = "client" /\ owned /\ state = "kDisconnected"
                    THEN {"connector"} ELSE {})

\* The poller returns: events of this connection, of another channel (whose
\* callback may come first or last), or a wakeup for queued functors.
PollUntil ==
    LET mine == IF registered THEN Revents ELSE <<>>
    IN  /\ Alive
        /\ phase = "poll"
        /\ \/ todo' = mine
           \/ \E o \in Others : todo' \in {mine \o <<o>>, <<o>> \o mine}
        /\ todo' # <<>> \/ pedding_functors # <<>>
        /\ phase' = "handle"
        /\ UNCHANGED <<owner, state, registered, events, owned, aborted, user,
                       functorVars, peerVars, dataVars, finSent, accepted,
                       dropped, owesWriteCb, closes, destroyed>>

\* The next callback of this pass is h.
Handling(h) ==
    /\ Alive
    /\ phase = "handle"
    /\ user = "none"
    /\ todo # <<>>
    /\ Head(todo) = h
    /\ todo' = Tail(todo)
    /\ UNCHANGED phase

\* A callback of some other channel or a timer.
OtherCallback ==
    /\ Handling("other")
    /\ user' = "other"
    /\ UNCHANGED <<owner, state, registered, events, owned, aborted,
                   functorVars, peerVars, dataVars, finSent, accepted, dropped,
                   owesWriteCb, closes, destroyed>>

\* TcpClient::NewConnection() for the next connection overwrites conn_ and
\* calls conn_cb_.
ClientReplaces ==
    /\ Handling("connector")
    /\ owned' = FALSE
    /\ user' = "other"
    /\ UNCHANGED <<owner, state, registered, events, aborted, functorVars,
                   peerVars, dataVars, finSent, accepted, dropped, owesWriteCb,
                   closes, destroyed>>

\* Mutants: HandleClose() does not look for an earlier close; it takes a half
\* shut down connection for a closed one.
NeverClosed == FALSE
HalfShutdownIsClosed == state \in {"kDisconnected", "kHalfShutdown"}

AlreadyClosed == state = "kDisconnected"

DisableAll == events' = {}

\* HandleClose(): the channel is disabled and removed, close_cb_ is
\* TcpServer::RemoveConnection() or TcpClient::HandleClose(), of a client that
\* may be gone.  What output_buffer_ holds stays there (FIXME at l. 132-133).
HandleClose ==
    IF AlreadyClosed
    THEN UNCHANGED <<state, registered, events, aborted, owned,
                     pedding_functors, closes>>
    ELSE /\ DisableAll
         /\ aborted' = \/ state \notin {"kEstablished", "kHalfShutdown"}
                       \/ events' # {}
                       \/ owner = "client" /\ ~owned
         /\ registered' = FALSE
         /\ state' = "kDisconnected"
         /\ closes' = closes + 1
         /\ IF owner = "server"
            THEN /\ owned' = FALSE
                 /\ pedding_functors' = Append(pedding_functors,
                                               "DestroyConnection")
            ELSE UNCHANGED <<owned, pedding_functors>>

\* HandleRead(): data goes to readable_cb_, end of file closes, an error is
\* logged.
HandleReadData ==
    /\ Handling("read")
    /\ inData /\ ~reset
    /\ inData' = FALSE
    /\ user' = "conn"
    /\ UNCHANGED <<owner, state, registered, events, owned, aborted,
                   functorVars, peerFin, reset, dataVars, finSent, accepted,
                   dropped, owesWriteCb, closes, destroyed>>

HandleReadEof ==
    /\ Handling("read")
    /\ ~inData /\ peerFin /\ ~reset
    /\ HandleClose
    /\ UNCHANGED <<owner, user, calling_functors, next, peerVars, dataVars,
                   finSent, accepted, dropped, owesWriteCb, destroyed>>

\* HandleRead() with an error, and HandleError(): both only log.
HandleError ==
    /\ Handling("error") \/ (Handling("read") /\ reset)
    /\ UNCHANGED <<owner, state, registered, events, owned, aborted, user,
                   functorVars, peerVars, dataVars, finSent, accepted, dropped,
                   owesWriteCb, closes, destroyed>>

\* Mutant: the drained connection does not ask for write_cb_.
DrainedSilently ==
    /\ events' = events \ {"write"}
    /\ registered' = TRUE
    /\ UNCHANGED pedding_functors
    /\ finSent' = (finSent \/ state = "kHalfShutdown")

\* Mutant: the pending shutdown is forgotten.
DrainedWithoutFin ==
    /\ events' = events \ {"write"}
    /\ registered' = TRUE
    /\ pedding_functors' = Append(pedding_functors, "write_cb")
    /\ UNCHANGED finSent

\* The output is empty: DisableWrite(), whose Update() registers a channel
\* that is not registered, write_cb_ is queued, a pending shutdown is done.
Drained ==
    /\ events' = events \ {"write"}
    /\ registered' = TRUE
    /\ pedding_functors' = Append(pedding_functors, "write_cb")
    /\ finSent' = (finSent \/ state = "kHalfShutdown")

\* What output_buffer_->Pop(k) leaves.
Pop(k) == output - k

HandleWrite ==
    LET k == IF reset THEN 0 ELSE Least(output, Space)
    IN  /\ Handling("write")
        /\ sndbuf' = sndbuf + k
        /\ written' = written + k
        /\ output' = Pop(k)
        /\ IF ~reset /\ output' = 0 THEN Drained
           ELSE UNCHANGED <<events, registered, pedding_functors, finSent>>
        /\ UNCHANGED <<owner, state, owned, aborted, user, calling_functors,
                       next, peerVars, accepted, dropped, owesWriteCb, closes,
                       destroyed>>

HandleHup ==
    /\ Handling("close")
    /\ HandleClose
    /\ UNCHANGED <<owner, user, calling_functors, next, peerVars, dataVars,
                   finSent, accepted, dropped, owesWriteCb, destroyed>>

-----------------------------------------------------------------------------
(* DoPeddingFunctors().                                                    *)

SwapFunctors ==
    /\ Alive
    /\ phase = "handle" /\ todo = <<>> /\ user = "none"
    /\ state # "kConnecting"
    /\ phase' = "functors"
    /\ calling_functors' = pedding_functors
    /\ pedding_functors' = <<>>
    /\ next' = 1
    /\ UNCHANGED <<owner, state, registered, events, owned, aborted, todo,
                   user, peerVars, dataVars, finSent, accepted, dropped,
                   owesWriteCb, closes, destroyed>>

Running(f) ==
    /\ Alive
    /\ phase = "functors" /\ user = "none"
    /\ next <= Len(calling_functors)
    /\ calling_functors[next] = f
    /\ next' = next + 1
    /\ UNCHANGED <<phase, todo, calling_functors, pedding_functors>>

RunWriteCb ==
    /\ Running("write_cb")
    /\ user' = "conn"
    /\ owesWriteCb' = FALSE
    /\ UNCHANGED <<owner, state, registered, events, owned, aborted, peerVars,
                   dataVars, finSent, accepted, dropped, closes, destroyed>>

RunDestroyConnection ==
    /\ Running("DestroyConnection")
    /\ DestroyConnection
    /\ UNCHANGED <<owner, owned, user, peerVars, dataVars, finSent, accepted,
                   dropped, owesWriteCb, closes, destroyed>>

FunctorsDone ==
    /\ Alive
    /\ phase = "functors" /\ user = "none"
    /\ next > Len(calling_functors)
    /\ calling_functors' = <<>>
    /\ next' = 1
    /\ phase' = "poll"
    /\ UNCHANGED <<owner, state, registered, events, owned, aborted, todo,
                   user, pedding_functors, peerVars, dataVars, finSent,
                   accepted, dropped, owesWriteCb, closes, destroyed>>

-----------------------------------------------------------------------------
(* The peer and the kernel.                                                *)

notPeer == <<owner, state, registered, events, owned, aborted, loopVars,
             functorVars,
             output, written, finSent, accepted, dropped, owesWriteCb, closes,
             destroyed>>

\* The connection is up and the peer has not reset it.
PeerConnected == Alive /\ state # "kConnecting" /\ ~reset

PeerSends ==
    /\ PeerConnected
    /\ ~inData /\ ~peerFin
    /\ inData' = TRUE
    /\ UNCHANGED <<notPeer, peerFin, reset, sndbuf>>

PeerShutsDown ==
    /\ PeerConnected
    /\ ~peerFin
    /\ peerFin' = TRUE
    /\ UNCHANGED <<notPeer, inData, reset, sndbuf>>

PeerResets ==
    /\ PeerConnected
    /\ reset' = TRUE
    /\ UNCHANGED <<notPeer, inData, peerFin, sndbuf>>

PeerReads ==
    /\ PeerConnected
    /\ sndbuf > 0
    /\ sndbuf' = sndbuf - 1
    /\ UNCHANGED <<notPeer, peerVars>>

-----------------------------------------------------------------------------

LoopSteps ==
    \/ NewConnection \/ UserReturns \/ PollUntil
    \/ OtherCallback \/ ClientReplaces
    \/ HandleReadData \/ HandleReadEof \/ HandleError \/ HandleWrite \/ HandleHup
    \/ SwapFunctors \/ RunWriteCb \/ RunDestroyConnection \/ FunctorsDone

Next ==
    \/ LoopSteps
    \/ \E n \in 1..MaxSend : Send(n)
    \/ Shutdown \/ OwnerDestroyed
    \/ PeerSends \/ PeerShutsDown \/ PeerResets \/ PeerReads

\* The loop keeps running and callbacks return; a peer that has not reset the
\* connection reads what it is sent.
Fairness == WF_vars(LoopSteps) /\ WF_vars(PeerReads)

Spec == Init /\ [][Next]_vars /\ Fairness

\* What those who send on the connection see of it.
Stream == INSTANCE OutStream WITH lost <- Lost, ended <- Ended

-----------------------------------------------------------------------------
(* Properties.                                                             *)

TypeOK ==
    /\ owner \in Owners
    /\ state \in State
    /\ registered \in BOOLEAN
    /\ events \in SUBSET {"read", "write"}
    /\ owned \in BOOLEAN
    /\ aborted \in BOOLEAN
    /\ phase \in {"poll", "handle", "functors"}
    /\ todo \in Seq(Handler \cup {"other", "connector"})
    /\ user \in {"none", "conn", "other"}
    /\ pedding_functors \in Seq(Functor)
    /\ calling_functors \in Seq(Functor)
    /\ next \in Nat
    /\ inData \in BOOLEAN /\ peerFin \in BOOLEAN /\ reset \in BOOLEAN
    /\ output \in Nat /\ sndbuf \in 0..SockCap /\ written \in Nat
    /\ finSent \in BOOLEAN
    /\ accepted \in Nat /\ dropped \in Nat
    /\ owesWriteCb \in BOOLEAN
    /\ closes \in Nat
    /\ destroyed \in {"no", "quiet", "busy"}

\* While the connection lives, data waits in output_buffer_ exactly when the
\* channel listens for writability: no data is left behind unsent and the
\* loop does not spin on an empty buffer (comment at l. 188-194).
OutputIffWriting ==
    state \in {"kEstablished", "kHalfShutdown"} => (output > 0 <=> IsWriting)

\* The FIN of a shutdown follows every unit Send() accepted, unless the peer
\* reset the connection (Shutdown, HandleWrite, l. 109, 240); and a unit is
\* lost only to a reset, to a peer that shut down its side while output waited
\* (the code drops it, FIXME at l. 132-133) or to the destruction of the owner.
FinAfterData ==
    /\ finSent /\ ~reset => written = accepted
    /\ Lost > 0 => reset \/ peerFin \/ destroyed # "no"

\* close_cb_ is called at most once, although end of file and POLLHUP come
\* in the same event (comment at l. 127-129).
ClosedOnce == closes <= 1

\* The poller does not know the channel and this pass will not call it.
Unreachable == ~registered /\ \A h \in Handler : ~Pends(h)

\* An owner that lives on destroys the connection when the poller no longer
\* knows its channel and this pass makes no more callbacks into it
\* (tcp_server.h, l. 44-50).
NoDanglingChannel == destroyed = "no" /\ Freed => Unreachable

\* A server keeps that promise, and the asserts hold: in RemoveChannel(), in
\* HandleClose(), in ~TcpConnection() (l. 67) and in ~Channel() (channel.cc,
\* l. 35).  It does so when it is destroyed itself as well, except by a callback
\* that runs before one of the connection in the same pass (event_loop.cc,
\* l. 49) and while the connection is half shut down, which DestroyConnection()
\* does not disable (l. 118).
ServerReleases ==
    /\ TypeOK
    /\ owner = "server" /\ destroyed # "busy" => Alive /\ (Freed => Unreachable)

\* To those who send on it the connection is a stream: it accepts data only
\* while established, nothing is written after the end, units are lost only to
\* a reset or when the connection closes or is destroyed, and one that is shut
\* down has sent its FIN as soon as, and not before, output_buffer_ is empty,
\* whether Shutdown(), the watermark or HandleWrite() is the one to see that
\* (l. 109, 225-230, 233-245).  The end that close() brings (l. 66) comes with
\* whatever is left counted as lost.
ImplementsStream == Stream!Spec

\* A connection with that much output no longer accepts data: the limit that
\* watermark_ stands for (tcp_connection.h, l. 80-81).
BacklogIsLimited == output >= Watermark => state # "kEstablished"

\* After an accepted Send() write_cb_ is called, unless the connection ends
\* (comment at l. 152-170).
WriteCompletes ==
    owesWriteCb ~> (~owesWriteCb \/ reset \/ state = "kDisconnected" \/ ~Alive)

\* A shutdown sends its FIN once the output has drained.
ShutdownCompletes ==
    (state = "kHalfShutdown")
        ~> (finSent \/ reset \/ state = "kDisconnected" \/ ~Alive)

\* A connection the peer has shut down or reset is closed and, when a server
\* owns it, destroyed.
PeerGoneIsClosed ==
    ((peerFin \/ reset) /\ state # "kConnecting")
        ~> \/ state = "kDisconnected" /\ (owner = "server" => Freed)
           \/ ~Alive
=============================================================================
