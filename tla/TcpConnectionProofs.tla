------------------------- MODULE TcpConnectionProofs -------------------------
(***************************************************************************)
(* Proofs about TcpConnection for any sizes: of the send buffer, of what   *)
(* is sent, of the watermark.                                              *)
(***************************************************************************)
EXTENDS TcpConnection, SequenceTheorems, TLAPS

\* Every unit Send() accepted was handed to the kernel, waits, or was lost to
\* a write error, which takes a reset.
DataKept ==
    /\ accepted = written + output + dropped
    /\ dropped > 0 => reset

\* Nothing waits once FIN is sent, and nothing is accepted any more.
FinLast == finSent => output = 0 /\ state \in {"kHalfShutdown", "kDisconnected"}

\* Before NewConnection() nothing has happened.
Fresh ==
    state = "kConnecting" =>
        /\ phase = "handle"
        /\ output = 0 /\ events = {} /\ ~owned /\ todo = <<>>
        /\ pedding_functors = <<>> /\ calling_functors = <<>>

\* A connection that called close_cb_ is disconnected for good.
CloseEnds == closes = 0 \/ (closes = 1 /\ state = "kDisconnected")

\* The inductive invariant of any connection.
IInv == TypeOK /\ DataKept /\ FinLast /\ OutputIffWriting /\ Fresh /\ CloseEnds

\* DestroyConnection() waits in a queue, from a place on.
Destroys(q, from) == \E i \in 1..Len(q) : i >= from /\ q[i] = "DestroyConnection"

\* A server's connection: the map holds it while it is connected; after that
\* a DestroyConnection() is queued, which outlives the callbacks of the pass
\* and takes out a channel that one of them registered again.
Server ==
    /\ ~aborted /\ next >= 1
    /\ owned <=> state \in {"kEstablished", "kHalfShutdown"}
    /\ todo \in Seq(Handler \cup {"other"})
    /\ todo # <<>> => phase = "handle"
    /\ calling_functors # <<>> => phase = "functors"
    /\ state = "kDisconnected" => events = {}
    /\ Destroys(pedding_functors, 1) \/ Destroys(calling_functors, 1) => state = "kDisconnected"
    /\ state = "kDisconnected" /\ registered =>
           Destroys(pedding_functors, 1) \/ Destroys(calling_functors, next)
    /\ state = "kDisconnected" /\ ~Destroys(pedding_functors, 1) => todo \in Seq({"other"})

ServerInv == owner = "server" /\ destroyed # "busy" => Server

\* Why a connection ends or loses its owner: the peer, or ~TcpServer() or
\* ~TcpClient().
Cause == reset \/ peerFin \/ destroyed # "no"

\* A connection that was closed or let go of has a cause, and so has every
\* callback or functor that is going to close it or to let go of it.
Causes ==
    /\ Pends("close") => reset \/ peerFin
    /\ Pends("connector") => state = "kDisconnected"
    /\ Destroys(pedding_functors, 1) \/ Destroys(calling_functors, 1) => state = "kDisconnected"
    /\ state = "kDisconnected" => events = {}
    /\ state # "kConnecting" /\ (~owned \/ state = "kDisconnected") => Cause
    /\ owned \/ state = "kConnecting" => destroyed = "no"
    /\ next >= 1

-----------------------------------------------------------------------------
(* Types.                                                                  *)

\* The queues and the list of callbacks stay sequences.
LEMMA QueueTypes ==
    ASSUME TypeOK
    PROVE  /\ Append(pedding_functors, "write_cb") \in Seq(Functor)
           /\ Append(pedding_functors, "DestroyConnection") \in Seq(Functor)
           /\ todo # <<>> => Tail(todo) \in Seq(Handler \cup {"other", "connector"})
           /\ <<>> \in Seq(Functor)
<1>1. "write_cb" \in Functor /\ "DestroyConnection" \in Functor
  BY DEF Functor
<1>2. /\ pedding_functors \in Seq(Functor)
      /\ todo \in Seq(Handler \cup {"other", "connector"})
  BY DEF TypeOK
<1> QED
  BY <1>1, <1>2, AppendProperties, HeadTailProperties

\* The callbacks the kernel has a reason to report.
Reported ==
    {h \in Handler : (h = "close" => reset \/ peerFin) /\ (h = "write" => IsWriting)}

\* The callbacks of a poll, in general and when the channel is not registered.
LEMMA PollTypes ==
    ASSUME PollUntil
    PROVE  /\ todo' \in Seq(Reported \cup Others)
           /\ ~registered => todo' \in Seq(Others)
<1> DEFINE mine == IF registered THEN Revents ELSE <<>>
<1>1. ASSUME NEW h, NEW b, b => h \in Reported PROVE When(h, b) \in Seq(Reported)
  BY <1>1 DEF When
<1>2. Revents \in Seq(Reported)
  <2>1. /\ "read" \in Reported /\ "error" \in Reported
        /\ IsWriting => "write" \in Reported
        /\ reset \/ peerFin => "close" \in Reported
    BY DEF Reported, Handler
  <2> DEFINE r == When("read", "read" \in events /\ (inData \/ peerFin \/ reset))
             w == When("write", IsWriting /\ (Space > 0 \/ reset))
             e == When("error", reset)
             c == When("close", reset \/ (finSent /\ peerFin))
  <2>2. r \in Seq(Reported) /\ e \in Seq(Reported)
    BY <1>1, <2>1
  <2>3. w \in Seq(Reported)
    BY <1>1, <2>1
  <2>4. c \in Seq(Reported)
    BY <1>1, <2>1
  <2>5. Revents = r \o w \o e \o c
    BY DEF Revents
  <2> HIDE DEF r, w, e, c
  <2> QED
    BY <2>2, <2>3, <2>4, <2>5, ConcatProperties
<1>3. /\ mine \in Seq(Reported) /\ mine \in Seq(Reported \cup Others)
      /\ ~registered => mine = <<>> /\ mine \in Seq(Others)
  BY <1>2
<1>4. \A o \in Others : <<o>> \in Seq(Others) /\ <<o>> \in Seq(Reported \cup Others)
  OBVIOUS
<1>5. \/ todo' = mine
      \/ \E o \in Others : todo' = mine \o <<o>> \/ todo' = <<o>> \o mine
  BY DEF PollUntil
<1> HIDE DEF mine
<1>6. CASE todo' = mine
  BY <1>3, <1>6
<1>7. ASSUME NEW o \in Others, todo' = mine \o <<o>> \/ todo' = <<o>> \o mine
      PROVE  /\ todo' \in Seq(Reported \cup Others)
             /\ ~registered => todo' \in Seq(Others)
  BY <1>3, <1>4, <1>7, ConcatProperties
<1> QED
  BY <1>5, <1>6, <1>7

\* A step that changes only the loop's and the peer's variables, and these
\* within their types.
Elsewhere ==
    /\ owner' = owner /\ state' = state /\ events' = events /\ registered' = registered
    /\ aborted' = aborted /\ owned' \in BOOLEAN
    /\ output' = output /\ written' = written /\ finSent' = finSent
    /\ accepted' = accepted /\ dropped' = dropped /\ closes' = closes /\ destroyed' = destroyed
    /\ owesWriteCb' \in BOOLEAN
    /\ sndbuf' \in 0..SockCap
    /\ inData' \in BOOLEAN /\ peerFin' \in BOOLEAN /\ reset' \in BOOLEAN
    /\ reset => reset'
    /\ phase' \in {"poll", "handle", "functors"} /\ user' \in {"none", "conn", "other"}
    /\ todo' \in Seq(Handler \cup {"other", "connector"})
    /\ pedding_functors' \in Seq(Functor) /\ calling_functors' \in Seq(Functor)
    /\ next' \in Nat

\* It keeps the invariant once the connection exists.
LEMMA ElsewhereStep ==
    ASSUME IInv, Elsewhere, state # "kConnecting" PROVE IInv'
<1>1. TypeOK'
  BY DEF IInv, TypeOK, Elsewhere
<1>2. DataKept' /\ FinLast' /\ OutputIffWriting' /\ Fresh' /\ CloseEnds'
  BY DEF IInv, DataKept, FinLast, OutputIffWriting, Fresh, CloseEnds, Elsewhere, IsWriting
<1> QED
  BY <1>1, <1>2 DEF IInv

-----------------------------------------------------------------------------
(* The steps of any connection.                                            *)

\* The constructor's state.
LEMMA InitIInv == Init => IInv
<1> SUFFICES ASSUME Init PROVE IInv
  OBVIOUS
<1>1. <<>> \in Seq(Functor) /\ <<>> \in Seq(Handler \cup {"other", "connector"})
  OBVIOUS
<1>2. 0 \in 0..SockCap
  BY SizeAssumption
<1>3. /\ registered \in BOOLEAN /\ owned \in BOOLEAN /\ aborted \in BOOLEAN
      /\ inData \in BOOLEAN /\ peerFin \in BOOLEAN /\ reset \in BOOLEAN
      /\ finSent \in BOOLEAN /\ owesWriteCb \in BOOLEAN
  BY Zenon DEF Init
<1>4. TypeOK
  BY <1>1, <1>2, <1>3 DEF Init, TypeOK, State
<1>5. DataKept /\ FinLast /\ OutputIffWriting /\ Fresh /\ CloseEnds
  BY DEF Init, DataKept, FinLast, OutputIffWriting, Fresh, CloseEnds
<1> QED
  BY <1>4, <1>5 DEF IInv

\* The callbacks that only move the loop or the peer's state on.
LEMMA CallbackStep ==
    ASSUME IInv, UserReturns \/ PollUntil \/ OtherCallback \/ ClientReplaces
                 \/ HandleReadData \/ HandleError
    PROVE  IInv'
<1>0. TypeOK
  BY DEF IInv
<1>2. CASE UserReturns
  <2>1. /\ user' = "none" /\ owner' = owner /\ state' = state /\ events' = events
        /\ registered' = registered /\ aborted' = aborted /\ owned' = owned
        /\ output' = output /\ written' = written /\ finSent' = finSent
        /\ accepted' = accepted /\ dropped' = dropped /\ closes' = closes /\ destroyed' = destroyed
        /\ owesWriteCb' = owesWriteCb /\ sndbuf' = sndbuf /\ inData' = inData
        /\ peerFin' = peerFin /\ reset' = reset /\ phase' = phase /\ todo' = todo
        /\ pedding_functors' = pedding_functors
        /\ calling_functors' = calling_functors /\ next' = next
    BY <1>2 DEF UserReturns, functorVars, peerVars, dataVars
  <2>2. TypeOK'
    BY <1>0, <2>1 DEF TypeOK
  <2> QED
    BY <2>1, <2>2
       DEF IInv, DataKept, FinLast, OutputIffWriting, Fresh, CloseEnds, IsWriting
<1>3. CASE PollUntil
  <2>1. todo' \in Seq(Handler \cup {"other", "connector"})
    <3>1. Reported \cup Others \subseteq Handler \cup {"other", "connector"}
      BY DEF Others, Reported
    <3> QED
      BY <1>3, <3>1, PollTypes
  <2>2. Elsewhere
    BY <1>0, <1>3, <2>1
       DEF TypeOK, PollUntil, functorVars, peerVars, dataVars, Elsewhere
  <2> QED
    BY <1>3, <2>2, ElsewhereStep DEF IInv, Fresh, PollUntil
<1>4. ASSUME NEW h, Handling(h)
      PROVE  /\ todo' \in Seq(Handler \cup {"other", "connector"})
             /\ phase' = phase /\ state # "kConnecting"
  BY <1>0, <1>4, QueueTypes DEF Handling, IInv, Fresh
<1>5. CASE OtherCallback
  <2>1. Elsewhere
    BY <1>0, <1>4, <1>5
       DEF TypeOK, OtherCallback, functorVars, peerVars, dataVars, Elsewhere
  <2> QED
    BY <1>4, <1>5, <2>1, ElsewhereStep DEF OtherCallback
<1>6. CASE ClientReplaces
  <2>1. owned' \in BOOLEAN
    BY Zenon, <1>6 DEF ClientReplaces
  <2>2. Elsewhere
    BY <1>0, <1>4, <1>6, <2>1
       DEF TypeOK, ClientReplaces, functorVars, peerVars, dataVars, Elsewhere
  <2> QED
    BY <1>4, <1>6, <2>2, ElsewhereStep DEF ClientReplaces
<1>7. CASE HandleReadData
  <2>1. inData' \in BOOLEAN
    BY Zenon, <1>7 DEF HandleReadData
  <2>2. Elsewhere
    BY <1>0, <1>4, <1>7, <2>1
       DEF TypeOK, HandleReadData, functorVars, dataVars, Elsewhere
  <2> QED
    BY <1>4, <1>7, <2>2, ElsewhereStep DEF HandleReadData
<1>8. CASE HandleError
  <2>1. Handling("error") \/ Handling("read")
    BY <1>8 DEF HandleError
  <2>2. /\ todo' \in Seq(Handler \cup {"other", "connector"})
        /\ phase' = phase /\ state # "kConnecting"
    BY <1>4, <2>1
  <2>3. Elsewhere
    BY <1>0, <1>8, <2>2
       DEF TypeOK, HandleError, functorVars, peerVars, dataVars, Elsewhere
  <2> QED
    BY <2>2, <2>3, ElsewhereStep
<1> QED
  BY <1>2, <1>3, <1>5, <1>6, <1>7, <1>8

\* The functors but DestroyConnection(), and the peer.
LEMMA FunctorStep ==
    ASSUME IInv, SwapFunctors \/ RunWriteCb \/ FunctorsDone
                 \/ PeerSends \/ PeerShutsDown \/ PeerResets \/ PeerReads
    PROVE  IInv'
<1>0. TypeOK
  BY DEF IInv
<1>1. state # "kConnecting"
  BY DEF IInv, Fresh, SwapFunctors, RunWriteCb, Running, FunctorsDone, PeerSends,
         PeerShutsDown, PeerResets, PeerReads, PeerConnected
<1>2. CASE SwapFunctors
  <2>1. pedding_functors' \in Seq(Functor)
    BY <1>2 DEF SwapFunctors
  <2>2. Elsewhere
    BY <1>0, <1>2, <2>1
       DEF TypeOK, SwapFunctors, peerVars, dataVars, Elsewhere
  <2> QED
    BY <1>1, <2>2, ElsewhereStep
<1>3. CASE RunWriteCb
  <2>1. owesWriteCb' \in BOOLEAN
    BY Zenon, <1>3 DEF RunWriteCb
  <2>2. Elsewhere
    BY <1>0, <1>3, <2>1
       DEF TypeOK, RunWriteCb, Running, peerVars, dataVars, Elsewhere
  <2> QED
    BY <1>1, <2>2, ElsewhereStep
<1>4. CASE FunctorsDone
  <2>1. calling_functors' \in Seq(Functor)
    BY <1>4 DEF FunctorsDone
  <2>2. Elsewhere
    BY <1>0, <1>4, <2>1
       DEF TypeOK, FunctorsDone, peerVars, dataVars, Elsewhere
  <2> QED
    BY <1>1, <2>2, ElsewhereStep
<1>5. CASE PeerSends \/ PeerShutsDown \/ PeerResets
  <2>1. inData' \in BOOLEAN /\ peerFin' \in BOOLEAN /\ reset' \in BOOLEAN
    <3>1. inData \in BOOLEAN /\ peerFin \in BOOLEAN /\ reset \in BOOLEAN
      BY <1>0 DEF TypeOK
    <3>2. /\ inData' = inData \/ inData' = TRUE
          /\ peerFin' = peerFin \/ peerFin' = TRUE
          /\ reset' = reset \/ reset' = TRUE
      BY <1>5 DEF PeerSends, PeerShutsDown, PeerResets
    <3> QED
      BY Zenon, <3>1, <3>2
  <2>2. Elsewhere
    BY <1>0, <1>5, <2>1
       DEF TypeOK, PeerSends, PeerShutsDown, PeerResets, notPeer, loopVars, functorVars, Elsewhere
  <2> QED
    BY <1>1, <2>2, ElsewhereStep
<1>6. CASE PeerReads
  <2>1. sndbuf' \in 0..SockCap
    BY <1>0, <1>6, SizeAssumption DEF TypeOK, PeerReads
  <2>2. Elsewhere
    BY <1>0, <1>6, <2>1
       DEF TypeOK, PeerReads, notPeer, loopVars, functorVars, peerVars, Elsewhere
  <2> QED
    BY <1>1, <2>2, ElsewhereStep
<1> QED
  BY <1>2, <1>3, <1>4, <1>5, <1>6

\* NewConnection(): a connection that reads and has nothing to write.
LEMMA NewConnectionStep == ASSUME IInv, NewConnection PROVE IInv'
<1>1. /\ owner' = owner /\ aborted' = aborted /\ state = "kConnecting"
      /\ state' = "kEstablished" /\ events' = {"read"} /\ user' = "conn"
      /\ output' = output /\ written' = written /\ finSent' = finSent
      /\ accepted' = accepted /\ dropped' = dropped /\ closes' = closes /\ destroyed' = destroyed
      /\ owesWriteCb' = owesWriteCb /\ sndbuf' = sndbuf /\ inData' = inData
      /\ peerFin' = peerFin /\ reset' = reset /\ phase' = phase /\ todo' = todo
      /\ pedding_functors' = pedding_functors
      /\ calling_functors' = calling_functors /\ next' = next
  BY DEF NewConnection, functorVars, peerVars, dataVars
<1>2. registered' \in BOOLEAN /\ owned' \in BOOLEAN
  BY Zenon DEF NewConnection
<1>3. TypeOK'
  BY <1>1, <1>2 DEF IInv, TypeOK, State
<1>4. output = 0 /\ ~finSent /\ closes = 0
  BY <1>1 DEF IInv, Fresh, FinLast, CloseEnds
<1>5. DataKept' /\ FinLast' /\ OutputIffWriting' /\ Fresh' /\ CloseEnds'
  BY <1>1, <1>4 DEF IInv, DataKept, FinLast, OutputIffWriting, Fresh, CloseEnds, IsWriting
<1> QED
  BY <1>3, <1>5 DEF IInv

\* A step that ends the connection, or fails an assert and changes nothing
\* else, keeps what was said of its data.
LEMMA EndStep ==
    ASSUME IInv, TypeOK', state # "kConnecting",
           state' = "kDisconnected" \/ (state' = state /\ events' = events),
           output' = output, written' = written, finSent' = finSent,
           accepted' = accepted, dropped' = dropped, reset' = reset,
           closes' = closes \/ (closes' = closes + 1 /\ state # "kDisconnected"
                                                     /\ state' = "kDisconnected")
    PROVE  IInv'
<1>1. DataKept' /\ Fresh'
  BY DEF IInv, DataKept, Fresh
<1>2. FinLast' /\ OutputIffWriting'
  BY DEF IInv, FinLast, OutputIffWriting, IsWriting
<1>3. CloseEnds'
  BY DEF IInv, CloseEnds
<1> QED
  BY <1>1, <1>2, <1>3 DEF IInv

\* DestroyConnection(), called by ~TcpServer() or run as a functor.
LEMMA DestroyTypes ==
    ASSUME TypeOK, DestroyConnection
    PROVE  /\ state' \in State /\ events' \in SUBSET {"read", "write"}
           /\ registered' \in BOOLEAN /\ aborted' \in BOOLEAN
           /\ state' = "kDisconnected" \/ (state' = state /\ events' = events)
<1>1. registered' \in BOOLEAN /\ aborted' \in BOOLEAN
  BY Zenon DEF DestroyConnection
<1> QED
  BY <1>1 DEF TypeOK, State, DestroyConnection

\* The owner lets go, and DestroyConnection() as a functor.
LEMMA DestroyStep ==
    ASSUME IInv, OwnerDestroyed \/ RunDestroyConnection PROVE IInv'
<1>0. TypeOK
  BY DEF IInv
<1>1. CASE OwnerDestroyed
  <2>1. /\ owner' = owner /\ user' = user /\ phase' = phase /\ todo' = todo
        /\ output' = output /\ written' = written /\ finSent' = finSent
        /\ accepted' = accepted /\ dropped' = dropped /\ closes' = closes
        /\ owesWriteCb' = owesWriteCb /\ sndbuf' = sndbuf /\ inData' = inData
        /\ peerFin' = peerFin /\ reset' = reset
        /\ pedding_functors' = pedding_functors
        /\ calling_functors' = calling_functors /\ next' = next /\ owned
    BY <1>1 DEF OwnerDestroyed, loopVars, functorVars, peerVars, dataVars
  <2>2. owned' \in BOOLEAN /\ destroyed' \in {"no", "quiet", "busy"}
    <3>1. owned' = FALSE /\ (destroyed' = "quiet" \/ destroyed' = "busy")
      BY <1>1 DEF OwnerDestroyed
    <3> QED
      BY Zenon, <3>1
  <2>3. /\ state' \in State /\ events' \in SUBSET {"read", "write"}
        /\ registered' \in BOOLEAN /\ aborted' \in BOOLEAN
        /\ state' = "kDisconnected" \/ (state' = state /\ events' = events)
    <3>1. CASE owner = "server"
      BY <1>0, <1>1, <3>1, DestroyTypes DEF OwnerDestroyed
    <3>2. CASE owner # "server"
      BY <1>0, <1>1, <3>2 DEF OwnerDestroyed, TypeOK
    <3> QED
      BY <3>1, <3>2
  <2>4. TypeOK'
    BY <1>0, <2>1, <2>2, <2>3 DEF TypeOK
  <2>5. state # "kConnecting"
    BY <2>1 DEF IInv, Fresh
  <2> QED
    BY <2>1, <2>3, <2>4, <2>5, EndStep
<1>2. CASE RunDestroyConnection
  <2>1. /\ owner' = owner /\ user' = user /\ phase' = phase /\ todo' = todo
        /\ output' = output /\ written' = written /\ finSent' = finSent
        /\ accepted' = accepted /\ dropped' = dropped /\ closes' = closes /\ destroyed' = destroyed
        /\ owesWriteCb' = owesWriteCb /\ sndbuf' = sndbuf /\ inData' = inData
        /\ peerFin' = peerFin /\ reset' = reset /\ owned' = owned
        /\ pedding_functors' = pedding_functors
        /\ calling_functors' = calling_functors /\ next' = next + 1
        /\ phase = "functors"
    BY <1>2 DEF RunDestroyConnection, Running, peerVars, dataVars
  <2>2. /\ state' \in State /\ events' \in SUBSET {"read", "write"}
        /\ registered' \in BOOLEAN /\ aborted' \in BOOLEAN
        /\ state' = "kDisconnected" \/ (state' = state /\ events' = events)
    BY <1>0, <1>2, DestroyTypes DEF RunDestroyConnection
  <2>3. TypeOK'
    BY <1>0, <2>1, <2>2 DEF TypeOK
  <2>4. state # "kConnecting"
    BY <2>1 DEF IInv, Fresh
  <2> QED
    BY <2>1, <2>2, <2>3, <2>4, EndStep
<1> QED
  BY <1>1, <1>2

\* HandleClose(), on end of file or a hangup.
LEMMA CloseStep ==
    ASSUME IInv, HandleReadEof \/ HandleHup PROVE IInv'
<1>0. TypeOK
  BY DEF IInv
<1>1. /\ owner' = owner /\ user' = user /\ phase' = phase /\ todo' = Tail(todo)
      /\ todo # <<>>
      /\ output' = output /\ written' = written /\ finSent' = finSent
      /\ accepted' = accepted /\ dropped' = dropped /\ destroyed' = destroyed
      /\ owesWriteCb' = owesWriteCb /\ sndbuf' = sndbuf /\ inData' = inData
      /\ peerFin' = peerFin /\ reset' = reset
      /\ calling_functors' = calling_functors /\ next' = next
      /\ HandleClose
  BY DEF HandleReadEof, HandleHup, Handling, peerVars, dataVars
<1>2. state # "kConnecting"
  BY <1>1 DEF IInv, Fresh
<1>3. CASE state = "kDisconnected"
  <2>1. /\ state' = state /\ registered' = registered /\ events' = events
        /\ aborted' = aborted /\ owned' = owned
        /\ pedding_functors' = pedding_functors /\ closes' = closes /\ destroyed' = destroyed
    BY <1>1, <1>3 DEF HandleClose, AlreadyClosed
  <2>2. TypeOK'
    BY <1>0, <1>1, <2>1, QueueTypes DEF TypeOK
  <2> QED
    BY <1>1, <1>2, <2>1, <2>2, EndStep
<1>4. CASE state # "kDisconnected"
  <2>1. /\ state' = "kDisconnected" /\ events' = {} /\ closes' = closes + 1
        /\ IF owner = "server"
           THEN owned' = FALSE /\ pedding_functors' = Append(pedding_functors, "DestroyConnection")
           ELSE UNCHANGED <<owned, pedding_functors>>
    BY <1>1, <1>4 DEF HandleClose, AlreadyClosed, DisableAll
  <2>2. registered' \in BOOLEAN /\ aborted' \in BOOLEAN
    BY Zenon, <1>1, <1>4 DEF HandleClose, AlreadyClosed
  <2>3. owned' \in BOOLEAN
    <3>1. owned' = FALSE \/ owned' = owned
      BY <2>1
    <3> QED
      BY Zenon, <1>0, <3>1 DEF TypeOK
  <2>4. pedding_functors' \in Seq(Functor)
    BY <1>0, <2>1, QueueTypes DEF TypeOK
  <2>5. TypeOK'
    BY <1>0, <1>1, <2>1, <2>2, <2>3, <2>4, QueueTypes DEF TypeOK, State
  <2> QED
    BY <1>1, <1>2, <1>4, <2>1, <2>5, EndStep
<1> QED
  BY <1>3, <1>4

\* HandleWrite(): what the kernel takes leaves the buffer, and an empty buffer
\* is no longer watched.
LEMMA HandleWriteStep == ASSUME IInv, HandleWrite PROVE IInv'
<1> DEFINE k == IF reset THEN 0 ELSE Least(output, Space)
<1>0. TypeOK
  BY DEF IInv
<1>1. /\ owner' = owner /\ user' = user /\ phase' = phase /\ todo' = Tail(todo)
      /\ todo # <<>> /\ state' = state /\ owned' = owned /\ aborted' = aborted
      /\ accepted' = accepted /\ dropped' = dropped /\ closes' = closes /\ destroyed' = destroyed
      /\ owesWriteCb' = owesWriteCb /\ inData' = inData
      /\ peerFin' = peerFin /\ reset' = reset
      /\ calling_functors' = calling_functors /\ next' = next
      /\ sndbuf' = sndbuf + k /\ written' = written + k /\ output' = output - k
  BY DEF HandleWrite, Handling, peerVars, Pop
<1>2. k \in Nat /\ k <= output /\ k <= SockCap - sndbuf /\ output \in Nat /\ written \in Nat
      /\ sndbuf \in 0..SockCap /\ SockCap \in Nat
  BY <1>0, SizeAssumption DEF TypeOK, Least, Space
<1> HIDE DEF k
<1>3. sndbuf' \in 0..SockCap /\ written' \in Nat /\ output' \in Nat
  BY <1>1, <1>2
<1>4. state # "kConnecting"
  BY <1>1 DEF IInv, Fresh
<1>5. \/ /\ ~reset /\ output' = 0 /\ Drained
      \/ /\ events' = events /\ registered' = registered
         /\ pedding_functors' = pedding_functors /\ finSent' = finSent
         /\ reset \/ output' # 0
  BY <1>1 DEF HandleWrite
<1>6. /\ events' \in SUBSET {"read", "write"} /\ registered' \in BOOLEAN
      /\ pedding_functors' \in Seq(Functor) /\ finSent' \in BOOLEAN
  <2>1. CASE Drained
    <3>1. registered' \in BOOLEAN /\ finSent' \in BOOLEAN
      BY Zenon, <2>1 DEF Drained
    <3>2. pedding_functors' \in Seq(Functor)
      BY <1>0, <2>1, QueueTypes DEF Drained
    <3> QED
      BY <1>0, <2>1, <3>1, <3>2 DEF Drained, TypeOK
  <2>2. CASE ~Drained
    BY <1>0, <1>5, <2>2 DEF TypeOK
  <2> QED
    BY <2>1, <2>2
<1>7. TypeOK'
  BY <1>0, <1>1, <1>3, <1>6, QueueTypes DEF TypeOK
<1>8. DataKept'
  BY <1>0, <1>1, <1>2 DEF IInv, DataKept, TypeOK
<1>9. Fresh' /\ CloseEnds'
  BY <1>1, <1>4 DEF IInv, Fresh, CloseEnds
<1>10. FinLast'
  <2>1. CASE output' = 0 /\ Drained
    <3>1. finSent' => finSent \/ state = "kHalfShutdown"
      BY <2>1 DEF Drained
    <3> QED
      BY <1>1, <2>1, <3>1 DEF IInv, FinLast
  <2>2. CASE finSent' = finSent
    <3>1. output = 0 => output' = 0
      BY <1>1, <1>2
    <3> QED
      BY <1>1, <2>2, <3>1 DEF IInv, FinLast
  <2> QED
    BY <1>5, <2>1, <2>2
<1>11. OutputIffWriting'
  <2>1. CASE ~reset /\ output' = 0 /\ Drained
    BY <2>1 DEF OutputIffWriting, IsWriting, Drained
  <2>2. CASE events' = events /\ reset
    <3>1. k = 0
      BY <2>2 DEF k
    <3> QED
      BY <1>1, <1>2, <2>2, <3>1 DEF IInv, OutputIffWriting, IsWriting
  <2>3. CASE events' = events /\ output' # 0
    BY <1>1, <1>2, <1>3, <2>3 DEF IInv, OutputIffWriting, IsWriting
  <2> QED
    BY <1>5, <2>1, <2>2, <2>3
<1> QED
  BY <1>7, <1>8, <1>9, <1>10, <1>11 DEF IInv

\* Shutdown(): FIN goes out at once when nothing waits.
LEMMA ShutdownStep == ASSUME IInv, Shutdown PROVE IInv'
<1>1. /\ owner' = owner /\ user' = user /\ phase' = phase /\ todo' = todo
      /\ state = "kEstablished" /\ state' = "kHalfShutdown"
      /\ registered' = registered /\ events' = events
      /\ owned' = owned /\ aborted' = aborted
      /\ output' = output /\ written' = written /\ sndbuf' = sndbuf
      /\ accepted' = accepted /\ dropped' = dropped /\ closes' = closes /\ destroyed' = destroyed
      /\ owesWriteCb' = owesWriteCb /\ inData' = inData
      /\ peerFin' = peerFin /\ reset' = reset
      /\ pedding_functors' = pedding_functors
      /\ calling_functors' = calling_functors /\ next' = next
  BY DEF Shutdown, loopVars, functorVars, peerVars, dataVars
<1>2. finSent' \in BOOLEAN
  BY Zenon DEF Shutdown, FinNow
<1>3. TypeOK'
  BY <1>1, <1>2 DEF IInv, TypeOK, State
<1>4. finSent' => output = 0
  BY <1>1 DEF IInv, FinLast, OutputIffWriting, Shutdown, FinNow, TypeOK
<1>5. DataKept' /\ FinLast' /\ OutputIffWriting' /\ Fresh' /\ CloseEnds'
  BY <1>1, <1>4 DEF IInv, DataKept, FinLast, OutputIffWriting, Fresh, CloseEnds, IsWriting
<1> QED
  BY <1>3, <1>5 DEF IInv

\* Send(): what is accepted is written, waits or, after a reset, is lost; what
\* waits is watched, and FIN of the watermark goes out only when nothing does.
LEMMA SendStep == ASSUME IInv, NEW n \in 1..MaxSend, Send(n) PROVE IInv'
<1>0. TypeOK
  BY DEF IInv
<1>1. /\ owner' = owner /\ user' = user /\ phase' = phase /\ todo' = todo
      /\ state = "kEstablished" /\ owned' = owned /\ aborted' = aborted
      /\ accepted' = accepted + n /\ closes' = closes /\ destroyed' = destroyed
      /\ inData' = inData /\ peerFin' = peerFin /\ reset' = reset
      /\ calling_functors' = calling_functors /\ next' = next
  BY DEF Send, loopVars, peerVars
<1>2. owesWriteCb' \in BOOLEAN
  BY Zenon DEF Send
<1>3. /\ n \in Nat /\ n # 0 /\ output \in Nat /\ sndbuf \in 0..SockCap /\ written \in Nat
      /\ SockCap \in Nat /\ dropped \in Nat /\ accepted \in Nat
      /\ accepted = written + output + dropped /\ (dropped > 0 => reset)
      /\ (output > 0 <=> "write" \in events) /\ ~finSent /\ closes = 0
      /\ events \in SUBSET {"read", "write"} /\ registered \in BOOLEAN
      /\ pedding_functors \in Seq(Functor)
  BY <1>0, <1>1, SizeAssumption
     DEF TypeOK, IInv, DataKept, FinLast, OutputIffWriting, IsWriting, CloseEnds
\* What SendUnsafe() leaves, before the watermark.
<1> DEFINE Left == /\ events' \in SUBSET {"read", "write"} /\ registered' \in BOOLEAN
                   /\ pedding_functors' \in Seq(Functor)
                   /\ output' \in Nat /\ written' \in Nat /\ dropped' \in Nat
                   /\ sndbuf' \in 0..SockCap
                   /\ accepted' = written' + output' + dropped'
                   /\ dropped' > 0 => reset
                   /\ output' > 0 <=> "write" \in events'
<1>4. Left
  <2>0. EnableWrite => /\ events' \in SUBSET {"read", "write"} /\ "write" \in events'
                       /\ registered' \in BOOLEAN
    <3>1. EnableWrite => registered' \in BOOLEAN
      BY Zenon DEF EnableWrite
    <3> QED
      BY <1>3, <3>1 DEF EnableWrite
  <2>1. CASE IsWriting \/ output > 0
    <3>1. /\ output' = output + n /\ sndbuf' = sndbuf /\ written' = written
          /\ pedding_functors' = pedding_functors /\ dropped' = dropped
          /\ events' = events /\ registered' = registered /\ "write" \in events
      BY <1>3, <2>1 DEF Send, Append2Output, IsWriting
    <3> QED
      BY <1>1, <1>3, <3>1
  <2>2. CASE ~(IsWriting \/ output > 0)
    <3>0. WriteDirectly(n) /\ output = 0 /\ "write" \notin events
      BY <1>3, <2>2 DEF Send, IsWriting
    <3>1. CASE reset
      <4>1. /\ dropped' = dropped + n /\ output' = output /\ sndbuf' = sndbuf
            /\ written' = written /\ events' = events /\ registered' = registered
            /\ pedding_functors' = pedding_functors
        BY <3>0, <3>1 DEF WriteDirectly, dataVars
      <4> QED
        BY <1>1, <1>3, <3>0, <3>1, <4>1
    <3>2. CASE ~reset
      <4> DEFINE k == Least(n, Space)
      <4>1. /\ sndbuf' = sndbuf + k /\ written' = written + k /\ output' = n - k
            /\ dropped' = dropped
            /\ IF k < n THEN EnableWrite /\ UNCHANGED pedding_functors
               ELSE /\ pedding_functors' = Append(pedding_functors, "write_cb")
                    /\ UNCHANGED <<events, registered>>
        BY <3>0, <3>2 DEF WriteDirectly
      <4>2. k \in Nat /\ k <= n /\ k <= SockCap - sndbuf
        BY <1>3 DEF Least, Space
      <4> HIDE DEF k
      <4>3. /\ output' \in Nat /\ written' \in Nat /\ dropped' \in Nat
            /\ sndbuf' \in 0..SockCap
            /\ accepted' = written' + output' + dropped'
            /\ (output' > 0 <=> k < n)
        BY <1>1, <1>3, <3>0, <4>1, <4>2
      <4>4. CASE k < n
        BY <1>3, <2>0, <4>1, <4>3, <4>4
      <4>5. CASE ~(k < n)
        <5>1. /\ pedding_functors' \in Seq(Functor) /\ events' = events
              /\ registered' = registered
          BY <1>0, <4>1, <4>5, QueueTypes
        <5> QED
          BY <1>3, <3>0, <4>1, <4>3, <4>5, <5>1
      <4> QED
        BY <4>4, <4>5
    <3> QED
      BY <3>1, <3>2
  <2> QED
    BY <2>1, <2>2
<1>5. \/ state' = state /\ finSent' = finSent
      \/ state' = "kHalfShutdown" /\ finSent' = ("write" \notin events')
  BY DEF Send
<1>6. finSent' \in BOOLEAN
  <2>1. CASE finSent' = finSent
    BY <1>0, <2>1 DEF TypeOK
  <2>2. CASE finSent' = ("write" \notin events')
    BY Zenon, <2>2
  <2> QED
    BY <1>5, <2>1, <2>2
<1>7. state' \in {"kEstablished", "kHalfShutdown"}
  BY <1>1, <1>5
<1>8. TypeOK'
  BY <1>0, <1>1, <1>2, <1>3, <1>4, <1>6, <1>7 DEF TypeOK, State
<1>9. DataKept' /\ OutputIffWriting' /\ Fresh'
  BY <1>1, <1>4, <1>7 DEF DataKept, OutputIffWriting, IsWriting, Fresh
<1>10. FinLast'
  <2>1. CASE finSent' = finSent
    BY <1>3, <2>1 DEF FinLast
  <2>2. CASE state' = "kHalfShutdown" /\ finSent' = ("write" \notin events')
    <3>1. finSent' => "write" \notin events'
      BY <2>2
    <3>2. "write" \notin events' => output' = 0
      BY <1>4
    <3> QED
      BY <2>2, <3>1, <3>2 DEF FinLast
  <2> QED
    BY <1>5, <2>1, <2>2
<1>11. CloseEnds'
  BY <1>1, <1>3 DEF CloseEnds
<1> QED
  BY <1>8, <1>9, <1>10, <1>11 DEF IInv

\* Every step keeps the invariant.
LEMMA NextIInv == ASSUME IInv, [Next]_vars PROVE IInv'
<1>1. CASE UNCHANGED vars
  <2>1. /\ owner' = owner /\ state' = state /\ events' = events /\ registered' = registered
        /\ aborted' = aborted /\ owned' = owned /\ user' = user
        /\ output' = output /\ written' = written /\ finSent' = finSent
        /\ accepted' = accepted /\ dropped' = dropped /\ closes' = closes /\ destroyed' = destroyed
        /\ owesWriteCb' = owesWriteCb /\ sndbuf' = sndbuf /\ inData' = inData
        /\ peerFin' = peerFin /\ reset' = reset /\ phase' = phase /\ todo' = todo
        /\ pedding_functors' = pedding_functors
        /\ calling_functors' = calling_functors /\ next' = next
    BY <1>1 DEF vars, loopVars, functorVars, peerVars, dataVars
  <2>2. TypeOK'
    BY <2>1 DEF IInv, TypeOK
  <2> QED
    BY <2>1, <2>2
       DEF IInv, DataKept, FinLast, OutputIffWriting, Fresh, CloseEnds, IsWriting
<1>2. CASE NewConnection
  BY <1>2, NewConnectionStep
<1>3. CASE UserReturns \/ PollUntil \/ OtherCallback \/ ClientReplaces
           \/ HandleReadData \/ HandleError
  BY <1>3, CallbackStep
<1>4. CASE SwapFunctors \/ RunWriteCb \/ FunctorsDone
           \/ PeerSends \/ PeerShutsDown \/ PeerResets \/ PeerReads
  BY <1>4, FunctorStep
<1>5. CASE OwnerDestroyed \/ RunDestroyConnection
  BY <1>5, DestroyStep
<1>6. CASE HandleReadEof \/ HandleHup
  BY <1>6, CloseStep
<1>7. CASE HandleWrite
  BY <1>7, HandleWriteStep
<1>8. CASE Shutdown
  BY <1>8, ShutdownStep
<1>9. CASE \E n \in 1..MaxSend : Send(n)
  BY <1>9, SendStep
<1> QED
  BY <1>1, <1>2, <1>3, <1>4, <1>5, <1>6, <1>7, <1>8, <1>9 DEF Next, LoopSteps

\* The invariant of any connection.
LEMMA Invariance == Spec => []IInv
<1>1. IInv /\ [Next]_vars => IInv'
  BY NextIInv
<1> QED
  BY InitIInv, <1>1, PTL DEF Spec

\* Whatever is sent and whatever the kernel takes, output_buffer_ holds data
\* exactly when the channel of a live connection listens for writability.
THEOREM Writing == Spec => []OutputIffWriting
<1>1. IInv => OutputIffWriting
  BY DEF IInv
<1> QED
  BY Invariance, <1>1, PTL

\* close_cb_ is called once at most, whichever of end of file, POLLHUP and the
\* owner's destructor come, in whatever order.
THEOREM ClosesOnce == Spec => []ClosedOnce
<1>1. IInv => ClosedOnce
  BY DEF IInv, CloseEnds, ClosedOnce
<1> QED
  BY Invariance, <1>1, PTL

-----------------------------------------------------------------------------
(* Why connections end.                                                    *)

\* Which queue holds a DestroyConnection().
LEMMA DestroysFacts ==
    ASSUME NEW q \in Seq(Functor)
    PROVE  /\ ~Destroys(<<>>, 1)
           /\ Destroys(Append(q, "write_cb"), 1) <=> Destroys(q, 1)
           /\ Destroys(Append(q, "DestroyConnection"), 1)
           /\ \A i \in Nat : i > Len(q) => ~Destroys(q, i)
           /\ \A i \in Nat : i \in 1..Len(q) /\ q[i] # "DestroyConnection" =>
                  (Destroys(q, i) <=> Destroys(q, i + 1))
           /\ \A i \in Nat : i \in 1..Len(q) /\ q[i] = "DestroyConnection" => Destroys(q, 1)
<1>0. Len(q) \in Nat
  OBVIOUS
<1>1. ~Destroys(<<>>, 1)
  BY DEF Destroys
<1>2. \A f \in Functor :
          /\ Len(Append(q, f)) = Len(q) + 1
          /\ Append(q, f)[Len(q) + 1] = f
          /\ \A i \in 1..Len(q) : Append(q, f)[i] = q[i]
  BY AppendProperties
<1>3. "write_cb" \in Functor /\ "DestroyConnection" \in Functor
  BY DEF Functor
<1>4. Destroys(Append(q, "write_cb"), 1) <=> Destroys(q, 1)
  BY <1>0, <1>2, <1>3 DEF Destroys
<1>5. Destroys(Append(q, "DestroyConnection"), 1)
  <2> DEFINE r == Append(q, "DestroyConnection")
  <2>1. Len(q) + 1 \in 1..Len(r) /\ Len(q) + 1 >= 1 /\ r[Len(q) + 1] = "DestroyConnection"
    BY <1>0, <1>2, <1>3
  <2> HIDE DEF r
  <2>2. Destroys(r, 1)
    BY <2>1 DEF Destroys
  <2> QED
    BY <2>2 DEF r
<1>6. \A i \in Nat : i > Len(q) => ~Destroys(q, i)
  BY <1>0 DEF Destroys
<1>7. \A i \in Nat : i \in 1..Len(q) /\ q[i] # "DestroyConnection" =>
          (Destroys(q, i) <=> Destroys(q, i + 1))
  <2> SUFFICES ASSUME NEW i \in 1..Len(q), q[i] # "DestroyConnection"
               PROVE  Destroys(q, i) <=> Destroys(q, i + 1)
    OBVIOUS
  <2>1. \A j \in 1..Len(q) : q[j] = "DestroyConnection" => (j >= i <=> j >= i + 1)
    BY <1>0
  <2> QED
    BY <2>1 DEF Destroys
<1>8. \A i \in Nat : i \in 1..Len(q) /\ q[i] = "DestroyConnection" => Destroys(q, 1)
  BY <1>0 DEF Destroys
<1> QED
  BY <1>1, <1>4, <1>5, <1>6, <1>7, <1>8

\* Taking the next callback leaves the others.
LEMMA PendsFacts ==
    ASSUME TypeOK, todo # <<>>, todo' = Tail(todo)
    PROVE  /\ \A h : Pends(h)' => Pends(h)
           /\ Pends(Head(todo))
           /\ \A h : Pends(h) /\ h # Head(todo) => Pends(h)'
<1> DEFINE All == Handler \cup {"other", "connector"}
<1>1. todo \in Seq(All)
  BY DEF TypeOK
<1> HIDE DEF All
<1>2. /\ Len(todo) \in Nat /\ Len(todo) # 0 /\ DOMAIN todo = 1..Len(todo)
      /\ Head(todo) = todo[1]
      /\ DOMAIN Tail(todo) = 1..(Len(todo) - 1)
      /\ \A i \in 1..(Len(todo) - 1) : Tail(todo)[i] = todo[i + 1]
  BY <1>1
<1>3. ASSUME NEW h, NEW i \in DOMAIN Tail(todo), Tail(todo)[i] = h
      PROVE  i + 1 \in DOMAIN todo /\ todo[i + 1] = h
  BY <1>2, <1>3
<1>4. ASSUME NEW h, NEW i \in DOMAIN todo, todo[i] = h, h # Head(todo)
      PROVE  i - 1 \in DOMAIN Tail(todo) /\ Tail(todo)[i - 1] = h
  <2>1. i # 1 /\ i \in 1..Len(todo)
    BY <1>2, <1>4
  <2>2. i - 1 \in 1..(Len(todo) - 1) /\ (i - 1) + 1 = i
    BY <1>2, <2>1
  <2> QED
    BY <1>2, <1>4, <2>2
<1>5. Pends(Head(todo))
  BY <1>2 DEF Pends
<1>6. \A h : Pends(h)' => Pends(h)
  BY <1>3 DEF Pends
<1>7. \A h : Pends(h) /\ h # Head(todo) => Pends(h)'
  BY <1>4 DEF Pends
<1> QED
  BY <1>5, <1>6, <1>7

\* A step that closes nothing and queues no DestroyConnection().
LEMMA CausesKept ==
    ASSUME TypeOK, Causes, todo' = todo \/ (todo # <<>> /\ todo' = Tail(todo)),
           state' = state, events' \subseteq events, owned' = owned, destroyed' = destroyed,
           next' >= 1,
           reset => reset', peerFin => peerFin',
           Destroys(pedding_functors', 1) \/ Destroys(calling_functors', 1) =>
               Destroys(pedding_functors, 1) \/ Destroys(calling_functors, 1)
    PROVE  Causes'
<1>1. \A h : Pends(h)' => Pends(h)
  <2>1. CASE todo' = todo
    BY <2>1 DEF Pends
  <2>2. CASE todo # <<>> /\ todo' = Tail(todo)
    BY <2>2, PendsFacts
  <2> QED
    BY <2>1, <2>2
<1>2. Cause => Cause'
  BY DEF Cause
<1> QED
  BY <1>1, <1>2 DEF Causes

\* The loop's own steps, the callbacks that close nothing, and the peer.
LEMMA PlainCauses ==
    ASSUME IInv, Causes,
           \/ UserReturns \/ OtherCallback \/ HandleReadData \/ HandleError
           \/ HandleWrite \/ SwapFunctors \/ RunWriteCb \/ FunctorsDone
           \/ RunDestroyConnection \/ PeerSends \/ PeerShutsDown \/ PeerResets
           \/ PeerReads \/ UNCHANGED vars
    PROVE  Causes'
<1>0. /\ TypeOK
      /\ pedding_functors \in Seq(Functor) /\ calling_functors \in Seq(Functor)
      /\ next \in Nat /\ next >= 1
  BY DEF IInv, TypeOK, Causes
<1>1. CASE UserReturns
  BY <1>0, <1>1, CausesKept DEF UserReturns, functorVars, peerVars
<1>2. CASE OtherCallback
  BY <1>0, <1>2, CausesKept DEF OtherCallback, Handling, functorVars, peerVars
<1>3. CASE HandleReadData
  BY <1>0, <1>3, CausesKept DEF HandleReadData, Handling, functorVars
<1>4. CASE HandleError
  BY <1>0, <1>4, CausesKept DEF HandleError, Handling, functorVars, peerVars
<1>5. CASE HandleWrite
  <2>1. /\ todo # <<>> /\ todo' = Tail(todo) /\ state' = state /\ owned' = owned
        /\ destroyed' = destroyed /\ reset' = reset /\ peerFin' = peerFin
        /\ events' \subseteq events /\ calling_functors' = calling_functors /\ next' = next
        /\ \/ pedding_functors' = pedding_functors
           \/ pedding_functors' = Append(pedding_functors, "write_cb")
    BY <1>5 DEF HandleWrite, Handling, Drained, peerVars
  <2>2. Destroys(pedding_functors', 1) => Destroys(pedding_functors, 1)
    BY <1>0, <2>1, DestroysFacts
  <2> QED
    BY <1>0, <2>1, <2>2, CausesKept
<1>6. CASE SwapFunctors
  <2>1. ~Destroys(pedding_functors', 1) /\ calling_functors' = pedding_functors
    BY <1>6 DEF SwapFunctors, Destroys
  <2> QED
    BY <1>0, <1>6, <2>1, CausesKept DEF SwapFunctors, peerVars
<1>7. CASE RunWriteCb
  BY <1>0, <1>7, CausesKept DEF RunWriteCb, Running, peerVars
<1>8. CASE FunctorsDone
  <2>1. ~Destroys(calling_functors', 1) /\ pedding_functors' = pedding_functors
    BY <1>8 DEF FunctorsDone, Destroys
  <2> QED
    BY <1>0, <1>8, <2>1, CausesKept DEF FunctorsDone, peerVars
<1>9. CASE RunDestroyConnection
  <2>1. /\ next >= 1 /\ next <= Len(calling_functors)
        /\ calling_functors[next] = "DestroyConnection"
    BY <1>9 DEF RunDestroyConnection, Running, Causes
  <2>2. state = "kDisconnected"
    BY <1>0, <2>1, DestroysFacts DEF Causes
  <2>3. state' = state /\ events' = events
    BY <1>9, <2>2 DEF RunDestroyConnection, DestroyConnection
  <2> QED
    BY <1>0, <1>9, <2>3, CausesKept DEF RunDestroyConnection, Running, peerVars
<1>10. CASE PeerSends \/ PeerShutsDown \/ PeerResets \/ PeerReads
  BY <1>0, <1>10, CausesKept
     DEF PeerSends, PeerShutsDown, PeerResets, PeerReads, notPeer, loopVars, functorVars, peerVars
<1>11. CASE UNCHANGED vars
  BY <1>0, <1>11, CausesKept DEF vars, loopVars, functorVars, peerVars
<1> QED
  BY <1>1, <1>2, <1>3, <1>4, <1>5, <1>6, <1>7, <1>8, <1>9, <1>10, <1>11

\* The poller returns with reports that have a cause.
LEMMA PollCauses == ASSUME IInv, Causes, PollUntil PROVE Causes'
<1>1. todo' \in Seq(Reported \cup Others)
  BY PollTypes
<1>2. /\ state' = state /\ events' = events /\ owned' = owned /\ destroyed' = destroyed
      /\ reset' = reset /\ peerFin' = peerFin /\ pedding_functors' = pedding_functors
      /\ calling_functors' = calling_functors /\ next' = next
  BY DEF PollUntil, functorVars, peerVars
<1>3. \A h : Pends(h)' => h \in Reported \cup Others
  BY <1>1 DEF Pends
<1>4. /\ "close" \in Reported \cup Others => reset \/ peerFin
      /\ "connector" \in Reported \cup Others => state = "kDisconnected"
  BY DEF Reported, Others, Handler
<1>5. Cause' = Cause
  BY <1>2 DEF Cause
<1> QED
  BY <1>2, <1>3, <1>4, <1>5 DEF Causes

\* The connection's callbacks that close it, and those that use it.
LEMMA CloseCauses ==
    ASSUME IInv, Causes, HandleReadEof \/ HandleHup \/ ClientReplaces PROVE Causes'
<1>0. TypeOK /\ pedding_functors \in Seq(Functor)
  BY DEF IInv, TypeOK
<1>1. /\ todo # <<>> /\ todo' = Tail(todo) /\ calling_functors' = calling_functors
      /\ destroyed' = destroyed /\ reset' = reset /\ peerFin' = peerFin /\ next' = next
      /\ HandleReadEof => HandleClose /\ peerFin
      /\ HandleHup => HandleClose /\ Head(todo) = "close"
      /\ ClientReplaces => Head(todo) = "connector"
  BY DEF HandleReadEof, HandleHup, ClientReplaces, Handling, functorVars, peerVars
<1>2. \A h : Pends(h)' => Pends(h)
  BY <1>0, <1>1, PendsFacts
<1>3. Pends(Head(todo)) /\ Cause' = Cause
  BY <1>0, <1>1, PendsFacts DEF Cause
<1>4. state # "kConnecting"
  BY <1>1 DEF IInv, Fresh
<1>5. CASE ClientReplaces
  <2>1. state = "kDisconnected"
    BY <1>1, <1>3, <1>5 DEF Causes
  <2>2. state' = state /\ events' = events /\ pedding_functors' = pedding_functors /\ ~owned'
    BY <1>5 DEF ClientReplaces, functorVars
  <2> QED
    BY <1>1, <1>2, <1>3, <2>1, <2>2 DEF Causes
<1>6. CASE HandleReadEof \/ HandleHup
  <2>1. HandleClose /\ Cause
    BY <1>1, <1>3, <1>6 DEF Causes, Cause
  <2>2. CASE state = "kDisconnected"
    BY <1>0, <1>1, <2>1, <2>2, CausesKept DEF HandleClose, AlreadyClosed, Causes
  <2>3. CASE state # "kDisconnected"
    <3>1. state' = "kDisconnected" /\ events' = {} /\ (owned' => owned)
      BY <2>1, <2>3 DEF HandleClose, AlreadyClosed, DisableAll
    <3> QED
      BY <1>1, <1>2, <1>3, <2>1, <3>1 DEF Causes
  <2> QED
    BY <2>2, <2>3
<1> QED
  BY <1>5, <1>6

\* NewConnection(), Shutdown() and Send() need a connection that is not closed.
LEMMA UseCauses ==
    ASSUME IInv, Causes, NewConnection \/ Shutdown \/ \E n \in 1..MaxSend : Send(n)
    PROVE  Causes'
<1>0. pedding_functors \in Seq(Functor)
  BY DEF IInv, TypeOK
<1>1. /\ state # "kDisconnected" /\ state' \in {"kEstablished", "kHalfShutdown"}
      /\ todo' = todo /\ calling_functors' = calling_functors /\ next' = next
      /\ destroyed' = destroyed /\ reset' = reset /\ peerFin' = peerFin
      /\ state = "kConnecting" \/ owned' = owned
      /\ state = "kConnecting" => owned'
  <2>1. CASE NewConnection
    BY <2>1 DEF NewConnection, functorVars, peerVars
  <2>2. CASE Shutdown
    BY <2>2 DEF Shutdown, functorVars, loopVars, peerVars
  <2>3. CASE \E n \in 1..MaxSend : Send(n)
    BY <2>3 DEF Send, loopVars, peerVars
  <2> QED
    BY <2>1, <2>2, <2>3
<1>2. \/ pedding_functors' = pedding_functors
      \/ pedding_functors' = Append(pedding_functors, "write_cb")
  BY DEF NewConnection, Shutdown, Send, Append2Output, WriteDirectly, functorVars
<1>3. ~Destroys(pedding_functors', 1) /\ ~Destroys(calling_functors, 1)
  BY <1>0, <1>1, <1>2, DestroysFacts DEF Causes
<1>4. (\A h : Pends(h)' <=> Pends(h)) /\ Cause' = Cause
  BY <1>1 DEF Pends, Cause
<1> QED
  BY <1>1, <1>3, <1>4 DEF Causes

\* The destructor of the owner is a cause itself.
LEMMA OwnerCauses == ASSUME IInv, Causes, OwnerDestroyed PROVE Causes'
<1>1. /\ todo' = todo /\ pedding_functors' = pedding_functors
      /\ calling_functors' = calling_functors /\ next' = next /\ ~owned' /\ owned
      /\ destroyed' # "no" /\ reset' = reset /\ peerFin' = peerFin
      /\ \/ state' = state /\ events' = events
         \/ state' = "kDisconnected" /\ events' = {}
  BY DEF OwnerDestroyed, DestroyConnection, loopVars, functorVars, peerVars
<1>2. (\A h : Pends(h)' <=> Pends(h)) /\ Cause'
  BY <1>1 DEF Pends, Cause
<1>3. state # "kConnecting"
  BY <1>1 DEF IInv, Fresh
<1> QED
  BY <1>1, <1>2, <1>3 DEF Causes

\* Whatever ends a connection is the peer or the owner's destructor.
LEMMA CausesInvariance == Spec => []Causes
<1>1. Init => Causes
  BY DEF Init, Causes, Pends, Destroys
<1>2. ASSUME IInv, Causes, [Next]_vars PROVE Causes'
  BY <1>2, PlainCauses, PollCauses, CloseCauses, UseCauses, OwnerCauses DEF Next, LoopSteps
<1> QED
  BY Invariance, <1>1, <1>2, PTL DEF Spec

\* What is lost when no HandleWrite() can follow.
Gone == Freed \/ (state = "kDisconnected" /\ ~Pends("write"))

\* FIN follows the last unit accepted, and units are lost only to a write error
\* after a reset or with a connection that ended for a cause: for any sizes and
\* either owner.
THEOREM FinIsLast == Spec => []FinAfterData
<1>1. IInv /\ Causes => FinAfterData
  <2> SUFFICES ASSUME IInv, Causes PROVE FinAfterData
    OBVIOUS
  <2>1. /\ output \in Nat /\ written \in Nat /\ dropped \in Nat
        /\ accepted = written + output + dropped /\ (dropped > 0 => reset)
        /\ finSent => output = 0
    BY DEF IInv, TypeOK, DataKept, FinLast
  <2>2. finSent /\ ~reset => written = accepted
    BY <2>1
  <2>3. Lost = dropped + IF Gone THEN output ELSE 0
    BY DEF Lost, Gone
  <2>4. Lost > 0 => dropped > 0 \/ Gone
    BY <2>1, <2>3
  <2>5. Gone => Cause
    BY DEF Gone, Freed, Causes
  <2> QED
    BY <2>1, <2>2, <2>4, <2>5 DEF FinAfterData, Cause
<1> QED
  BY Invariance, CausesInvariance, <1>1, PTL

-----------------------------------------------------------------------------
(* A server's connection.                                                  *)

\* The callbacks left after the next one.
LEMMA TailOfTodo ==
    ASSUME todo \in Seq(Handler \cup {"other"}), todo # <<>>
    PROVE  /\ Head(todo) \in Handler \cup {"other"}
           /\ Tail(todo) \in Seq(Handler \cup {"other"})
           /\ todo \in Seq({"other"}) => Head(todo) = "other" /\ Tail(todo) \in Seq({"other"})
BY HeadTailProperties

\* A step that only moves on to the next callback.
Moves ==
    /\ owner' = owner /\ state' = state /\ events' = events /\ registered' = registered
    /\ aborted' = aborted /\ owned' = owned
    /\ phase' = phase
    /\ todo' = todo \/ (todo # <<>> /\ todo' = Tail(todo))
    /\ pedding_functors' = pedding_functors
    /\ calling_functors' = calling_functors /\ next' = next

\* It keeps what holds of a connection of a server.
LEMMA MovesStep == ASSUME Server, Moves PROVE Server'
<1>1. /\ todo' \in Seq(Handler \cup {"other"})
      /\ todo \in Seq({"other"}) => todo' \in Seq({"other"})
      /\ todo' # <<>> => todo # <<>>
  <2>1. todo \in Seq(Handler \cup {"other"})
    BY DEF Server
  <2>2. CASE todo' = todo
    BY <2>1, <2>2
  <2>3. CASE todo # <<>> /\ todo' = Tail(todo)
    BY <2>1, <2>3, TailOfTodo
  <2> QED
    BY <2>2, <2>3 DEF Moves
<1> QED
  BY <1>1 DEF Server, Moves

\* The callbacks that leave the connection alone, and the peer.
LEMMA IdleStep ==
    ASSUME Server,
           \/ UserReturns \/ OtherCallback \/ HandleReadData \/ HandleError
           \/ PeerSends \/ PeerShutsDown \/ PeerResets \/ PeerReads
           \/ UNCHANGED vars
    PROVE  Server'
<1>1. CASE UserReturns
  BY <1>1, MovesStep DEF Moves, UserReturns, functorVars
<1>2. CASE OtherCallback
  BY <1>2, MovesStep DEF Moves, OtherCallback, Handling, functorVars
<1>3. CASE HandleReadData
  BY <1>3, MovesStep DEF Moves, HandleReadData, Handling, functorVars
<1>4. CASE HandleError
  BY <1>4, MovesStep DEF Moves, HandleError, Handling, functorVars
<1>5. CASE PeerSends \/ PeerShutsDown \/ PeerResets \/ PeerReads
  BY <1>5, MovesStep DEF Moves, PeerSends, PeerShutsDown, PeerResets, PeerReads,
                         notPeer, loopVars, functorVars
<1>6. CASE UNCHANGED vars
  BY <1>6, MovesStep DEF Moves, vars, loopVars, functorVars
<1> QED
  BY <1>1, <1>2, <1>3, <1>4, <1>5, <1>6

\* The poller returns: a channel that is not registered is not called.
LEMMA ServerPolls ==
    ASSUME IInv, Server, owner = "server", PollUntil PROVE Server'
<1>1. Others = {"other"}
  BY DEF Others
<1>2. /\ state' = state /\ events' = events /\ registered' = registered
      /\ aborted' = aborted /\ owned' = owned /\ phase = "poll" /\ phase' = "handle"
      /\ pedding_functors' = pedding_functors
      /\ calling_functors' = calling_functors /\ next' = next
  BY DEF PollUntil, functorVars
<1>3. calling_functors = <<>>
  BY <1>2 DEF Server
<1>4. ~Destroys(calling_functors, next)
  BY <1>3 DEF Destroys
<1>5. /\ todo' \in Seq(Handler \cup {"other"})
      /\ ~registered => todo' \in Seq({"other"})
  <2>1. Reported \subseteq Handler
    BY DEF Reported
  <2> QED
    BY <1>1, <2>1, PollTypes
<1> QED
  BY <1>2, <1>3, <1>4, <1>5 DEF Server

\* The loop takes the queue over, runs write_cb_ and is done with the queue.
LEMMA ServerFunctors ==
    ASSUME IInv, Server, SwapFunctors \/ RunWriteCb \/ FunctorsDone PROVE Server'
<1>0. /\ pedding_functors \in Seq(Functor) /\ calling_functors \in Seq(Functor)
      /\ next \in Nat
  BY DEF IInv, TypeOK
<1>1. /\ state' = state /\ events' = events /\ registered' = registered
      /\ aborted' = aborted /\ owned' = owned /\ todo' = todo
  BY DEF SwapFunctors, RunWriteCb, Running, FunctorsDone
<1>2. CASE SwapFunctors
  <2>1. /\ phase' = "functors" /\ calling_functors' = pedding_functors
        /\ pedding_functors' = <<>> /\ next' = 1 /\ todo = <<>> /\ phase = "handle"
    BY <1>2 DEF SwapFunctors
  <2>2. ~Destroys(pedding_functors', 1) /\ ~Destroys(calling_functors, next)
    <3>1. calling_functors = <<>>
      BY <2>1 DEF Server
    <3> QED
      BY <2>1, <3>1 DEF Destroys
  <2>3. todo' \in Seq({"other"}) /\ todo' = <<>>
    BY <1>1, <2>1
  <2> QED
    BY <1>1, <2>1, <2>2, <2>3 DEF Server
<1>3. CASE RunWriteCb
  <2>1. /\ phase' = phase /\ calling_functors' = calling_functors
        /\ pedding_functors' = pedding_functors /\ next' = next + 1
        /\ next <= Len(calling_functors) /\ calling_functors[next] = "write_cb"
    BY <1>3 DEF RunWriteCb, Running
  <2>2. /\ Destroys(calling_functors, next) => Destroys(calling_functors, next + 1)
        /\ next + 1 >= 1
    BY <1>0, <2>1, DestroysFacts DEF Server
  <2> QED
    BY <1>1, <2>1, <2>2 DEF Server
<1>4. CASE FunctorsDone
  <2>1. /\ phase = "functors" /\ calling_functors' = <<>>
        /\ pedding_functors' = pedding_functors /\ next > Len(calling_functors)
        /\ next' = 1
    BY <1>4 DEF FunctorsDone
  <2>2. ~Destroys(calling_functors, next) /\ ~Destroys(calling_functors', 1)
    BY <1>0, <2>1, DestroysFacts
  <2>3. todo = <<>>
    BY <2>1 DEF Server
  <2>4. todo' \in Seq({"other"}) /\ todo' = <<>>
    BY <1>1, <2>3
  <2> QED
    BY <1>1, <2>1, <2>2, <2>4 DEF Server
<1> QED
  BY <1>2, <1>3, <1>4

\* NewConnection() stores the connection, Shutdown() and Send() need an
\* established one and queue no DestroyConnection().
LEMMA ServerUses ==
    ASSUME IInv, Server, NewConnection \/ Shutdown \/ \E n \in 1..MaxSend : Send(n)
    PROVE  Server'
<1>0. pedding_functors \in Seq(Functor)
  BY DEF IInv, TypeOK
<1>1. /\ state # "kDisconnected" /\ state' \in {"kEstablished", "kHalfShutdown"}
      /\ aborted' = aborted /\ owned' /\ phase' = phase /\ todo' = todo
      /\ calling_functors' = calling_functors /\ next' = next
  <2>1. CASE NewConnection
    BY <2>1 DEF NewConnection, functorVars
  <2>2. CASE Shutdown
    BY <2>2 DEF Shutdown, functorVars, loopVars, Server
  <2>3. CASE \E n \in 1..MaxSend : Send(n)
    BY <2>3 DEF Send, loopVars, Server
  <2> QED
    BY <2>1, <2>2, <2>3
<1>2. \/ pedding_functors' = pedding_functors
      \/ pedding_functors' = Append(pedding_functors, "write_cb")
  BY DEF NewConnection, Shutdown, Send, Append2Output, WriteDirectly, functorVars
<1>3. ~Destroys(pedding_functors', 1) /\ ~Destroys(calling_functors, 1)
  <2>1. ~Destroys(pedding_functors, 1) /\ ~Destroys(calling_functors, 1)
    BY <1>1 DEF Server
  <2> QED
    BY <1>0, <1>2, <2>1, DestroysFacts
<1> QED
  BY <1>1, <1>3 DEF Server

\* HandleClose() lets go of the connection and queues DestroyConnection().
LEMMA ServerCloses ==
    ASSUME IInv, Server, owner = "server", HandleReadEof \/ HandleHup PROVE Server'
<1>0. pedding_functors \in Seq(Functor)
  BY DEF IInv, TypeOK
<1>1. /\ owner' = owner /\ phase' = phase /\ todo' = Tail(todo) /\ todo # <<>>
      /\ calling_functors' = calling_functors /\ next' = next
      /\ HandleClose
  BY DEF HandleReadEof, HandleHup, Handling
<1>2. CASE state = "kDisconnected"
  BY <1>1, <1>2, MovesStep DEF HandleClose, AlreadyClosed, Moves
<1>3. CASE state # "kDisconnected"
  <2>1. state \in {"kEstablished", "kHalfShutdown"}
    BY <1>1, <1>3 DEF IInv, Fresh, TypeOK, State
  <2>2. /\ state' = "kDisconnected" /\ events' = {} /\ ~registered' /\ ~owned' /\ ~aborted'
        /\ pedding_functors' = Append(pedding_functors, "DestroyConnection")
    BY <1>1, <1>3, <2>1 DEF HandleClose, AlreadyClosed, DisableAll
  <2>3. Destroys(pedding_functors', 1)
    BY <1>0, <2>2, DestroysFacts
  <2>4. todo' \in Seq(Handler \cup {"other"})
    BY <1>1, TailOfTodo DEF Server
  <2> QED
    BY <1>1, <2>2, <2>3, <2>4 DEF Server
<1> QED
  BY <1>2, <1>3

\* HandleWrite() after the close of the same event may register the channel
\* again: DestroyConnection() is still queued.
LEMMA ServerWrites == ASSUME IInv, Server, HandleWrite PROVE Server'
<1>0. pedding_functors \in Seq(Functor)
  BY DEF IInv, TypeOK
<1>1. /\ phase' = phase /\ todo' = Tail(todo) /\ todo # <<>> /\ Head(todo) = "write"
      /\ state' = state /\ owned' = owned /\ aborted' = aborted
      /\ calling_functors' = calling_functors /\ next' = next
      /\ events' = events \/ events' = events \ {"write"}
  BY DEF HandleWrite, Handling, Drained
<1>2. \/ pedding_functors' = pedding_functors
      \/ pedding_functors' = Append(pedding_functors, "write_cb")
  BY DEF HandleWrite, Drained
<1>3. Destroys(pedding_functors', 1) <=> Destroys(pedding_functors, 1)
  BY <1>0, <1>2, DestroysFacts
<1>4. todo \notin Seq({"other"}) /\ todo' \in Seq(Handler \cup {"other"})
  BY <1>1, TailOfTodo DEF Server
<1>5. state = "kDisconnected" => Destroys(pedding_functors, 1)
  BY <1>4 DEF Server
<1> QED
  BY <1>1, <1>3, <1>4, <1>5 DEF Server

\* DestroyConnection() finds a disconnected channel and takes it out.
LEMMA ServerDestroys == ASSUME IInv, Server, RunDestroyConnection PROVE Server'
<1>0. calling_functors \in Seq(Functor) /\ next \in Nat
  BY DEF IInv, TypeOK
<1>1. /\ phase' = phase /\ todo' = todo /\ owned' = owned
      /\ calling_functors' = calling_functors /\ pedding_functors' = pedding_functors
      /\ next <= Len(calling_functors) /\ calling_functors[next] = "DestroyConnection"
      /\ DestroyConnection
  BY DEF RunDestroyConnection, Running
<1>2. state = "kDisconnected" /\ events = {}
  BY <1>0, <1>1, DestroysFacts DEF Server
<1>3. state' = "kDisconnected" /\ events' = {} /\ ~registered' /\ ~aborted'
  BY <1>1, <1>2 DEF DestroyConnection
<1>4. next' \in Nat /\ next' >= 1
  BY <1>0 DEF RunDestroyConnection, Running
<1> QED
  BY <1>1, <1>2, <1>3, <1>4 DEF Server

\* ~TcpServer(), when this pass makes no more callbacks into an established
\* connection: the channel is disabled and taken out.
LEMMA ServerGoes ==
    ASSUME IInv, Server, owner = "server", OwnerDestroyed, destroyed' # "busy"
    PROVE  Server'
<1>1. /\ phase' = phase /\ todo' = todo /\ ~owned' /\ owned
      /\ calling_functors' = calling_functors /\ pedding_functors' = pedding_functors
      /\ next' = next /\ DestroyConnection
      /\ state # "kHalfShutdown" /\ \A h \in Handler : ~Pends(h)
  BY DEF OwnerDestroyed, loopVars, functorVars
<1>2. state = "kEstablished"
  BY <1>1 DEF Server
<1>3. state' = "kDisconnected" /\ events' = {} /\ ~registered' /\ ~aborted'
  BY <1>1, <1>2 DEF DestroyConnection
<1>4. todo \in Seq({"other"})
  <2>1. todo \in Seq(Handler \cup {"other"})
    BY DEF Server
  <2>2. \A i \in DOMAIN todo : todo[i] = "other"
    BY <1>1, <2>1 DEF Pends
  <2> QED
    BY <2>1, <2>2
<1> QED
  BY <1>1, <1>2, <1>3, <1>4 DEF Server

\* Every step, unless it destroys the TcpServer at a moment the connection is
\* not prepared for.
LEMMA NextServer ==
    ASSUME IInv, Causes, ServerInv, [Next]_vars
    PROVE  ServerInv'
<1>1. owner' = owner
  BY DEF Next, LoopSteps, vars, NewConnection, UserReturns, PollUntil, OtherCallback,
         ClientReplaces, HandleReadData, HandleReadEof, HandleError, HandleWrite, HandleHup,
         SwapFunctors, RunWriteCb, RunDestroyConnection, FunctorsDone, Send, Shutdown,
         OwnerDestroyed, PeerSends, PeerShutsDown, PeerResets, PeerReads, notPeer
<1> SUFFICES ASSUME owner = "server", destroyed' # "busy" PROVE Server'
  BY <1>1 DEF ServerInv
<1>2. Server
  <2>1. OwnerDestroyed \/ destroyed' = destroyed
    BY DEF Next, LoopSteps, vars, NewConnection, UserReturns, PollUntil, OtherCallback,
           ClientReplaces, HandleReadData, HandleReadEof, HandleError, HandleWrite, HandleHup,
           SwapFunctors, RunWriteCb, RunDestroyConnection, FunctorsDone, Send, Shutdown,
           PeerSends, PeerShutsDown, PeerResets, PeerReads, notPeer
  <2>2. OwnerDestroyed => destroyed = "no"
    BY DEF OwnerDestroyed, Causes
  <2> QED
    BY <2>1, <2>2 DEF ServerInv
<1>3. CASE OwnerDestroyed
  BY <1>2, <1>3, ServerGoes
<1>4. ~ClientReplaces
  <2>1. todo # <<>> => Head(todo) # "connector"
    BY <1>2, TailOfTodo DEF Server, Handler
  <2> QED
    BY <2>1 DEF ClientReplaces, Handling
<1>5. CASE \/ UserReturns \/ OtherCallback \/ HandleReadData \/ HandleError
           \/ PeerSends \/ PeerShutsDown \/ PeerResets \/ PeerReads
           \/ UNCHANGED vars
  BY <1>2, <1>5, IdleStep
<1>6. CASE PollUntil
  BY <1>2, <1>6, ServerPolls
<1>7. CASE SwapFunctors \/ RunWriteCb \/ FunctorsDone
  BY <1>2, <1>7, ServerFunctors
<1>8. CASE NewConnection \/ Shutdown \/ \E n \in 1..MaxSend : Send(n)
  BY <1>2, <1>8, ServerUses
<1>9. CASE HandleReadEof \/ HandleHup
  BY <1>2, <1>9, ServerCloses
<1>10. CASE HandleWrite
  BY <1>2, <1>10, ServerWrites
<1>11. CASE RunDestroyConnection
  BY <1>2, <1>11, ServerDestroys
<1> QED
  BY <1>3, <1>4, <1>5, <1>6, <1>7, <1>8, <1>9, <1>10, <1>11 DEF Next, LoopSteps

\* A server destroys a connection only when it is disconnected, when the poller
\* has forgotten its channel and when the pass makes no more callbacks into it;
\* no assert fails before.  The TcpServer itself may be destroyed at any time
\* but one when the connection is half shut down or about to be called.
THEOREM Releases == Spec => []ServerReleases
<1>1. Init => ServerInv
  <2> SUFFICES ASSUME Init PROVE Server
    BY DEF ServerInv
  <2>1. todo \in Seq(Handler \cup {"other"})
    BY DEF Init
  <2>2. ~Destroys(pedding_functors, 1) /\ ~Destroys(calling_functors, 1)
    BY DEF Init, Destroys
  <2> QED
    BY <2>1, <2>2 DEF Init, Server
<1>2. IInv /\ Causes /\ ServerInv /\ [Next]_vars => ServerInv'
  BY NextServer
<1>3. IInv /\ ServerInv => ServerReleases
  <2> SUFFICES ASSUME IInv, Server, owner = "server", Freed
               PROVE  state = "kDisconnected" /\ events = {} /\ Unreachable
    BY DEF ServerReleases, ServerInv, IInv, Alive, Unreachable, Server
  <2>1. state = "kDisconnected" /\ events = {}
    BY DEF Freed, Server, IInv, TypeOK, State
  <2>2. ~Destroys(pedding_functors, 1) /\ ~Destroys(calling_functors, next)
    BY DEF Freed, Destroys
  <2>3. ~registered /\ todo \in Seq({"other"})
    BY <2>1, <2>2 DEF Server
  <2>4. \A i \in DOMAIN todo : todo[i] = "other"
    BY <2>3
  <2> QED
    BY <2>1, <2>3, <2>4 DEF Unreachable, Handler, Pends
<1> QED
  BY Invariance, CausesInvariance, <1>1, <1>2, <1>3, PTL DEF Spec

-----------------------------------------------------------------------------
(* Refinement: the connection as a stream.                                 *)

\* A connection that is shut down has sent FIN exactly when nothing waits.
ShutEnds == state = "kHalfShutdown" => (finSent <=> output = 0)

\* What is lost.
Values ==
    /\ Lost = IF Gone THEN accepted - written ELSE dropped
    /\ output = 0 => Lost = dropped
    /\ Ended \in BOOLEAN

\* All that was not written, once no HandleWrite() can follow.
LEMMA ValuesNow == IInv => Values
<1> SUFFICES ASSUME IInv PROVE Values
  OBVIOUS
<1>1. /\ output \in Nat /\ written \in Nat /\ dropped \in Nat /\ accepted \in Nat
      /\ accepted = written + output + dropped
  BY DEF IInv, TypeOK, DataKept
<1>2. Gone => Lost = dropped + output
  BY DEF Lost, Gone
<1>3. ~Gone => Lost = dropped + 0
  BY DEF Lost, Gone
<1>4. /\ dropped + output = accepted - written /\ dropped + 0 = dropped
      /\ output = 0 => dropped + output = dropped
  BY ONLY <1>1
<1>5. Ended \in BOOLEAN
  BY Zenon DEF Ended
<1> QED
  BY <1>2, <1>3, <1>4, <1>5 DEF Values

\* The same before and after a step.
LEMMA StreamValues ==
    ASSUME IInv, IInv'
    PROVE  /\ Lost = IF Gone THEN accepted - written ELSE dropped
           /\ Lost' = IF Gone' THEN accepted' - written' ELSE dropped'
           /\ output = 0 => Lost = dropped
           /\ output' = 0 => Lost' = dropped'
           /\ Ended \in BOOLEAN /\ Ended' \in BOOLEAN
<1>1. IInv' => Values'
  BY ValuesNow, PTL
<1>2. Values /\ Values'
  BY <1>1, ValuesNow
<1> QED
  BY <1>2 DEF Values

\* What is held stays so while the owner, the callback and the functors do.
LEMMA StaysHeld ==
    ASSUME TypeOK, ~Freed, state # "kConnecting", owned' = owned, user' = user,
           calling_functors' = calling_functors,
           \/ pedding_functors' = pedding_functors
           \/ pedding_functors' = Append(pedding_functors, "write_cb")
    PROVE  ~Freed'
<1>1. Append(pedding_functors, "write_cb") # <<>>
  <2>1. pedding_functors \in Seq(Functor) /\ "write_cb" \in Functor
    BY DEF TypeOK, Functor
  <2> QED
    BY <2>1, AppendProperties
<1> QED
  BY <1>1 DEF Freed

\* A live connection that is called, or is not closed, is held by somebody.
LEMMA CalledIsHeld ==
    ASSUME TypeOK
    PROVE  /\ \A h \in Handler : Handling(h) => ~Freed /\ Pends(h)
           /\ Alive /\ state # "kDisconnected" => ~Freed
<1>1. ASSUME NEW h \in Handler, Handling(h) PROVE ~Freed /\ Pends(h)
  <2>1. todo # <<>> /\ Head(todo) = h /\ todo' = Tail(todo) /\ Alive
    BY <1>1 DEF Handling
  <2>2. Pends(h)
    BY <2>1, PendsFacts
  <2> QED
    BY <2>1, <2>2 DEF Alive
<1> QED
  BY <1>1 DEF Alive

\* Nothing waits when as much was written or lost as was accepted.
LEMMA FinFollowsFact ==
    ASSUME IInv, IInv', ~Freed', finSent' <=> (state' = "kHalfShutdown" /\ output' = 0)
    PROVE  Stream!FinFollows /\ ShutEnds'
<1>1. /\ output' \in Nat /\ written' \in Nat /\ dropped' \in Nat /\ accepted' \in Nat
      /\ accepted' = written' + output' + dropped'
  BY DEF IInv, TypeOK, DataKept
<1>2. written' + dropped' = accepted' <=> output' = 0
  BY <1>1
<1>3. state' = "kHalfShutdown" => Lost' = dropped'
  BY StreamValues DEF Gone
<1>4. Ended' \in BOOLEAN /\ (Ended' <=> finSent')
  BY StreamValues DEF Ended
<1>5. Ended' <=> (state' = "kHalfShutdown" /\ written' + Lost' = accepted')
  BY <1>2, <1>3, <1>4
<1>6. Ended' = (state' = "kHalfShutdown" /\ written' + Lost' = accepted')
  BY Zenon, <1>4, <1>5
<1> QED
  BY <1>6 DEF Stream!FinFollows, ShutEnds

\* A step that writes, accepts and shuts down nothing: it may close the
\* connection, give up what waits, or destroy the object.
Passive ==
    /\ output' = output /\ written' = written /\ dropped' = dropped
    /\ accepted' = accepted /\ finSent' = finSent /\ reset' = reset
    /\ \/ state' = state
       \/ state \in {"kEstablished", "kHalfShutdown"} /\ state' = "kDisconnected"
    /\ Freed => Freed'
    /\ Gone => Gone'

\* The stream sees nothing, or that it closes, is abandoned or is destroyed.
LEMMA PassiveStep ==
    ASSUME IInv, IInv', ShutEnds, Passive
    PROVE  [Stream!Next]_(Stream!vars) /\ ShutEnds'
<1>1. ShutEnds'
  BY DEF Passive, ShutEnds
<1>2. /\ Lost' = Lost \/ (Gone' /\ ~Gone /\ Stream!RestIsLost)
      /\ Gone' => Stream!RestIsLost
      /\ finSent => Lost' = Lost
  <2>1. finSent => output = 0
    BY DEF IInv, FinLast
  <2> QED
    BY <2>1, StreamValues DEF Passive, Stream!RestIsLost
<1>3. CASE Freed' <=> Freed
  <2>1. Ended' = Ended
    <3>1. Ended' <=> Ended
      BY <1>3 DEF Ended, Passive
    <3> QED
      BY Zenon, <3>1, StreamValues
  <2>2. CASE state' # state
    <3>1. Stream!Close
      BY <1>2, <2>1, <2>2 DEF Passive, Stream!Close
    <3> QED
      BY <1>1, <3>1 DEF Stream!Next
  <2>3. CASE state' = state /\ Lost' = Lost
    BY <1>1, <2>1, <2>3 DEF Passive, Stream!vars
  <2>4. CASE state' = state /\ Lost' # Lost
    <3>1. state = "kDisconnected" /\ Stream!RestIsLost
      BY <1>2, <1>3, <2>4 DEF Gone
    <3> QED
      BY <1>1, <2>1, <2>4, <3>1 DEF Passive, Stream!Abandon, Stream!Next
  <2> QED
    BY <1>1, <2>2, <2>3, <2>4
<1>4. CASE Freed' /\ ~Freed
  <2>1. Ended'
    BY <1>4 DEF Ended
  <2>2. Ended' = TRUE
    BY Zenon, <2>1, StreamValues
  <2>3. Stream!RestIsLost /\ state # "kConnecting"
    BY <1>2, <1>4 DEF Gone, Freed, Passive
  <2>4. CASE ~finSent
    <3>1. ~Ended
      BY <1>4, <2>4 DEF Ended
    <3> QED
      BY <1>1, <2>2, <2>3, <3>1 DEF Passive, Stream!Destroy, Stream!Next
  <2>5. CASE finSent
    <3>1. Ended' = Ended
      <4>1. Ended' <=> Ended
        BY <2>1, <2>5 DEF Ended
      <4> QED
        BY Zenon, <4>1, StreamValues
    <3>2. Lost' = Lost
      BY <1>2, <2>5
    <3>3. CASE state' = state
      BY <1>1, <3>1, <3>2, <3>3 DEF Passive, Stream!vars
    <3>4. CASE state' # state
      BY <1>1, <3>1, <3>2, <3>4 DEF Passive, Stream!Close, Stream!Next
    <3> QED
      BY <1>1, <3>3, <3>4
  <2> QED
    BY <2>4, <2>5
<1> QED
  BY <1>3, <1>4 DEF Passive

\* A step that takes a callback, or none, and leaves a closed connection so
\* gives nothing back that was given up.
LEMMA GoneStays ==
    ASSUME TypeOK, todo' = todo \/ (todo # <<>> /\ todo' = Tail(todo)),
           state = "kDisconnected" => state' = "kDisconnected", Freed => Freed'
    PROVE  Gone => Gone'
<1>1. CASE todo' = todo
  BY <1>1 DEF Gone, Pends
<1>2. CASE todo # <<>> /\ todo' = Tail(todo)
  BY <1>2, PendsFacts DEF Gone
<1> QED
  BY <1>1, <1>2

\* The loop's steps, the callbacks that only read or log, and the peer.
LEMMA PassiveSteps ==
    ASSUME IInv, Causes,
           \/ UserReturns \/ PollUntil \/ OtherCallback \/ ClientReplaces
           \/ HandleReadData \/ HandleError \/ SwapFunctors \/ RunWriteCb
           \/ FunctorsDone \/ PeerSends \/ PeerShutsDown \/ PeerReads
           \/ UNCHANGED vars
    PROVE  Passive
<1>0. TypeOK
  BY DEF IInv
<1>1. CASE UserReturns
  <2>1. Freed => Freed'
    BY <1>1 DEF UserReturns, functorVars, Freed
  <2> QED
    BY <1>0, <1>1, <2>1, GoneStays DEF UserReturns, peerVars, dataVars, Passive
<1>2. CASE PollUntil
  <2>1. Freed => Freed'
    BY <1>2 DEF PollUntil, functorVars, Freed
  <2>2. state = "kDisconnected" => ~Pends("write")'
    <3> SUFFICES ASSUME state = "kDisconnected" PROVE ~Pends("write")'
      OBVIOUS
    <3>1. "write" \notin Reported \cup Others
      BY DEF Causes, Reported, Others, IsWriting
    <3>2. todo' \in Seq(Reported \cup Others)
      BY <1>2, PollTypes
    <3> QED
      BY <3>1, <3>2 DEF Pends
  <2>3. state' = state
    BY <1>2 DEF PollUntil
  <2>4. Gone => Gone'
    BY <2>1, <2>2, <2>3 DEF Gone
  <2> QED
    BY <1>2, <2>1, <2>4 DEF PollUntil, peerVars, dataVars, Passive
<1>3. CASE OtherCallback
  <2>1. Freed => Freed'
    BY <1>3 DEF OtherCallback, functorVars, Freed
  <2> QED
    BY <1>0, <1>3, <2>1, GoneStays DEF OtherCallback, Handling, peerVars, dataVars, Passive
<1>4. CASE ClientReplaces
  <2>1. Freed => Freed'
    BY <1>4 DEF ClientReplaces, functorVars, Freed
  <2> QED
    BY <1>0, <1>4, <2>1, GoneStays DEF ClientReplaces, Handling, peerVars, dataVars, Passive
<1>5. CASE HandleReadData
  <2>1. ~Freed
    BY <1>0, <1>5, CalledIsHeld DEF HandleReadData, Handler
  <2> QED
    BY <1>0, <1>5, <2>1, GoneStays DEF HandleReadData, Handling, dataVars, Passive
<1>6. CASE HandleError
  <2>1. Freed => Freed'
    BY <1>6 DEF HandleError, functorVars, Freed
  <2> QED
    BY <1>0, <1>6, <2>1, GoneStays DEF HandleError, Handling, peerVars, dataVars, Passive
<1>7. CASE SwapFunctors
  <2>1. Freed => Freed'
    BY <1>7 DEF SwapFunctors, Freed
  <2> QED
    BY <1>0, <1>7, <2>1, GoneStays DEF SwapFunctors, peerVars, dataVars, Passive
<1>8. CASE RunWriteCb
  <2>1. ~Freed
    BY <1>0, <1>8 DEF RunWriteCb, Running, Freed, Causes, TypeOK
  <2> QED
    BY <1>0, <1>8, <2>1, GoneStays DEF RunWriteCb, Running, peerVars, dataVars, Passive
<1>9. CASE FunctorsDone
  <2>1. Freed => Freed'
    BY <1>9 DEF FunctorsDone, Freed
  <2> QED
    BY <1>0, <1>9, <2>1, GoneStays DEF FunctorsDone, peerVars, dataVars, Passive
<1>10. CASE PeerSends \/ PeerShutsDown \/ PeerReads
  <2>1. Freed => Freed'
    BY <1>10 DEF PeerSends, PeerShutsDown, PeerReads, notPeer, loopVars, functorVars, Freed
  <2> QED
    BY <1>0, <1>10, <2>1, GoneStays
       DEF PeerSends, PeerShutsDown, PeerReads, notPeer, loopVars, peerVars, Passive
<1>11. CASE UNCHANGED vars
  <2>1. Freed => Freed'
    BY <1>11 DEF vars, loopVars, functorVars, Freed
  <2> QED
    BY <1>0, <1>11, <2>1, GoneStays DEF vars, loopVars, peerVars, dataVars, Passive
<1> QED
  BY <1>1, <1>2, <1>3, <1>4, <1>5, <1>6, <1>7, <1>8, <1>9, <1>10, <1>11

\* HandleClose() and DestroyConnection().
LEMMA CloseSteps ==
    ASSUME IInv, Causes,
           HandleReadEof \/ HandleHup \/ OwnerDestroyed \/ RunDestroyConnection
    PROVE  Passive
<1>0. TypeOK
  BY DEF IInv
<1>1. /\ output' = output /\ written' = written /\ finSent' = finSent
      /\ accepted' = accepted /\ dropped' = dropped /\ reset' = reset
      /\ todo' = todo \/ (todo # <<>> /\ todo' = Tail(todo))
  BY DEF HandleReadEof, HandleHup, OwnerDestroyed, RunDestroyConnection, Handling, Running,
         loopVars, peerVars, dataVars
<1>2. \/ state' = state
      \/ state # "kDisconnected" /\ state' = "kDisconnected"
  BY DEF HandleReadEof, HandleHup, OwnerDestroyed, RunDestroyConnection, HandleClose,
         AlreadyClosed, DestroyConnection
<1>3. state # "kConnecting"
  <2>1. HandleReadEof \/ HandleHup => todo # <<>>
    BY DEF HandleReadEof, HandleHup, Handling
  <2>2. OwnerDestroyed => owned
    BY DEF OwnerDestroyed
  <2>3. RunDestroyConnection => phase = "functors"
    BY DEF RunDestroyConnection, Running
  <2> QED
    BY <2>1, <2>2, <2>3 DEF IInv, Fresh
<1>4. ~Freed
  <2>1. HandleReadEof \/ HandleHup => ~Freed
    BY <1>0, CalledIsHeld DEF HandleReadEof, HandleHup, Handler
  <2>2. OwnerDestroyed => ~Freed
    BY DEF OwnerDestroyed, Freed
  <2>3. RunDestroyConnection => ~Freed
    BY <1>0 DEF RunDestroyConnection, Running, Freed, Causes, TypeOK
  <2> QED
    BY <2>1, <2>2, <2>3
<1>5. Gone => Gone'
  BY <1>0, <1>1, <1>2, <1>4, GoneStays
<1>6. state \in State
  BY <1>0 DEF TypeOK
<1> QED
  BY <1>1, <1>2, <1>3, <1>4, <1>5, <1>6 DEF Passive, State

\* HandleWrite() writes more, and sends the FIN that waited for the last of it;
\* called with nothing to write it changes nothing.
LEMMA WriteSteps ==
    ASSUME IInv, IInv', ShutEnds, HandleWrite
    PROVE  Passive \/ (Stream!Write /\ ShutEnds')
<1> DEFINE k == IF reset THEN 0 ELSE Least(output, Space)
<1>1. /\ state' = state /\ accepted' = accepted /\ dropped' = dropped /\ reset' = reset
      /\ written' = written + k /\ output' = output - k
  BY DEF HandleWrite, peerVars, Pop
<1>2. /\ k \in Nat /\ k <= output /\ output \in Nat /\ written \in Nat /\ accepted \in Nat
      /\ dropped \in Nat /\ finSent \in BOOLEAN /\ finSent' \in BOOLEAN
      /\ accepted = written + output + dropped
  BY SizeAssumption DEF IInv, TypeOK, DataKept, Least, Space
<1>3. k # 0 => ~reset
  OBVIOUS
<1> HIDE DEF k
<1>4. /\ ~reset /\ output' = 0 => (finSent' <=> finSent \/ state = "kHalfShutdown")
      /\ reset \/ output' # 0 => finSent' = finSent
  BY DEF HandleWrite, Drained
<1>5. ~Freed /\ Pends("write") /\ ~Gone
  <2>1. Handling("write") /\ TypeOK
    BY DEF HandleWrite, IInv
  <2> QED
    BY <2>1, CalledIsHeld DEF Gone, Handler
<1>6. ~Freed'
  <2>1. /\ owned' = owned /\ user' = user /\ calling_functors' = calling_functors
        /\ \/ pedding_functors' = pedding_functors
           \/ pedding_functors' = Append(pedding_functors, "write_cb")
    BY DEF HandleWrite, Drained
  <2>2. TypeOK /\ state # "kConnecting"
    BY DEF IInv, Fresh, HandleWrite, Handling
  <2> QED
    BY <1>5, <2>1, <2>2, StaysHeld
<1>7. CASE k = 0
  <2>1. output' = output /\ written' = written
    BY <1>1, <1>2, <1>7
  <2>2. finSent' <=> finSent
    BY <1>4, <2>1 DEF ShutEnds
  <2>3. finSent' = finSent
    BY Zenon, <1>2, <2>2
  <2> QED
    BY <1>1, <1>5, <2>1, <2>3 DEF Passive
<1>8. CASE k # 0
  <2>1. ~finSent /\ ~Ended
    BY <1>2, <1>5, <1>8 DEF IInv, FinLast, Ended
  <2>2. finSent' <=> (state' = "kHalfShutdown" /\ output' = 0)
    BY <1>1, <1>3, <1>4, <1>8, <2>1
  <2>3. written' > written /\ written' + dropped <= accepted
    BY <1>1, <1>2, <1>8
  <2>4. Lost = dropped
    BY <1>5, StreamValues
  <2>5. CASE Gone'
    <3>1. state = "kDisconnected" /\ Lost' = accepted' - written'
      BY <1>1, <1>6, <2>5, StreamValues DEF Gone
    <3>2. written' + Lost' <= accepted
      BY <1>1, <1>2, <3>1
    <3> QED
      BY <1>1, <1>3, <1>6, <1>8, <2>1, <2>2, <2>3, <3>1, <3>2, FinFollowsFact
         DEF Stream!Write, Stream!RestIsLost
  <2>6. CASE ~Gone'
    <3>1. Lost' = Lost /\ written' + Lost' <= accepted
      BY <1>1, <2>3, <2>4, <2>6, StreamValues
    <3> QED
      BY <1>1, <1>3, <1>6, <1>8, <2>1, <2>2, <2>3, <3>1, FinFollowsFact DEF Stream!Write
  <2> QED
    BY <2>5, <2>6
<1> QED
  BY <1>7, <1>8

\* A step of user code on an established connection, which stays held.
LEMMA UseFacts ==
    ASSUME IInv, IInv', Alive, state = "kEstablished",
           state' \in {"kEstablished", "kHalfShutdown"},
           owned' = owned, user' = user, calling_functors' = calling_functors,
           \/ pedding_functors' = pedding_functors
           \/ pedding_functors' = Append(pedding_functors, "write_cb")
    PROVE  ~Freed /\ ~Freed' /\ Lost = dropped /\ Lost' = dropped'
<1>1. TypeOK /\ ~Freed
  BY DEF IInv, Alive
<1>2. ~Freed'
  BY <1>1, StaysHeld
<1>3. ~Gone /\ ~Gone'
  BY <1>1, <1>2 DEF Gone
<1> QED
  BY <1>1, <1>2, <1>3, StreamValues

\* No more was written or lost than was accepted.
LEMMA WrittenBound == ASSUME IInv' PROVE written' + dropped' <= accepted'
<1>1. /\ output' \in Nat /\ written' \in Nat /\ dropped' \in Nat /\ accepted' \in Nat
      /\ accepted' = written' + output' + dropped'
  BY DEF IInv, TypeOK, DataKept
<1>2. \A w, o, d \in Nat : w + d <= w + o + d
  OBVIOUS
<1> QED
  BY Zenon, <1>1, <1>2

\* Shutdown() sends FIN at once when nothing waits.
LEMMA ShutdownStreams ==
    ASSUME IInv, IInv', Shutdown PROVE Stream!Shutdown /\ ShutEnds'
<1>1. /\ state = "kEstablished" /\ state' = "kHalfShutdown" /\ ~finSent
      /\ output > 0 <=> IsWriting
      /\ output \in Nat /\ output' = output /\ reset' = reset
      /\ accepted' = accepted /\ written' = written /\ dropped' = dropped
  BY DEF IInv, TypeOK, FinLast, OutputIffWriting, Shutdown, peerVars, dataVars
<1>2. finSent' <=> (state' = "kHalfShutdown" /\ output' = 0)
  <2>1. finSent' <=> finSent \/ ~IsWriting
    BY DEF Shutdown, FinNow
  <2>2. output' = 0 <=> ~IsWriting
    BY <1>1
  <2> QED
    BY <1>1, <2>1, <2>2
<1>3. ~Freed' /\ Lost' = Lost
  BY <1>1, UseFacts DEF Shutdown, functorVars, loopVars
<1>4. Stream!FinFollows /\ ShutEnds'
  BY <1>2, <1>3, FinFollowsFact
<1> QED
  BY <1>1, <1>3, <1>4 DEF Stream!Shutdown

\* Send() writes, keeps or, after a reset, loses what it accepts; FIN of the
\* watermark goes out when nothing waits.
LEMMA SendStreams ==
    ASSUME IInv, IInv', NEW n \in 1..MaxSend, Send(n)
    PROVE  Stream!Send /\ ShutEnds'
<1>1. /\ state = "kEstablished" /\ reset' = reset /\ accepted' = accepted + n
      /\ \/ state' = state /\ finSent' = finSent
         \/ state' = "kHalfShutdown" /\ (finSent' <=> "write" \notin events')
  BY DEF Send, peerVars
<1>2. /\ ~finSent /\ n \in Nat /\ n # 0
      /\ output \in Nat /\ accepted \in Nat /\ written \in Nat /\ dropped \in Nat
  BY <1>1, SizeAssumption DEF IInv, TypeOK, FinLast
<1>3. /\ output' \in Nat /\ written' \in Nat /\ dropped' \in Nat /\ accepted' \in Nat
      /\ accepted' = written' + output' + dropped'
      /\ output' > 0 <=> "write" \in events'
  BY <1>1 DEF IInv, TypeOK, DataKept, OutputIffWriting, IsWriting
<1>4. finSent' <=> (state' = "kHalfShutdown" /\ output' = 0)
  <2>1. output' = 0 <=> "write" \notin events'
    BY <1>3
  <2> QED
    BY <1>1, <1>2, <2>1
<1>5. \/ written' >= written /\ dropped' = dropped
      \/ reset /\ dropped' = dropped + n /\ written' = written
  <2>1. CASE IsWriting \/ output > 0
    BY <1>2, <2>1 DEF Send, Append2Output
  <2>2. CASE ~(IsWriting \/ output > 0)
    <3>1. WriteDirectly(n)
      BY <2>2 DEF Send
    <3>2. CASE reset
      BY <3>1, <3>2 DEF WriteDirectly, dataVars
    <3>3. CASE ~reset
      <4>1. written' = written + Least(n, Space) /\ dropped' = dropped
        BY <3>1, <3>3 DEF WriteDirectly
      <4>2. Least(n, Space) \in Nat
        BY <1>2, SizeAssumption DEF Least, Space, IInv, TypeOK
      <4> QED
        BY <1>2, <4>1, <4>2
    <3> QED
      BY <3>2, <3>3
  <2> QED
    BY <2>1, <2>2
<1>6. ~Freed' /\ Lost = dropped /\ Lost' = dropped'
  <2>1. state' \in {"kEstablished", "kHalfShutdown"}
    BY <1>1
  <2>2. \/ pedding_functors' = pedding_functors
        \/ pedding_functors' = Append(pedding_functors, "write_cb")
    BY DEF Send, Append2Output, WriteDirectly
  <2> QED
    BY <1>1, <2>1, <2>2, UseFacts DEF Send, loopVars
<1>7. accepted' > accepted /\ n = accepted' - accepted /\ written' + dropped' <= accepted'
  <2>1. accepted' = accepted + n
    BY <1>1
  <2>2. accepted' > accepted /\ n = accepted' - accepted
    BY ONLY <1>2, <2>1
  <2>3. written' + dropped' <= accepted'
    BY WrittenBound
  <2> QED
    BY <2>2, <2>3
<1>8. \/ /\ written' >= written /\ written' + dropped <= accepted'
         /\ UNCHANGED dropped
      \/ /\ reset
         /\ dropped' = dropped + (accepted' - accepted)
         /\ UNCHANGED written
  BY <1>5, <1>7
<1>9. state' \in {"kEstablished", "kHalfShutdown"}
  BY <1>1
<1>10. Stream!FinFollows /\ ShutEnds'
  BY <1>4, <1>6, FinFollowsFact
<1> QED
  BY <1>1, <1>6, <1>7, <1>8, <1>9, <1>10 DEF Stream!Send

\* NewConnection() starts the stream, a reset is seen by it.
LEMMA StartAndReset ==
    ASSUME IInv, IInv', ShutEnds, NewConnection \/ PeerResets
    PROVE  (Stream!Establish \/ Stream!PeerResets) /\ ShutEnds'
<1>1. CASE NewConnection
  <2>1. /\ state = "kConnecting" /\ state' = "kEstablished" /\ owned'
        /\ accepted' = accepted /\ written' = written /\ dropped' = dropped
        /\ finSent' = finSent /\ reset' = reset
    BY <1>1 DEF NewConnection, peerVars, dataVars
  <2>2. ~Freed /\ ~Freed' /\ ~Gone /\ ~Gone'
    BY <2>1 DEF Freed, Gone
  <2>3. Lost' = Lost
    BY <2>1, <2>2, StreamValues
  <2>4. Ended' = Ended
    <3>1. Ended' <=> Ended
      BY <2>1, <2>2 DEF Ended
    <3> QED
      BY Zenon, <3>1, StreamValues
  <2> QED
    BY <2>1, <2>3, <2>4 DEF Stream!Establish, ShutEnds
<1>2. CASE PeerResets
  <2>1. /\ state # "kConnecting" /\ ~reset /\ reset' = TRUE /\ state' = state
        /\ accepted' = accepted /\ written' = written /\ dropped' = dropped
        /\ finSent' = finSent /\ output' = output /\ todo' = todo
    BY <1>2 DEF PeerResets, PeerConnected, notPeer, loopVars
  <2>2. Freed' <=> Freed
    BY <1>2 DEF PeerResets, notPeer, loopVars, functorVars, Freed
  <2>3. Gone' <=> Gone
    BY <2>1, <2>2 DEF Gone, Pends
  <2>4. Lost' = Lost
    BY <2>1, <2>3, StreamValues
  <2>5. Ended' = Ended
    <3>1. Ended' <=> Ended
      BY <2>1, <2>2 DEF Ended
    <3> QED
      BY Zenon, <3>1, StreamValues
  <2> QED
    BY <2>1, <2>4, <2>5 DEF Stream!PeerResets, ShutEnds
<1> QED
  BY <1>1, <1>2

\* Every step is a step of the stream or one nobody sees.
LEMMA StreamStep ==
    ASSUME IInv, IInv', Causes, ShutEnds, [Next]_vars
    PROVE  [Stream!Next]_(Stream!vars) /\ ShutEnds'
<1>1. CASE NewConnection \/ PeerResets
  BY <1>1, StartAndReset DEF Stream!Next
<1>2. CASE HandleWrite
  BY <1>2, WriteSteps, PassiveStep DEF Stream!Next
<1>3. ASSUME NEW n \in 1..MaxSend, Send(n)
      PROVE  [Stream!Next]_(Stream!vars) /\ ShutEnds'
  BY <1>3, SendStreams DEF Stream!Next
<1>4. CASE Shutdown
  BY <1>4, ShutdownStreams DEF Stream!Next
<1>5. CASE HandleReadEof \/ HandleHup \/ OwnerDestroyed \/ RunDestroyConnection
  BY <1>5, CloseSteps, PassiveStep
<1>6. CASE \/ UserReturns \/ PollUntil \/ OtherCallback \/ ClientReplaces
           \/ HandleReadData \/ HandleError \/ SwapFunctors \/ RunWriteCb
           \/ FunctorsDone \/ PeerSends \/ PeerShutsDown \/ PeerReads
           \/ UNCHANGED vars
  BY <1>6, PassiveSteps, PassiveStep
<1> QED
  BY <1>1, <1>2, <1>3, <1>4, <1>5, <1>6 DEF Next, LoopSteps

\* For any sizes and either owner, the buffer, the events the channel asks for
\* and the places that send FIN implement a stream: a shutdown ends it behind
\* the last unit, close() wherever it is, and what was not written by then, or
\* when the connection has been closed, counts as lost.
THEOREM Streaming == Spec => ImplementsStream
<1>1. Init => Stream!Init /\ ShutEnds
  <2> SUFFICES ASSUME Init PROVE Stream!Init /\ ShutEnds
    OBVIOUS
  <2>1. IInv
    BY InitIInv
  <2>2. ~Freed /\ ~Gone
    BY DEF Init, Freed, Gone
  <2>3. Ended = FALSE
    BY Zenon, <2>2 DEF Init, Ended
  <2>4. Lost = 0
    BY <2>2 DEF Init, Lost, Gone
  <2> QED
    BY <2>3, <2>4 DEF Init, Stream!Init, ShutEnds
<1>2. IInv /\ IInv' /\ Causes /\ ShutEnds /\ [Next]_vars
      => [Stream!Next]_(Stream!vars) /\ ShutEnds'
  BY StreamStep
<1> QED
  BY Invariance, CausesInvariance, <1>1, <1>2, PTL DEF Spec, ImplementsStream, Stream!Spec
=============================================================================
