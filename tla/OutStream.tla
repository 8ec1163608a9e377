------------------------------ MODULE OutStream ------------------------------
(***************************************************************************)
(* What TcpConnection (src/src/include/tcp_connection.h) promises those    *)
(* who send on it: a stream whose units reach the kernel in the order they *)
(* were accepted and whose state only moves forward.  A shutdown ends it   *)
(* behind its last unit.  That every unit arrives is not promised: what    *)
(* still waits is lost when the peer ends or resets the connection first   *)
(* (FIXME at l. 132-133 of tcp_connection.cc) or when the object goes,     *)
(* whose close() ends the stream wherever it is (l. 66).                   *)
(***************************************************************************)
EXTENDS Naturals

VARIABLES
    state,     \* GetState()
    accepted,  \* units Send() took over
    written,   \* units handed to the kernel
    lost,      \* units accepted that never will be
    ended,     \* shutdown() or close(): the peer is told that no more comes
    reset      \* the peer has reset the connection

vars == <<state, accepted, written, lost, ended, reset>>

Init ==
    /\ state = "kConnecting"
    /\ accepted = 0 /\ written = 0 /\ lost = 0
    /\ ended = FALSE /\ reset = FALSE

\* OnEstablished().
Establish ==
    /\ state = "kConnecting"
    /\ state' = "kEstablished"
    /\ UNCHANGED <<accepted, written, lost, ended, reset>>

\* What was accepted and is not written is lost.
RestIsLost == lost' = accepted' - written'

\* FIN is sent the moment a stream that is shut down has nothing left.
FinFollows == ended' = (state' = "kHalfShutdown" /\ written' + lost' = accepted')

\* Send(): some or all of it may be written at once, or all be lost to a
\* reset; at its watermark the stream shuts down.
Send ==
    /\ state = "kEstablished"
    /\ accepted' > accepted
    /\ \/ /\ written' >= written /\ written' + lost <= accepted'
          /\ UNCHANGED lost
       \/ /\ reset
          /\ lost' = lost + (accepted' - accepted)
          /\ UNCHANGED written
    /\ state' \in {"kEstablished", "kHalfShutdown"}
    /\ FinFollows
    /\ UNCHANGED reset

\* More of what was accepted is written, also by a connection that is closed
\* before the poller's events are used up, when nothing more will follow.
Write ==
    /\ ~ended /\ ~reset
    /\ written' > written /\ written' + lost' <= accepted
    /\ UNCHANGED lost \/ (state = "kDisconnected" /\ RestIsLost)
    /\ FinFollows
    /\ UNCHANGED <<state, accepted, reset>>

Shutdown ==
    /\ state = "kEstablished"
    /\ state' = "kHalfShutdown"
    /\ FinFollows
    /\ UNCHANGED <<accepted, written, lost, reset>>

\* HandleClose() or DestroyConnection(): what waits is lost, now or once the
\* event's other handlers have run.
Close ==
    /\ state \in {"kEstablished", "kHalfShutdown"}
    /\ state' = "kDisconnected"
    /\ UNCHANGED lost \/ RestIsLost
    /\ UNCHANGED <<accepted, written, ended, reset>>

\* The handlers of the event that closed the connection are done.
Abandon ==
    /\ state = "kDisconnected"
    /\ RestIsLost
    /\ UNCHANGED <<state, accepted, written, ended, reset>>

\* ~TcpConnection() closes the descriptor.
Destroy ==
    /\ state # "kConnecting" /\ ~ended
    /\ ended' = TRUE
    /\ state' \in {state, "kDisconnected"}
    /\ RestIsLost
    /\ UNCHANGED <<accepted, written, reset>>

PeerResets ==
    /\ state # "kConnecting" /\ ~reset
    /\ reset' = TRUE
    /\ UNCHANGED <<state, accepted, written, lost, ended>>

Next ==
    \/ Establish \/ Send \/ Write \/ Shutdown \/ Close \/ Abandon \/ Destroy
    \/ PeerResets

Spec == Init /\ [][Next]_vars
=============================================================================
