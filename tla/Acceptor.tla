------------------------------ MODULE Acceptor ------------------------------
(***************************************************************************)
(* Acceptor (src/src/acceptor.cc) and the TcpServer it hands connections   *)
(* to, on the process's table of descriptors.  When the table is full the  *)
(* Acceptor gives up a descriptor it keeps for this, accepts, closes what  *)
(* it accepted and opens the spare one again: four system calls, between   *)
(* which other threads may open and close descriptors too.                 *)
(***************************************************************************)
EXTENDS Integers, FiniteSets, FiniteSetsExt

CONSTANTS
    MaxFd,       \* number of descriptors the process may have
    MaxClients,  \* bound on the clients that connect
    MaxOthers    \* bound on the descriptors other threads open at a time

ASSUME BoundAssumption ==
    /\ MaxFd \in Nat \ {0, 1} /\ MaxClients \in Nat /\ MaxOthers \in Nat

VARIABLES
    holder,      \* per descriptor: what it is
    listen_fd,   \* channel_.GetFd()
    idle_fd,     \* idle_fd_
    fd_channels, \* the descriptors the poller's map knows
    phase,       \* "poll", in AcceptHandler() "accept", "again" or "open";
                 \* "destroyed"; "aborted" once an assert has failed; "stray"
                 \* once a descriptor of somebody else has been closed: what
                 \* its owner then does is not the Acceptor's
    pending,     \* clients in the listening socket's queue
    \* History.
    disturbed,   \* since the spare descriptor was last opened and then given
                 \* up, another thread opened one or accept() failed
    left,        \* descriptors that destroyed Acceptors left in the map
    came,        \* clients that connected
    served,      \* clients given a connection
    refused      \* clients accepted and closed at once

clientVars == <<pending, came, served, refused>>
vars == <<holder, listen_fd, idle_fd, fd_channels, phase, disturbed, left,
          clientVars>>

Fd == 0..(MaxFd - 1)
Free == {fd \in Fd : holder[fd] = "free"}

\* The kernel hands out the smallest descriptor that is free.
Lowest == Min(Free)

\* A connection is established, or HandleClose() has been called and its
\* DestroyConnection() is queued.
Conn == {fd \in Fd : holder[fd] = "conn"}
Closing == {fd \in Fd : holder[fd] = "closing"}

\* The constructor: the spare descriptor, then the socket.
Init ==
    /\ holder = [fd \in Fd |-> IF fd = 0 THEN "idle"
                               ELSE IF fd = 1 THEN "listen" ELSE "free"]
    /\ idle_fd = 0
    /\ listen_fd = 1
    /\ fd_channels = {1}
    /\ phase = "poll"
    /\ disturbed = FALSE
    /\ left = {}
    /\ pending = 0 /\ came = 0 /\ served = 0 /\ refused = 0

-----------------------------------------------------------------------------
(* Clients and other threads.                                              *)

\* There is a server, and the program goes on.
Serving == phase \in {"poll", "accept", "again", "open"}

ClientConnects ==
    /\ Serving
    /\ came < MaxClients
    /\ came' = came + 1
    /\ pending' = pending + 1
    /\ UNCHANGED <<holder, listen_fd, idle_fd, fd_channels, phase, disturbed, left,
                   served, refused>>

\* Other threads run at any time, also between two system calls of the
\* Acceptor (the FIXME of l. 62).
OtherOpens ==
    /\ Serving \/ phase = "destroyed"
    /\ Free # {}
    /\ Cardinality({fd \in Fd : holder[fd] = "other"}) < MaxOthers
    /\ holder' = [holder EXCEPT ![Lowest] = "other"]
    /\ disturbed' = (disturbed \/ phase \in {"again", "open"})
    /\ UNCHANGED <<listen_fd, idle_fd, fd_channels, phase, left, clientVars>>

OtherCloses(fd) ==
    /\ Serving \/ phase = "destroyed"
    /\ holder[fd] = "other"
    /\ holder' = [holder EXCEPT ![fd] = "free"]
    /\ UNCHANGED <<listen_fd, idle_fd, fd_channels, phase, disturbed, left,
                   clientVars>>

-----------------------------------------------------------------------------
(* AcceptHandler().                                                        *)

\* The poller reports the listening socket.
AcceptHandler ==
    /\ phase = "poll"
    /\ pending > 0
    /\ phase' = "accept"
    /\ UNCHANGED <<holder, listen_fd, idle_fd, fd_channels, disturbed, left,
                   clientVars>>

\* The channel of a new connection, or of a listening socket, is registered:
\* the poller asserts that its map does not know the descriptor.
Register(fd, map) ==
    /\ phase' = IF fd \in map THEN "aborted" ELSE "poll"
    /\ fd_channels' = map \cup {fd}

\* accept() succeeds: TcpServer::NewConnection() makes a connection of it.
Accept ==
    /\ phase = "accept"
    /\ Free # {}
    /\ holder' = [holder EXCEPT ![Lowest] = "conn"]
    /\ Register(Lowest, fd_channels)
    /\ pending' = pending - 1
    /\ served' = served + 1
    /\ UNCHANGED <<listen_fd, idle_fd, disturbed, left, came, refused>>

\* accept() fails for a reason of its own (ENFILE, ECONNABORTED, ...), which
\* is logged.
AcceptFails ==
    /\ phase = "accept"
    /\ phase' = "poll"
    /\ UNCHANGED <<holder, listen_fd, idle_fd, fd_channels, disturbed, left,
                   clientVars>>

\* Mutant: the spare descriptor is not given up.
CloseForgotten(fd) == UNCHANGED holder

\* close(fd): closing -1, or what is not open, does nothing.
Close(fd) ==
    holder' = [x \in Fd |-> IF x = fd THEN "free" ELSE holder[x]]

\* EMFILE: the spare descriptor is given up.
CloseIdle ==
    /\ phase = "accept"
    /\ Free = {}
    /\ Close(idle_fd)
    /\ phase' = IF idle_fd \in Fd /\ holder[idle_fd] # "idle" THEN "stray" ELSE "again"
    /\ UNCHANGED <<listen_fd, idle_fd, fd_channels, disturbed, left, clientVars>>

\* Mutant: the connection that cannot be served is not closed.
KeepRefused == [holder EXCEPT ![Lowest] = "closing"]

\* The second accept() and close(fd) leave the table as it was.
CloseRefused == holder

\* The second accept() fails for lack of a descriptor, or for a reason of its
\* own; idle_fd_ then still names the descriptor that was given up.
AcceptAgain ==
    /\ phase = "again"
    /\ \E fails \in BOOLEAN :
       /\ IF Free # {} /\ ~fails
          THEN /\ holder' = CloseRefused
               /\ pending' = pending - 1
               /\ refused' = refused + 1
               /\ phase' = "open"
          ELSE /\ phase' = "poll"
               /\ UNCHANGED <<holder, pending, refused>>
       /\ disturbed' = (disturbed \/ fails)
    /\ UNCHANGED <<listen_fd, idle_fd, fd_channels, left, came, served>>

\* idle_fd_ = open("/dev/null").
OpenIdle ==
    /\ phase = "open"
    /\ IF Free # {}
       THEN /\ holder' = [holder EXCEPT ![Lowest] = "idle"]
            /\ idle_fd' = Lowest
            /\ disturbed' = FALSE
       ELSE idle_fd' = -1 /\ UNCHANGED <<holder, disturbed>>
    /\ phase' = "poll"
    /\ UNCHANGED <<listen_fd, fd_channels, left, clientVars>>

-----------------------------------------------------------------------------
(* The connections and the end of the server.                              *)

\* Mutant: the channel stays in the poller's map.
UnregisterForgotten(fd) == fd_channels

\* EventLoop::RemoveChannel().
Unregister(fd) == fd_channels \ {fd}

\* HandleClose() removes the channel; RemoveConnection() queues the functor
\* that holds the last pointer.
ConnectionCloses(fd) ==
    /\ phase = "poll"
    /\ fd \in Conn
    /\ holder' = [holder EXCEPT ![fd] = "closing"]
    /\ fd_channels' = Unregister(fd)
    /\ UNCHANGED <<listen_fd, idle_fd, phase, disturbed, left, clientVars>>

\* DoPeddingFunctors() runs the DestroyConnection()s that are queued and
\* destroys the connections, which close their descriptors.
DestroyConnections ==
    /\ phase \in {"poll", "destroyed"}
    /\ Closing # {}
    /\ holder' = [fd \in Fd |-> IF fd \in Closing THEN "free" ELSE holder[fd]]
    /\ UNCHANGED <<listen_fd, idle_fd, fd_channels, phase, disturbed, left,
                   clientVars>>

\* ~TcpServer(): the connections are destroyed, then the Acceptor, which
\* disables its channel and closes both descriptors but does not remove the
\* channel from the poller.
Destroy ==
    /\ phase = "poll"
    /\ holder' = [fd \in Fd |->
                    IF fd \in Conn \cup {listen_fd, idle_fd} THEN "free"
                    ELSE holder[fd]]
    /\ phase' = IF idle_fd \in Fd /\ holder[idle_fd] \in {"closing", "other"}
                THEN "stray" ELSE "destroyed"
    /\ fd_channels' = fd_channels \ Conn
    /\ left' = left \cup {listen_fd}
    /\ pending' = 0
    /\ UNCHANGED <<listen_fd, idle_fd, disturbed, came, served, refused>>

\* Another TcpServer is started, on a loop of its own, whose map is empty, or
\* on the same one.  Without two descriptors the program ends (l. 29, 31).
Start(loop) ==
    LET second == Min(Free \ {Lowest})
    IN  /\ phase = "destroyed"
        /\ Cardinality(Free) >= 2
        /\ holder' = [holder EXCEPT ![Lowest] = "idle", ![second] = "listen"]
        /\ idle_fd' = Lowest
        /\ listen_fd' = second
        /\ Register(second, IF loop = "same" THEN fd_channels ELSE {})
        /\ left' = IF loop = "same" THEN left ELSE {}
        /\ disturbed' = FALSE
        /\ UNCHANGED clientVars

Next ==
    \/ ClientConnects \/ OtherOpens
    \/ \E fd \in Fd : OtherCloses(fd) \/ ConnectionCloses(fd)
    \/ AcceptHandler \/ Accept \/ AcceptFails
    \/ CloseIdle \/ AcceptAgain \/ OpenIdle
    \/ DestroyConnections \/ Destroy
    \/ \E loop \in {"new", "same"} : Start(loop)

\* The loop goes on, and accept() does not fail for ever.
Fairness ==
    /\ WF_vars(AcceptHandler) /\ WF_vars(DestroyConnections)
    /\ SF_vars(Accept) /\ SF_vars(CloseIdle)
    /\ WF_vars(AcceptAgain) /\ WF_vars(OpenIdle)

Spec == Init /\ [][Next]_vars /\ Fairness

-----------------------------------------------------------------------------
(* Properties.                                                             *)

TypeOK ==
    /\ holder \in [Fd -> {"free", "idle", "listen", "conn", "closing", "other"}]
    /\ listen_fd \in Fd /\ idle_fd \in Fd \cup {-1}
    /\ fd_channels \in SUBSET Fd
    /\ phase \in {"poll", "accept", "again", "open", "destroyed", "aborted", "stray"}
    /\ disturbed \in BOOLEAN /\ left \in SUBSET Fd
    /\ pending \in 0..MaxClients /\ served \in 0..MaxClients
    /\ refused \in 0..MaxClients

\* Through any number of refusals the Acceptor keeps track of its spare
\* descriptor: between two calls of AcceptHandler() it has no other than the one
\* idle_fd_ names, and it has that one and l. 65 and l. 84 close nothing else,
\* unless, while the spare one was given up, another thread opened a descriptor
\* (the FIXME of l. 62) or accept() failed (l. 67).
IdleIsReserved ==
    LET spare == {fd \in Fd : holder[fd] = "idle"}
    IN  /\ TypeOK
        /\ phase = "poll" => spare \subseteq {idle_fd}
        /\ ~disturbed => /\ phase # "stray"
                         /\ phase = "poll" => spare = {idle_fd}

\* The poller's map follows the descriptors while their numbers are reused: it
\* has the listening socket, the established connections and what destroyed
\* Acceptors left there, which do not remove their channel (l. 81-85).  The
\* assert on a descriptor that is registered fails for such a number only.
MapFollowsDescriptors ==
    /\ Serving => fd_channels = Conn \cup {listen_fd} \cup left
    /\ phase = "aborted" => \E fd \in left : holder[fd] \in {"conn", "listen"}

\* A client that connects is given a connection or turned away, also with no
\* descriptor left: it does not wait in the queue and keep the loop busy,
\* unless the spare descriptor was lost to another thread or to an accept()
\* that failed (l. 62, 67), or the program ends.
ClientsAreAnswered ==
    (pending > 0) ~> (pending = 0 \/ disturbed \/ phase \in {"destroyed", "aborted"})
=============================================================================
