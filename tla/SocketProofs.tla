---------------------------- MODULE SocketProofs ----------------------------
(***************************************************************************)
(* Proofs about Acceptor, for a table of descriptors of any size, any      *)
(* number of clients and any doings of other threads; and about UdpPeer,   *)
(* for datagrams and buffers of any sizes.                                 *)
(*                                                                         *)
(* The two components do not meet: no theorem speaks of both.              *)
(***************************************************************************)
EXTENDS Acceptor, UdpPeer, SequenceTheorems, FiniteSetTheorems,
        WellFoundedInduction, TLAPS

-----------------------------------------------------------------------------
(* Acceptor.                                                               *)

\* A client is in the queue, was served or was refused; while one is being
\* accepted the queue is not empty.
Clients ==
    /\ came \in 0..MaxClients /\ pending \in Nat /\ served \in Nat /\ refused \in Nat
    /\ pending + served + refused <= came
    /\ phase \in {"accept", "again"} => pending > 0

\* The Acceptor has its spare descriptor; or has given it up for the moment,
\* and then some descriptor is free; or it has been disturbed.
Spare ==
    /\ phase \in {"poll", "accept"} =>
           \A fd \in Fd : holder[fd] = "idle" => fd = idle_fd
    /\ phase \in {"again", "open", "destroyed"} => \A fd \in Fd : holder[fd] # "idle"
    /\ ~disturbed =>
           /\ phase # "stray"
           /\ phase \in {"poll", "accept"} => idle_fd \in Fd /\ holder[idle_fd] = "idle"
           /\ phase \in {"again", "open"} => Free # {}

\* The listening socket and the connections are open and registered, or gone;
\* what was left in the map is neither.
Registered ==
    /\ Serving =>
           /\ \A fd \in Fd : holder[fd] = "listen" <=> fd = listen_fd
           /\ \A fd \in Fd : fd \in fd_channels <=> holder[fd] \in {"conn", "listen"} \/ fd \in left
    /\ phase = "destroyed" =>
           /\ \A fd \in Fd : holder[fd] \notin {"conn", "listen"}
           /\ fd_channels = left
    /\ Serving => \A fd \in left : holder[fd] \notin {"conn", "listen"}
    /\ phase = "aborted" => \E fd \in left : holder[fd] \in {"conn", "listen"}

\* The inductive invariant.
IInv == TypeOK /\ Clients /\ Spare /\ Registered

-----------------------------------------------------------------------------
(* The smallest descriptor that is free.                                   *)

\* A set of descriptors has a smallest member.
LEMMA MinOf == ASSUME NEW S \in SUBSET Fd, S # {} PROVE Min(S) \in S
<1>1. S \subseteq Nat
  BY BoundAssumption DEF Fd
<1>2. PICK x \in S : \A y \in S : ~(<<y, x>> \in OpToRel(<, Nat))
  BY <1>1, NatLessThanWellFounded, WFMin
<1>3. \A y \in S : x <= y
  <2> SUFFICES ASSUME NEW y \in S PROVE x <= y
    OBVIOUS
  <2>1. x \in Nat /\ y \in Nat
    BY <1>1
  <2>2. ~(y < x)
    BY <1>2, <2>1 DEF OpToRel
  <2> QED
    BY <2>1, <2>2
<1> QED
  BY <1>3 DEF Min

\* So a descriptor that is handed out was free.
LEMMA LowestIsFree ==
    ASSUME Free # {} PROVE Lowest \in Fd /\ holder[Lowest] = "free" /\ Lowest \in Free
<1>1. Free \in SUBSET Fd
  BY DEF Free
<1>2. Lowest \in Free
  BY <1>1, MinOf DEF Lowest
<1> QED
  BY <1>2 DEF Free

\* And there is another when two are free.
LEMMA SecondIsFree ==
    ASSUME Cardinality(Free) >= 2
    PROVE  /\ Free # {}
           /\ Min(Free \ {Lowest}) \in Fd /\ holder[Min(Free \ {Lowest})] = "free"
           /\ Min(Free \ {Lowest}) # Lowest
<1>1. Free # {}
  BY FS_EmptySet
<1>2. Free \ {Lowest} # {}
  <2> SUFFICES ASSUME Free \ {Lowest} = {} PROVE FALSE
    OBVIOUS
  <2>1. Free = {Lowest}
    BY <1>1
  <2>2. \A x : Cardinality({x}) = 1
    BY FS_Singleton
  <2>3. Cardinality(Free) = 1
    BY <2>1, <2>2
  <2> QED
    BY <2>3
<1>3. Free \ {Lowest} \in SUBSET Fd
  BY DEF Free
<1>4. Min(Free \ {Lowest}) \in Free \ {Lowest}
  BY <1>2, <1>3, MinOf
<1> QED
  BY <1>1, <1>4 DEF Free

-----------------------------------------------------------------------------
(* The steps.                                                              *)

What == {"free", "idle", "listen", "conn", "closing", "other"}

\* The constructor's state.
LEMMA InitIInv == Init => IInv
<1> SUFFICES ASSUME Init PROVE IInv
  OBVIOUS
<1>1. 0 \in Fd /\ 1 \in Fd
  BY BoundAssumption DEF Fd
<1>2. \A fd \in Fd : holder[fd] = IF fd = 0 THEN "idle" ELSE IF fd = 1 THEN "listen" ELSE "free"
  BY DEF Init
<1>3. holder \in [Fd -> What]
  BY DEF Init, What
<1>4. TypeOK
  <2>1. disturbed \in BOOLEAN
    BY Zenon DEF Init
  <2> QED
    BY <1>1, <1>3, <2>1, BoundAssumption DEF Init, TypeOK, What
<1>5. Clients
  BY BoundAssumption DEF Init, Clients
<1>6. Spare /\ Registered
  BY <1>1, <1>2 DEF Init, Spare, Registered, Serving
<1> QED
  BY <1>4, <1>5, <1>6 DEF IInv

\* The bounds on the counters.
LEMMA CounterBounds ==
    ASSUME NEW p \in Nat, NEW s \in Nat, NEW r \in Nat, NEW c \in 0..MaxClients,
           p + s + r <= c
    PROVE  p \in 0..MaxClients /\ s \in 0..MaxClients /\ r \in 0..MaxClients
<1>1. MaxClients \in Nat
  BY BoundAssumption
<1> QED
  BY <1>1

\* A client comes: nothing happens to the descriptors.
LEMMA ClientStep == ASSUME IInv, ClientConnects PROVE IInv'
<1>1. /\ came' = came + 1 /\ pending' = pending + 1 /\ came < MaxClients
      /\ holder' = holder /\ listen_fd' = listen_fd /\ idle_fd' = idle_fd
      /\ fd_channels' = fd_channels /\ phase' = phase /\ disturbed' = disturbed
      /\ left' = left /\ served' = served /\ refused' = refused
  BY DEF ClientConnects
<1>2. Clients'
  BY <1>1, BoundAssumption DEF IInv, Clients
<1>3. pending' \in 0..MaxClients
  BY <1>2, CounterBounds DEF Clients
<1>4. TypeOK'
  BY <1>1, <1>3 DEF IInv, TypeOK
<1>5. Spare' /\ Registered'
  BY <1>1 DEF IInv, Spare, Registered, Free, Serving
<1> QED
  BY <1>2, <1>4, <1>5 DEF IInv

\* Another thread opens a descriptor, maybe the one that was given up.
LEMMA OtherOpensStep == ASSUME IInv, OtherOpens PROVE IInv'
<1>0. holder \in [Fd -> What] /\ phase \notin {"stray", "aborted"} /\ Free # {}
  BY DEF IInv, TypeOK, What, OtherOpens, Serving
<1>1. Lowest \in Fd /\ holder[Lowest] = "free"
  BY <1>0, LowestIsFree
<1>2. /\ pending' = pending /\ came' = came /\ served' = served /\ refused' = refused
      /\ listen_fd' = listen_fd /\ idle_fd' = idle_fd /\ left' = left
      /\ fd_channels' = fd_channels /\ phase' = phase
      /\ holder' = [holder EXCEPT ![Lowest] = "other"]
  BY DEF OtherOpens, clientVars
<1>3. disturbed' <=> disturbed \/ phase \in {"again", "open"}
  BY DEF OtherOpens
<1>4. disturbed' \in BOOLEAN
  BY Zenon DEF OtherOpens
<1>5. /\ holder' \in [Fd -> What] /\ holder'[Lowest] = "other"
      /\ \A x \in Fd : x # Lowest => holder'[x] = holder[x]
  BY <1>0, <1>1, <1>2 DEF What
<1>6. TypeOK'
  BY <1>2, <1>4, <1>5 DEF IInv, TypeOK, What
<1>7. Clients'
  BY <1>2 DEF IInv, Clients
<1>8. Spare'
  BY <1>0, <1>1, <1>2, <1>3, <1>5 DEF IInv, Spare
<1>9. Registered'
  BY <1>0, <1>1, <1>2, <1>5 DEF IInv, Registered, Serving, TypeOK
<1> QED
  BY <1>6, <1>7, <1>8, <1>9 DEF IInv

\* Another thread closes one of its own.
LEMMA OtherClosesStep == ASSUME IInv, NEW fd \in Fd, OtherCloses(fd) PROVE IInv'
<1>0. holder \in [Fd -> What] /\ phase \notin {"stray", "aborted"} /\ holder[fd] = "other"
  BY DEF IInv, TypeOK, What, OtherCloses, Serving
<1>1. /\ pending' = pending /\ came' = came /\ served' = served /\ refused' = refused
      /\ listen_fd' = listen_fd /\ idle_fd' = idle_fd /\ left' = left
      /\ fd_channels' = fd_channels /\ phase' = phase /\ disturbed' = disturbed
      /\ holder' = [holder EXCEPT ![fd] = "free"]
  BY DEF OtherCloses, clientVars
<1>2. /\ holder' \in [Fd -> What] /\ holder'[fd] = "free"
      /\ \A x \in Fd : x # fd => holder'[x] = holder[x]
  BY <1>0, <1>1 DEF What
<1>3. TypeOK'
  BY <1>1, <1>2 DEF IInv, TypeOK, What
<1>4. Clients'
  BY <1>1 DEF IInv, Clients
<1>5. Free' # {}
  BY <1>2 DEF Free
<1>6. Spare'
  BY <1>0, <1>1, <1>2, <1>5 DEF IInv, Spare
<1>7. Registered'
  BY <1>0, <1>1, <1>2 DEF IInv, Registered, Serving, TypeOK
<1> QED
  BY <1>3, <1>4, <1>6, <1>7 DEF IInv

\* The poller reports the socket; accept() fails.
LEMMA HandlerStep == ASSUME IInv, AcceptHandler \/ AcceptFails PROVE IInv'
<1>1. /\ pending' = pending /\ came' = came /\ served' = served /\ refused' = refused
      /\ listen_fd' = listen_fd /\ idle_fd' = idle_fd /\ disturbed' = disturbed
      /\ fd_channels' = fd_channels /\ left' = left /\ holder' = holder
      /\ phase \in {"poll", "accept"} /\ phase' \in {"poll", "accept"}
      /\ phase' = "accept" => pending > 0
  BY DEF AcceptHandler, AcceptFails, clientVars
<1>2. TypeOK'
  BY <1>1 DEF IInv, TypeOK
<1>3. Clients'
  BY <1>1 DEF IInv, Clients
<1>4. Spare' /\ Registered'
  BY <1>1 DEF IInv, Spare, Registered, Serving
<1> QED
  BY <1>2, <1>3, <1>4 DEF IInv

\* A connection is made of the smallest free descriptor, which the poller does
\* not know or a destroyed Acceptor left there.
LEMMA AcceptStep == ASSUME IInv, Accept PROVE IInv'
<1>0. holder \in [Fd -> What] /\ phase = "accept" /\ Free # {}
  BY DEF IInv, TypeOK, What, Accept
<1>1. Lowest \in Fd /\ holder[Lowest] = "free"
  BY <1>0, LowestIsFree
<1>2. /\ pending' = pending - 1 /\ came' = came /\ served' = served + 1
      /\ refused' = refused /\ listen_fd' = listen_fd /\ idle_fd' = idle_fd
      /\ disturbed' = disturbed /\ left' = left
      /\ phase' = IF Lowest \in fd_channels THEN "aborted" ELSE "poll"
      /\ fd_channels' = fd_channels \cup {Lowest}
      /\ holder' = [holder EXCEPT ![Lowest] = "conn"]
  BY DEF Accept, Register
<1>3. /\ holder' \in [Fd -> What] /\ holder'[Lowest] = "conn"
      /\ \A x \in Fd : x # Lowest => holder'[x] = holder[x]
  BY <1>0, <1>1, <1>2 DEF What
<1>4. Clients'
  BY <1>0, <1>2 DEF IInv, Clients
<1>5. pending' \in 0..MaxClients /\ served' \in 0..MaxClients
  BY <1>4, CounterBounds DEF Clients
<1>6. TypeOK'
  BY <1>1, <1>2, <1>3, <1>5 DEF IInv, TypeOK, What
<1>7. Spare'
  BY <1>0, <1>1, <1>2, <1>3 DEF IInv, Spare
<1>8. Registered'
  <2>1. Lowest \in fd_channels <=> Lowest \in left
    BY <1>0, <1>1 DEF IInv, Registered, Serving
  <2>2. CASE Lowest \in left
    BY <1>2, <1>3, <2>1, <2>2 DEF Registered, Serving
  <2>3. CASE Lowest \notin left
    BY <1>0, <1>1, <1>2, <1>3, <2>1, <2>3 DEF IInv, Registered, Serving, TypeOK
  <2> QED
    BY <2>2, <2>3
<1> QED
  BY <1>4, <1>6, <1>7, <1>8 DEF IInv

\* The spare descriptor is given up, or what idle_fd_ names by now is closed.
LEMMA CloseIdleStep == ASSUME IInv, CloseIdle PROVE IInv'
<1>0. holder \in [Fd -> What] /\ phase = "accept" /\ Serving /\ left \in SUBSET Fd
  BY DEF IInv, TypeOK, What, CloseIdle, Serving
<1>1. /\ pending' = pending /\ came' = came /\ served' = served /\ refused' = refused
      /\ listen_fd' = listen_fd /\ idle_fd' = idle_fd /\ disturbed' = disturbed
      /\ fd_channels' = fd_channels /\ left' = left
      /\ phase' = IF idle_fd \in Fd /\ holder[idle_fd] # "idle" THEN "stray" ELSE "again"
      /\ holder' = [x \in Fd |-> IF x = idle_fd THEN "free" ELSE holder[x]]
  BY DEF CloseIdle, Close, clientVars
<1>2. /\ holder' \in [Fd -> What]
      /\ idle_fd \in Fd => holder'[idle_fd] = "free"
      /\ \A x \in Fd : x # idle_fd => holder'[x] = holder[x]
  BY <1>0, <1>1 DEF What
<1>3. TypeOK'
  BY <1>1, <1>2 DEF IInv, TypeOK, What
<1>4. Clients'
  BY <1>0, <1>1 DEF IInv, Clients
<1>5. idle_fd \in Fd => Free' # {}
  BY <1>2 DEF Free
<1>6. Spare'
  BY <1>0, <1>1, <1>2, <1>5 DEF IInv, Spare
<1>7. CASE phase' = "stray"
  BY <1>3, <1>4, <1>6, <1>7 DEF IInv, Registered, Serving
<1>8. CASE phase' = "again"
  <2>1. idle_fd \notin Fd \/ holder[idle_fd] = "idle"
    BY <1>1, <1>8
  <2>2. \A x \in Fd : holder'[x] \in {"conn", "listen"} <=> holder[x] \in {"conn", "listen"}
    BY <1>2, <2>1
  <2>3. \A x \in Fd : holder'[x] = "listen" <=> holder[x] = "listen"
    BY <1>2, <2>1
  <2>4. Registered'
    BY <1>0, <1>1, <1>8, <2>2, <2>3 DEF IInv, Registered, Serving
  <2> QED
    BY <1>3, <1>4, <1>6, <2>4 DEF IInv
<1> QED
  BY <1>1, <1>7, <1>8

\* The second accept() succeeds, or fails and the Acceptor has been disturbed.
LEMMA AcceptAgainStep == ASSUME IInv, AcceptAgain PROVE IInv'
<1>0. phase = "again" /\ Serving
  BY DEF AcceptAgain, Serving
<1>1. PICK fails \in BOOLEAN :
        /\ IF Free # {} /\ ~fails
           THEN holder' = CloseRefused /\ pending' = pending - 1 /\ refused' = refused + 1
                /\ phase' = "open"
           ELSE phase' = "poll" /\ UNCHANGED <<holder, pending, refused>>
        /\ disturbed' = (disturbed \/ fails)
  BY DEF AcceptAgain
<1>2. disturbed' \in BOOLEAN
  BY Zenon, <1>1
<1>3. disturbed' <=> disturbed \/ fails
  BY <1>1
<1>4. /\ holder' = holder /\ came' = came /\ served' = served
      /\ listen_fd' = listen_fd /\ idle_fd' = idle_fd /\ left' = left
      /\ fd_channels' = fd_channels
  BY <1>1 DEF AcceptAgain, CloseRefused
<1>5. \/ phase' = "open" /\ pending' = pending - 1 /\ refused' = refused + 1 /\ Free # {}
      \/ phase' = "poll" /\ pending' = pending /\ refused' = refused /\ (Free = {} \/ fails)
  BY <1>1
<1>6. Clients'
  BY <1>0, <1>4, <1>5 DEF IInv, Clients
<1>7. pending' \in 0..MaxClients /\ refused' \in 0..MaxClients
  BY <1>6, CounterBounds DEF Clients
<1>8. TypeOK'
  BY <1>2, <1>4, <1>5, <1>7 DEF IInv, TypeOK
<1>9. phase' = "poll" => disturbed'
  BY <1>0, <1>3, <1>5 DEF IInv, Spare
<1>10. Free' = Free /\ Serving'
  BY <1>4, <1>5 DEF Free, Serving
<1>11. Spare'
  BY <1>0, <1>3, <1>4, <1>5, <1>9, <1>10 DEF IInv, Spare
<1>12. Registered'
  BY <1>0, <1>4, <1>5, <1>10 DEF IInv, Registered
<1> QED
  BY <1>6, <1>8, <1>11, <1>12 DEF IInv

\* The spare descriptor is opened again, or another thread has taken it.
LEMMA OpenIdleStep == ASSUME IInv, OpenIdle PROVE IInv'
<1>0. holder \in [Fd -> What] /\ phase = "open" /\ Serving
  BY DEF IInv, TypeOK, What, OpenIdle, Serving
<1>1. /\ pending' = pending /\ came' = came /\ served' = served /\ refused' = refused
      /\ listen_fd' = listen_fd /\ phase' = "poll" /\ Serving'
      /\ fd_channels' = fd_channels /\ left' = left
  BY DEF OpenIdle, clientVars, Serving
<1>2. Clients'
  BY <1>1 DEF IInv, Clients
<1>3. CASE Free # {}
  <2>1. Lowest \in Fd /\ holder[Lowest] = "free"
    BY <1>3, LowestIsFree
  <2>2. idle_fd' = Lowest /\ holder' = [holder EXCEPT ![Lowest] = "idle"]
    BY <1>3 DEF OpenIdle
  <2>3. disturbed' = FALSE
    BY Zenon, <1>3 DEF OpenIdle
  <2>4. /\ holder' \in [Fd -> What] /\ holder'[Lowest] = "idle"
        /\ \A x \in Fd : x # Lowest => holder'[x] = holder[x]
    BY <1>0, <2>1, <2>2 DEF What
  <2>5. disturbed' \in BOOLEAN
    BY <2>3
  <2>6. TypeOK'
    BY <1>1, <2>1, <2>2, <2>4, <2>5 DEF IInv, TypeOK, What
  <2>7. Spare'
    BY <1>0, <1>1, <2>1, <2>2, <2>4 DEF IInv, Spare
  <2>8. Registered'
    BY <1>0, <1>1, <2>1, <2>4 DEF IInv, Registered, TypeOK
  <2> QED
    BY <1>2, <2>6, <2>7, <2>8 DEF IInv
<1>4. CASE Free = {}
  <2>1. idle_fd' = -1 /\ holder' = holder /\ disturbed' = disturbed
    BY <1>4 DEF OpenIdle
  <2>2. disturbed
    BY <1>0, <1>4 DEF IInv, Spare
  <2>3. TypeOK'
    BY <1>1, <2>1 DEF IInv, TypeOK
  <2>4. Spare'
    BY <1>0, <1>1, <2>1, <2>2 DEF IInv, Spare
  <2>5. Registered'
    BY <1>0, <1>1, <2>1 DEF IInv, Registered
  <2> QED
    BY <1>2, <2>3, <2>4, <2>5 DEF IInv
<1> QED
  BY <1>3, <1>4

\* A connection ends: its channel leaves the map, its descriptor stays open
\* until the functor has run.
LEMMA ConnectionClosesStep ==
    ASSUME IInv, NEW fd \in Fd, ConnectionCloses(fd) PROVE IInv'
<1>0. holder \in [Fd -> What] /\ phase = "poll" /\ holder[fd] = "conn" /\ Serving
  BY DEF IInv, TypeOK, What, ConnectionCloses, Conn, Serving
<1>1. /\ pending' = pending /\ came' = came /\ served' = served /\ refused' = refused
      /\ listen_fd' = listen_fd /\ idle_fd' = idle_fd /\ phase' = phase
      /\ fd_channels' = fd_channels \ {fd} /\ disturbed' = disturbed /\ left' = left
      /\ holder' = [holder EXCEPT ![fd] = "closing"]
  BY DEF ConnectionCloses, Unregister, clientVars
<1>2. /\ holder' \in [Fd -> What] /\ holder'[fd] = "closing"
      /\ \A x \in Fd : x # fd => holder'[x] = holder[x]
  BY <1>0, <1>1 DEF What
<1>3. TypeOK'
  BY <1>1, <1>2 DEF IInv, TypeOK, What
<1>4. Clients'
  BY <1>1 DEF IInv, Clients
<1>5. Spare'
  BY <1>0, <1>1, <1>2 DEF IInv, Spare
<1>6. Registered'
  BY <1>0, <1>1, <1>2 DEF IInv, Registered, Serving, TypeOK
<1> QED
  BY <1>3, <1>4, <1>5, <1>6 DEF IInv

\* The functors close the descriptors.
LEMMA DestroyConnectionsStep == ASSUME IInv, DestroyConnections PROVE IInv'
<1>0. holder \in [Fd -> What] /\ phase \in {"poll", "destroyed"}
  BY DEF IInv, TypeOK, What, DestroyConnections
<1>1. /\ pending' = pending /\ came' = came /\ served' = served /\ refused' = refused
      /\ listen_fd' = listen_fd /\ idle_fd' = idle_fd /\ phase' = phase
      /\ fd_channels' = fd_channels /\ disturbed' = disturbed /\ left' = left
      /\ holder' = [fd \in Fd |-> IF fd \in Closing THEN "free" ELSE holder[fd]]
  BY DEF DestroyConnections, clientVars
<1>2. /\ holder' \in [Fd -> What]
      /\ \A x \in Fd : \/ holder'[x] = holder[x]
                       \/ holder[x] = "closing" /\ holder'[x] = "free"
  BY <1>0, <1>1 DEF What, Closing
<1>3. TypeOK'
  BY <1>1, <1>2 DEF IInv, TypeOK, What
<1>4. Clients'
  BY <1>1 DEF IInv, Clients
<1>5. Spare'
  BY <1>0, <1>1, <1>2 DEF IInv, Spare
<1>6. Registered'
  BY <1>0, <1>1, <1>2 DEF IInv, Registered, Serving, TypeOK
<1> QED
  BY <1>3, <1>4, <1>5, <1>6 DEF IInv

\* ~TcpServer() closes what is the server's, and leaves the listening socket's
\* channel in the map.
LEMMA DestroyStep == ASSUME IInv, Destroy PROVE IInv'
<1>0. holder \in [Fd -> What] /\ phase = "poll" /\ Serving
  BY DEF IInv, TypeOK, What, Destroy, Serving
<1>1. /\ pending' = 0 /\ came' = came /\ served' = served /\ refused' = refused
      /\ listen_fd' = listen_fd /\ idle_fd' = idle_fd /\ disturbed' = disturbed
      /\ fd_channels' = fd_channels \ Conn /\ left' = left \cup {listen_fd}
      /\ phase' = IF idle_fd \in Fd /\ holder[idle_fd] \in {"closing", "other"}
                  THEN "stray" ELSE "destroyed"
      /\ holder' = [fd \in Fd |-> IF fd \in Conn \cup {listen_fd, idle_fd} THEN "free"
                                  ELSE holder[fd]]
  BY DEF Destroy
<1>2. /\ holder' \in [Fd -> What]
      /\ \A x \in Fd : holder'[x] \in {"free", holder[x]}
      /\ \A x \in Fd : holder[x] = "conn" \/ x = listen_fd \/ x = idle_fd => holder'[x] = "free"
  BY <1>0, <1>1 DEF What, Conn
<1>3. 0 \in 0..MaxClients
  BY BoundAssumption
<1>4. TypeOK'
  BY <1>1, <1>2, <1>3 DEF IInv, TypeOK, What
<1>5. Clients'
  BY <1>1 DEF IInv, Clients
<1>6. Spare'
  BY <1>0, <1>1, <1>2 DEF IInv, Spare
<1>7. Registered'
  <2>1. \A x \in Fd : holder'[x] \notin {"conn", "listen"}
    BY <1>0, <1>2 DEF IInv, Registered
  <2>2. fd_channels' = left'
    BY <1>0, <1>1 DEF IInv, Registered, TypeOK, Conn
  <2> QED
    BY <1>1, <2>1, <2>2 DEF Registered, Serving
<1> QED
  BY <1>4, <1>5, <1>6, <1>7 DEF IInv

\* Another server starts, on a loop of its own or on the same.
LEMMA StartStep == ASSUME IInv, NEW loop \in {"new", "same"}, Start(loop) PROVE IInv'
<1> DEFINE one == Lowest
           two == Min(Free \ {Lowest})
           map == IF loop = "same" THEN fd_channels ELSE {}
<1>0. holder \in [Fd -> What] /\ phase = "destroyed" /\ Cardinality(Free) >= 2
  BY DEF IInv, TypeOK, What, Start
<1>1. /\ one \in Fd /\ two \in Fd /\ one # two
      /\ holder[one] = "free" /\ holder[two] = "free"
  BY <1>0, SecondIsFree, LowestIsFree
<1>2. /\ pending' = pending /\ came' = came /\ served' = served /\ refused' = refused
      /\ listen_fd' = two /\ idle_fd' = one
      /\ phase' = IF two \in map THEN "aborted" ELSE "poll"
      /\ fd_channels' = map \cup {two}
      /\ left' = IF loop = "same" THEN left ELSE {}
      /\ holder' = [holder EXCEPT ![one] = "idle", ![two] = "listen"]
  BY DEF Start, Register, clientVars
<1>3. disturbed' = FALSE
  BY Zenon DEF Start
<1>4. disturbed' \in BOOLEAN
  BY <1>3
<1>5. left' = map /\ map \in SUBSET Fd
  BY <1>0, <1>2 DEF IInv, Registered, TypeOK
<1> HIDE DEF one, two, map
<1>6. /\ holder' \in [Fd -> What] /\ holder'[one] = "idle" /\ holder'[two] = "listen"
      /\ \A x \in Fd : x # one /\ x # two => holder'[x] = holder[x]
  BY <1>0, <1>1, <1>2 DEF What
<1>7. TypeOK'
  BY <1>1, <1>2, <1>4, <1>5, <1>6 DEF IInv, TypeOK, What
<1>8. Clients'
  BY <1>2 DEF IInv, Clients
<1>9. Spare'
  BY <1>0, <1>1, <1>2, <1>6 DEF IInv, Spare
<1>10. Registered'
  <2>1. CASE two \in map
    BY <1>2, <1>5, <1>6, <2>1 DEF Registered, Serving
  <2>2. CASE two \notin map
    <3>1. phase' = "poll" /\ fd_channels' = map \cup {two} /\ listen_fd' = two
      BY <1>2, <2>2
    <3>2. \A x \in Fd : holder'[x] \in {"conn", "listen"} <=> x = two
      BY <1>0, <1>1, <1>6 DEF IInv, Registered
    <3>3. \A x \in Fd : holder'[x] = "listen" <=> x = two
      BY <1>6, <3>2
    <3> QED
      BY <1>5, <2>2, <3>1, <3>2, <3>3 DEF Registered, Serving
  <2> QED
    BY <2>1, <2>2
<1> QED
  BY <1>7, <1>8, <1>9, <1>10 DEF IInv

\* Every step keeps the invariant.
LEMMA NextIInv == ASSUME IInv, [Next]_vars PROVE IInv'
<1>1. CASE UNCHANGED vars
  <2>1. /\ pending' = pending /\ came' = came /\ served' = served /\ refused' = refused
        /\ listen_fd' = listen_fd /\ idle_fd' = idle_fd /\ phase' = phase
        /\ fd_channels' = fd_channels /\ disturbed' = disturbed /\ left' = left
        /\ holder' = holder
    BY <1>1 DEF vars, clientVars
  <2>2. TypeOK' /\ Clients'
    BY <2>1 DEF IInv, TypeOK, Clients
  <2> QED
    BY <2>1, <2>2 DEF IInv, Spare, Registered, Free, Serving
<1>2. CASE ClientConnects
  BY <1>2, ClientStep
<1>3. CASE OtherOpens \/ \E fd \in Fd : OtherCloses(fd)
  BY <1>3, OtherOpensStep, OtherClosesStep
<1>4. CASE \E fd \in Fd : ConnectionCloses(fd)
  BY <1>4, ConnectionClosesStep
<1>5. CASE AcceptHandler \/ AcceptFails
  BY <1>5, HandlerStep
<1>6. CASE Accept
  BY <1>6, AcceptStep
<1>7. CASE CloseIdle \/ AcceptAgain \/ OpenIdle
  BY <1>7, CloseIdleStep, AcceptAgainStep, OpenIdleStep
<1>8. CASE DestroyConnections \/ Destroy
  BY <1>8, DestroyConnectionsStep, DestroyStep
<1>9. CASE \E loop \in {"new", "same"} : Start(loop)
  BY <1>9, StartStep
<1> QED
  BY <1>1, <1>2, <1>3, <1>4, <1>5, <1>6, <1>7, <1>8, <1>9 DEF Next

\* The invariant.
LEMMA Invariance == Spec => []IInv
<1>1. IInv /\ [Next]_vars => IInv'
  BY NextIInv
<1> QED
  BY InitIInv, <1>1, PTL DEF Spec

\* However many refusals, and however large the table: between two calls of
\* AcceptHandler() the Acceptor has no spare descriptor but the one idle_fd_
\* names, and it has that one and has closed nobody else's unless another thread
\* or a failing accept() came in between.
THEOREM KeepsSpare == Spec => []IdleIsReserved
<1>1. IInv => IdleIsReserved
  BY DEF IInv, Spare, IdleIsReserved
<1> QED
  BY Invariance, <1>1, PTL

\* However other threads, clients and servers come and go, the map has the
\* listening socket, the established connections and what destroyed Acceptors
\* left in it, and an assert on it fails only for one of the latter.
THEOREM MapIsExact == Spec => []MapFollowsDescriptors
<1>1. IInv => MapFollowsDescriptors
  BY DEF IInv, TypeOK, Registered, MapFollowsDescriptors, Conn
<1> QED
  BY Invariance, <1>1, PTL

-----------------------------------------------------------------------------
(* UdpPeer.                                                                *)

\* The datagrams that are to be handed over among the first n.
WantedOf(n) == {i \in 1..n : Wanted(arrived[i])}

\* The kernel's queue is the end of what arrived; only a bound peer has one,
\* and it knows that it is bound unless the sendto() that bound it failed.
Queued ==
    /\ Len(rcvQueue) <= Len(arrived)
    /\ \A i \in 1..Len(rcvQueue) :
           rcvQueue[i] = arrived[Len(arrived) - Len(rcvQueue) + i]
    /\ port => binded_addr \/ unsent
    /\ rcvQueue # <<>> => port

\* Between two system calls: the datagram that was looked at is still the one
\* in front, and was seen whole; the one taken is the one that is handed over.
Looking ==
    /\ ~auto_buffer_size => buffer_size = FixedSize + 1
    /\ stage \in {"recv", "take"} => rcvQueue # <<>>
    /\ stage = "take" => auto_buffer_size /\ size > 0 /\ size = Head(rcvQueue)
    /\ stage = "callback" =>
           /\ Len(rcvQueue) < Len(arrived)
           /\ size = arrived[Len(arrived) - Len(rcvQueue)]
           /\ Wanted(size)

\* A peer that has not been destroyed.
Open == Queued /\ Looking /\ delivered \in Kept(arrived, WantedOf(Gone))

\* The inductive invariant.
UdpInv == UdpTypeOK /\ (stage = "fatal" => unsent) /\ (stage # "closed" => Open)

-----------------------------------------------------------------------------
(* UdpPeer: what is kept of a sequence.                                    *)

\* A longer sequence keeps the same elements at the same places.
LEMMA KeptOfLonger ==
    ASSUME NEW T, NEW s \in Seq(T), NEW x \in T, NEW S \in SUBSET (1..Len(s)),
           NEW r \in Kept(s, S)
    PROVE  r \in Kept(Append(s, x), S)
<1> DEFINE n == Cardinality(S)
<1>1. PICK at \in InOrder(S) : r = [j \in 1..n |-> s[at[j]]]
  BY DEF Kept
<1>2. at \in [1..n -> S]
  BY <1>1 DEF InOrder
<1> HIDE DEF n
<1>3. \A j \in 1..n : s[at[j]] = Append(s, x)[at[j]]
  <2>1. \A i \in 1..Len(s) : Append(s, x)[i] = s[i]
    BY AppendProperties
  <2> QED
    BY <1>2, <2>1
<1>4. r = [j \in 1..n |-> Append(s, x)[at[j]]]
  BY <1>1, <1>3
<1> QED
  BY <1>1, <1>4 DEF Kept, n

\* A place behind all others adds its element at the end.
LEMMA KeptAppends ==
    ASSUME NEW T, NEW s \in Seq(T), NEW k \in 1..Len(s), NEW S \in SUBSET (1..(k - 1)),
           NEW r \in Kept(s, S)
    PROVE  Append(r, s[k]) \in Kept(s, S \cup {k})
<1> DEFINE n == Cardinality(S)
           m == Cardinality(S \cup {k})
<1>0. Len(s) \in Nat /\ k \in Nat /\ k \notin S /\ \A i \in 1..Len(s) : s[i] \in T
  OBVIOUS
<1>1. IsFiniteSet(S)
  <2>1. IsFiniteSet(1..(k - 1))
    BY <1>0, FS_Interval
  <2> QED
    BY <2>1, FS_Subset
<1>2. n \in Nat /\ m = n + 1
  BY <1>0, <1>1, FS_CardinalityType, FS_AddElement
<1>3. PICK at \in InOrder(S) : r = [j \in 1..n |-> s[at[j]]]
  BY DEF Kept
<1>4. at \in [1..n -> S] /\ \A i, j \in 1..n : i < j => at[i] < at[j]
  BY <1>3 DEF InOrder
<1> DEFINE to == [j \in 1..m |-> IF j = m THEN k ELSE at[j]]
<1> HIDE DEF n, m
<1>5. \A j \in 1..m : j = m \/ j \in 1..n
  BY <1>2
<1>6. /\ to \in [1..m -> S \cup {k}]
      /\ \A i, j \in 1..m : i < j => to[i] < to[j]
  <2>1. to \in [1..m -> S \cup {k}]
    BY <1>4, <1>5
  <2>2. ASSUME NEW i \in 1..m, NEW j \in 1..m, i < j PROVE to[i] < to[j]
    <3>1. i \in 1..n /\ to[i] = at[i]
      BY <1>2, <2>2
    <3>2. at[i] \in S
      BY <1>4, <3>1
    <3>3. at[i] \in 1..(k - 1)
      BY <3>2
    <3>4. CASE j = m
      BY <1>0, <3>1, <3>3, <3>4
    <3>5. CASE j # m
      BY <1>4, <1>5, <2>2, <3>1, <3>5
    <3> QED
      BY <3>4, <3>5
  <2> QED
    BY <2>1, <2>2
<1>7. to \in InOrder(S \cup {k})
  BY <1>6 DEF InOrder, m
<1>8. r \in Seq(T) /\ Len(r) = n /\ \A j \in 1..n : r[j] = s[at[j]]
  <2>1. ASSUME NEW j \in 1..n PROVE s[at[j]] \in T
    <3>1. at[j] \in S
      BY <1>4
    <3>2. at[j] \in 1..(k - 1)
      BY <3>1
    <3>3. at[j] \in 1..Len(s)
      BY <1>0, <3>2
    <3> QED
      BY <1>0, <3>3
  <2> QED
    BY <1>2, <1>3, <2>1
<1>9. Append(r, s[k]) = [j \in 1..m |-> s[to[j]]]
  <2>1. s[k] \in T
    BY <1>0
  <2>2. /\ Append(r, s[k]) \in Seq(T) /\ Len(Append(r, s[k])) = m
        /\ \A j \in 1..n : Append(r, s[k])[j] = r[j]
        /\ Append(r, s[k])[m] = s[k]
    BY <1>2, <1>8, <2>1, AppendProperties
  <2>3. \A j \in 1..m : Append(r, s[k])[j] = s[to[j]]
    BY <1>2, <1>8, <2>2
  <2> QED
    BY <1>2, <2>2, <2>3
<1> QED
  BY <1>7, <1>9 DEF Kept, m

-----------------------------------------------------------------------------
(* The steps.                                                              *)

\* A constructed peer has nothing to read.
LEMMA UdpStarts == ASSUME UdpInit PROVE UdpInv
<1>1. /\ rcvQueue \in Seq(Sizes) /\ Len(rcvQueue) = 0
      /\ arrived \in Seq(Sizes) /\ Len(arrived) = 0
  BY DEF UdpInit
<1>2. UdpTypeOK
  <2>1. unsent \in BOOLEAN
    BY Zenon DEF UdpInit
  <2> QED
    BY <1>1, <2>1, SizesAssumption DEF UdpInit, UdpTypeOK
<1>3. Gone = 0 /\ WantedOf(Gone) = {}
  BY <1>1 DEF UdpInit, Gone, WantedOf
<1>4. delivered \in Kept(arrived, {})
  <2>1. Cardinality({}) = 0
    BY FS_EmptySet
  <2>2. delivered = [j \in 1..0 |-> arrived[<<>>[j]]] /\ <<>> \in [1..0 -> {}]
    BY DEF UdpInit
  <2> QED
    BY <2>1, <2>2 DEF Kept, InOrder
<1>5. Queued /\ Looking
  BY <1>1 DEF UdpInit, Queued, Looking
<1> QED
  BY <1>2, <1>3, <1>4, <1>5 DEF UdpInit, UdpInv, Open

\* What is known of an open peer, with the numbers' types.
LEMMA Known ==
    ASSUME UdpInv, stage # "closed"
    PROVE  /\ UdpTypeOK /\ Queued /\ Looking /\ delivered \in Kept(arrived, WantedOf(Gone))
           /\ Len(arrived) \in Nat /\ Len(rcvQueue) \in Nat
           /\ Gone \in 0..Len(arrived)
           /\ Gone + Len(rcvQueue) + (IF stage = "callback" THEN 1 ELSE 0) = Len(arrived)
           /\ WantedOf(Gone) \in SUBSET (1..Gone)
           /\ \A i \in 1..Len(arrived) : arrived[i] \in 0..MaxDatagram
<1>1. UdpTypeOK /\ Queued /\ Looking /\ delivered \in Kept(arrived, WantedOf(Gone))
  BY DEF UdpInv, Open
<1>2. Len(arrived) \in Nat /\ Len(rcvQueue) \in Nat
  BY <1>1 DEF UdpTypeOK
<1>3. /\ Gone \in 0..Len(arrived)
      /\ Gone + Len(rcvQueue) + (IF stage = "callback" THEN 1 ELSE 0) = Len(arrived)
  BY <1>1, <1>2 DEF Gone, Queued, Looking
<1>4. \A i \in 1..Len(arrived) : arrived[i] \in 0..MaxDatagram
  <2>1. arrived \in Seq(Sizes)
    BY <1>1 DEF UdpTypeOK
  <2>2. \A i \in 1..Len(arrived) : arrived[i] \in Sizes
    BY <2>1, ElementOfSeq
  <2> QED
    BY <2>2, SizesAssumption
<1> QED
  BY <1>1, <1>2, <1>3, <1>4 DEF WantedOf

\* The datagram in front of the queue, and the queue behind it.
LEMMA FrontOfQueue ==
    ASSUME UdpInv, stage # "closed", stage # "callback", rcvQueue # <<>>
    PROVE  /\ Gone + 1 \in 1..Len(arrived)
           /\ Head(rcvQueue) = arrived[Gone + 1]
           /\ Head(rcvQueue) \in 0..MaxDatagram
           /\ Tail(rcvQueue) \in Seq(Sizes)
           /\ Len(Tail(rcvQueue)) = Len(rcvQueue) - 1
           /\ Len(rcvQueue) >= 1
           /\ \A i \in 1..Len(Tail(rcvQueue)) :
                  Tail(rcvQueue)[i] = arrived[Len(arrived) - Len(Tail(rcvQueue)) + i]
<1>1. /\ UdpTypeOK /\ Queued /\ Gone \in Nat /\ Len(arrived) \in Nat /\ Len(rcvQueue) \in Nat
      /\ Gone + Len(rcvQueue) = Len(arrived)
      /\ \A i \in 1..Len(arrived) : arrived[i] \in 0..MaxDatagram
  BY Known
<1>2. rcvQueue \in Seq(Sizes) /\ Len(rcvQueue) # 0
  BY <1>1 DEF UdpTypeOK
<1>3. /\ Head(rcvQueue) = rcvQueue[1]
      /\ Tail(rcvQueue) \in Seq(Sizes)
      /\ Len(Tail(rcvQueue)) = Len(rcvQueue) - 1
      /\ \A i \in 1..Len(Tail(rcvQueue)) : Tail(rcvQueue)[i] = rcvQueue[i + 1]
  BY <1>1, <1>2, HeadTailProperties
<1>4. \A i \in 1..Len(rcvQueue) : rcvQueue[i] = arrived[Gone + i]
  <2>1. Len(arrived) - Len(rcvQueue) = Gone
    BY <1>1
  <2> QED
    BY <1>1, <2>1 DEF Queued
<1>5. Head(rcvQueue) = arrived[Gone + 1] /\ Gone + 1 \in 1..Len(arrived)
  BY <1>1, <1>2, <1>3, <1>4
<1>6. ASSUME NEW i \in 1..Len(Tail(rcvQueue))
      PROVE  Tail(rcvQueue)[i] = arrived[Len(arrived) - Len(Tail(rcvQueue)) + i]
  <2>1. i + 1 \in 1..Len(rcvQueue) /\ Gone + (i + 1) = Len(arrived) - Len(Tail(rcvQueue)) + i
    BY <1>1, <1>3
  <2> QED
    BY <1>3, <1>4, <2>1
<1> QED
  BY <1>1, <1>2, <1>3, <1>5, <1>6

\* A datagram arrives at the end of the queue, whatever the peer is doing.
LEMMA ArriveStep ==
    ASSUME UdpInv, NEW n \in Sizes, Arrive(n) PROVE UdpInv'
<1>1. stage # "closed" /\ port
  BY DEF Arrive
<1>2. /\ UdpTypeOK /\ Queued /\ Looking /\ delivered \in Kept(arrived, WantedOf(Gone))
      /\ Len(arrived) \in Nat /\ Len(rcvQueue) \in Nat
      /\ Gone \in 0..Len(arrived) /\ WantedOf(Gone) \in SUBSET (1..Gone)
  BY <1>1, Known
<1>3. arrived \in Seq(Sizes) /\ rcvQueue \in Seq(Sizes)
  BY <1>2 DEF UdpTypeOK
<1>4. /\ arrived' \in Seq(Sizes) /\ Len(arrived') = Len(arrived) + 1
      /\ \A i \in 1..Len(arrived) : arrived'[i] = arrived[i]
      /\ arrived'[Len(arrived) + 1] = n
      /\ rcvQueue' \in Seq(Sizes) /\ Len(rcvQueue') = Len(rcvQueue) + 1
      /\ \A i \in 1..Len(rcvQueue) : rcvQueue'[i] = rcvQueue[i]
      /\ rcvQueue'[Len(rcvQueue) + 1] = n
  BY <1>3, AppendProperties DEF Arrive
<1>5. /\ stage' = stage /\ size' = size /\ delivered' = delivered /\ port' = port
      /\ binded_addr' = binded_addr /\ auto_buffer_size' = auto_buffer_size
      /\ buffer_size' = buffer_size /\ unsent' = unsent
  BY DEF Arrive
<1>6. UdpTypeOK'
  BY <1>2, <1>4, <1>5 DEF UdpTypeOK
<1>7. Queued'
  <2>1. ASSUME NEW i \in 1..Len(rcvQueue')
        PROVE  rcvQueue'[i] = arrived'[Len(arrived') - Len(rcvQueue') + i]
    <3> DEFINE d == Len(arrived) - Len(rcvQueue)
    <3>1. d \in Nat /\ Len(arrived') - Len(rcvQueue') = d
      BY <1>2, <1>4 DEF Queued
    <3>2. CASE i = Len(rcvQueue) + 1
      <4>1. d + i = Len(arrived) + 1
        BY <1>2, <3>2
      <4> QED
        BY <1>4, <3>1, <3>2, <4>1
    <3>3. CASE i # Len(rcvQueue) + 1
      <4>1. i \in 1..Len(rcvQueue)
        BY <1>2, <1>4, <3>3
      <4>2. rcvQueue[i] = arrived[d + i]
        BY <1>2, <4>1 DEF Queued
      <4>3. d + i \in 1..Len(arrived)
        BY <1>2, <3>1, <4>1
      <4> QED
        BY <1>4, <3>1, <4>1, <4>2, <4>3
    <3> QED
      BY <3>2, <3>3
  <2> QED
    BY <1>1, <1>2, <1>4, <1>5, <2>1 DEF Queued
<1>8. Looking'
  <2>1. rcvQueue # <<>> => Len(rcvQueue) >= 1 /\ Head(rcvQueue) = rcvQueue[1]
    BY <1>2, <1>3
  <2>2. rcvQueue' # <<>> /\ Head(rcvQueue') = rcvQueue'[1]
    BY <1>2, <1>4
  <2>3. rcvQueue # <<>> => Head(rcvQueue') = Head(rcvQueue)
    BY <1>2, <1>4, <2>1, <2>2
  <2>4. stage = "callback" =>
            arrived'[Len(arrived') - Len(rcvQueue')] = arrived[Len(arrived) - Len(rcvQueue)]
    BY <1>2, <1>4 DEF Looking
  <2> QED
    BY <1>2, <1>4, <1>5, <2>2, <2>3, <2>4 DEF Looking, Wanted
<1>9. delivered' \in Kept(arrived', WantedOf(Gone)')
  <2>1. Gone' = Gone
    BY <1>2, <1>4, <1>5 DEF Gone
  <2>2. \A i \in 1..Gone : arrived'[i] = arrived[i]
    BY <1>2, <1>4
  <2>3. WantedOf(Gone)' = WantedOf(Gone)
    BY <1>5, <2>1, <2>2 DEF WantedOf, Wanted
  <2>4. WantedOf(Gone) \in SUBSET (1..Len(arrived))
    BY <1>2
  <2>5. arrived' = Append(arrived, n)
    BY DEF Arrive
  <2> QED
    BY <1>2, <1>3, <1>5, <2>3, <2>4, <2>5, KeptOfLonger
<1> QED
  BY <1>5, <1>6, <1>7, <1>8, <1>9 DEF UdpInv, Open

\* A step without a new datagram that is done with as many as before.
LEMMA SameGone ==
    ASSUME UdpInv, stage # "closed", arrived' = arrived, delivered' = delivered,
           auto_buffer_size' = auto_buffer_size, Gone' = Gone
    PROVE  delivered' \in Kept(arrived', WantedOf(Gone)')
<1>1. WantedOf(Gone)' = WantedOf(Gone)
  BY DEF WantedOf, Wanted
<1> QED
  BY <1>1, Known

\* One that is done with one more.
LEMMA OneMore ==
    ASSUME UdpInv, stage # "closed", arrived' = arrived,
           auto_buffer_size' = auto_buffer_size, Gone' = Gone + 1,
           Gone + 1 \in 1..Len(arrived),
           delivered' = IF Wanted(arrived[Gone + 1])
                        THEN Append(delivered, arrived[Gone + 1]) ELSE delivered
    PROVE  delivered' \in Kept(arrived', WantedOf(Gone)')
<1>1. /\ Gone \in Nat /\ WantedOf(Gone) \in SUBSET (1..Gone)
      /\ delivered \in Kept(arrived, WantedOf(Gone))
      /\ arrived \in Seq(Sizes)
  BY Known DEF UdpTypeOK
<1>2. WantedOf(Gone)' = {i \in 1..(Gone + 1) : Wanted(arrived[i])}
  BY DEF WantedOf, Wanted
<1>3. \A i \in 1..(Gone + 1) : i = Gone + 1 \/ i \in 1..Gone
  BY <1>1
<1>4. \A i \in 1..Gone : i \in 1..(Gone + 1)
  BY <1>1
<1>5. CASE Wanted(arrived[Gone + 1])
  <2>1. WantedOf(Gone)' = WantedOf(Gone) \cup {Gone + 1}
    BY <1>1, <1>2, <1>3, <1>4, <1>5 DEF WantedOf
  <2>2. WantedOf(Gone) \in SUBSET (1..((Gone + 1) - 1))
    BY <1>1
  <2>3. Append(delivered, arrived[Gone + 1]) \in Kept(arrived, WantedOf(Gone) \cup {Gone + 1})
    BY <1>1, <2>2, KeptAppends
  <2> QED
    BY <1>5, <2>1, <2>3
<1>6. CASE ~Wanted(arrived[Gone + 1])
  <2>1. WantedOf(Gone)' = WantedOf(Gone)
    BY <1>1, <1>2, <1>3, <1>4, <1>6 DEF WantedOf
  <2> QED
    BY <1>1, <1>6, <2>1
<1> QED
  BY <1>5, <1>6

\* The poller reports the socket of a peer, which then is bound, whether it
\* knows it or not.
LEMMA OnMessageStep == ASSUME UdpInv, OnMessage PROVE UdpInv'
<1>1. stage = "poll" /\ rcvQueue # <<>>
  BY DEF OnMessage
<1>2. UdpTypeOK /\ Queued /\ Looking
  BY <1>1, Known
<1>3. stage' = "recv" \/ (stage' = "fatal" /\ unsent')
  BY <1>1, <1>2 DEF OnMessage, Queued
<1>4. UdpTypeOK' /\ Queued' /\ Looking'
  BY <1>1, <1>2, <1>3 DEF OnMessage, kernelVars, UdpTypeOK, Queued, Looking
<1>5. Gone' = Gone
  BY <1>1, <1>3 DEF OnMessage, kernelVars, Gone
<1>6. delivered' \in Kept(arrived', WantedOf(Gone)')
  BY <1>1, <1>5, SameGone DEF OnMessage, kernelVars
<1> QED
  BY <1>3, <1>4, <1>6 DEF UdpInv, Open

\* The datagram in front is looked at: it fits, or the buffer grows.
LEMMA RecvPeekStep == ASSUME UdpInv, RecvPeek PROVE UdpInv'
<1>1. stage = "recv" /\ auto_buffer_size
  BY DEF RecvPeek
<1>2. UdpTypeOK /\ Queued /\ Looking /\ rcvQueue # <<>>
  BY <1>1, Known DEF Looking
<1>3. Head(rcvQueue) \in 0..MaxDatagram
  BY <1>1, <1>2, FrontOfQueue
<1>4. MaxDatagram \in Nat /\ buffer_size \in Nat \ {0}
  BY <1>2, SizesAssumption DEF UdpTypeOK
<1>5. /\ size' = Least(Head(rcvQueue), buffer_size)
      /\ auto_buffer_size' = auto_buffer_size /\ binded_addr' = binded_addr
      /\ port' = port /\ rcvQueue' = rcvQueue /\ arrived' = arrived
      /\ delivered' = delivered /\ unsent' = unsent
  BY DEF RecvPeek, kernelVars
<1>6. size' \in 0..MaxDatagram /\ (size' < buffer_size => size' = Head(rcvQueue))
  BY <1>3, <1>4, <1>5 DEF Least
<1>7. /\ buffer_size' \in Nat \ {0} /\ stage' \in {"poll", "recv", "take"}
      /\ stage' = "take" => size' > 0 /\ size' = Head(rcvQueue)
  <2>1. CASE size' > 0 /\ IsCut(size')
    BY <1>1, <1>4, <2>1 DEF RecvPeek, Grown, Least
  <2>2. CASE ~(size' > 0 /\ IsCut(size'))
    <3>1. stage' = (IF size' > 0 THEN "take" ELSE "poll") /\ buffer_size' = buffer_size
      BY <2>2 DEF RecvPeek
    <3>2. size' > 0 => size' < buffer_size
      BY <1>4, <1>6, <2>2 DEF IsCut
    <3> QED
      BY <1>4, <1>6, <3>1, <3>2
  <2> QED
    BY <2>1, <2>2
<1>8. UdpTypeOK'
  BY <1>2, <1>4, <1>5, <1>6, <1>7 DEF UdpTypeOK
<1>9. Queued' /\ Looking'
  BY <1>1, <1>2, <1>5, <1>7 DEF Queued, Looking
<1>10. Gone' = Gone
  BY <1>1, <1>5, <1>7 DEF Gone
<1>11. delivered' \in Kept(arrived', WantedOf(Gone)')
  BY <1>1, <1>5, <1>10, SameGone
<1> QED
  BY <1>7, <1>8, <1>9, <1>11 DEF UdpInv, Open

\* The second recvfrom() takes the datagram that the first one looked at.
LEMMA TakeStep == ASSUME UdpInv, Take PROVE UdpInv'
<1>1. stage = "take" /\ stage' = "callback"
  BY DEF Take
<1>2. /\ UdpTypeOK /\ Queued /\ Looking /\ rcvQueue # <<>>
      /\ auto_buffer_size /\ size > 0 /\ size = Head(rcvQueue)
      /\ Len(arrived) \in Nat /\ Len(rcvQueue) \in Nat
  BY <1>1, Known DEF Looking
<1>3. /\ Gone + 1 \in 1..Len(arrived) /\ Head(rcvQueue) = arrived[Gone + 1]
      /\ Tail(rcvQueue) \in Seq(Sizes) /\ Len(Tail(rcvQueue)) = Len(rcvQueue) - 1
      /\ Len(rcvQueue) >= 1
      /\ \A i \in 1..Len(Tail(rcvQueue)) :
             Tail(rcvQueue)[i] = arrived[Len(arrived) - Len(Tail(rcvQueue)) + i]
  BY <1>1, <1>2, FrontOfQueue
<1>4. /\ rcvQueue' = Tail(rcvQueue) /\ arrived' = arrived /\ size' = size /\ port' = port
      /\ auto_buffer_size' = auto_buffer_size /\ binded_addr' = binded_addr
      /\ buffer_size' = buffer_size /\ delivered' = delivered /\ unsent' = unsent
  BY DEF Take
<1>5. Gone = Len(arrived) - Len(rcvQueue) /\ Gone' = Gone
  BY <1>1, <1>2, <1>3, <1>4 DEF Gone
<1>6. UdpTypeOK'
  BY <1>1, <1>2, <1>3, <1>4 DEF UdpTypeOK
<1>7. Queued'
  BY <1>2, <1>3, <1>4 DEF Queued
<1>8. Looking'
  <2>1. Len(arrived) - Len(Tail(rcvQueue)) = Gone + 1
    BY <1>2, <1>3, <1>5
  <2>2. Wanted(size)'
    BY <1>2, <1>4 DEF Wanted
  <2> QED
    BY <1>1, <1>2, <1>3, <1>4, <2>1, <2>2 DEF Looking
<1>9. delivered' \in Kept(arrived', WantedOf(Gone)')
  BY <1>1, <1>4, <1>5, SameGone
<1> QED
  BY <1>1, <1>6, <1>7, <1>8, <1>9 DEF UdpInv, Open

\* A peer with a fixed buffer takes the datagram with the first recvfrom(); one
\* that is empty or does not fit is done with.
LEMMA RecvFixedStep == ASSUME UdpInv, RecvFixed PROVE UdpInv'
<1>1. stage = "recv" /\ ~auto_buffer_size
  BY DEF RecvFixed
<1>2. /\ UdpTypeOK /\ Queued /\ Looking /\ rcvQueue # <<>>
      /\ buffer_size = FixedSize + 1 /\ FixedSize \in Nat /\ MaxDatagram \in Nat
      /\ Len(arrived) \in Nat /\ Len(rcvQueue) \in Nat
  BY <1>1, Known, SizesAssumption DEF Looking
<1>3. /\ Gone + 1 \in 1..Len(arrived) /\ Head(rcvQueue) = arrived[Gone + 1]
      /\ Head(rcvQueue) \in 0..MaxDatagram
      /\ Tail(rcvQueue) \in Seq(Sizes) /\ Len(Tail(rcvQueue)) = Len(rcvQueue) - 1
      /\ Len(rcvQueue) >= 1
      /\ \A i \in 1..Len(Tail(rcvQueue)) :
             Tail(rcvQueue)[i] = arrived[Len(arrived) - Len(Tail(rcvQueue)) + i]
  BY <1>1, <1>2, FrontOfQueue
<1>4. /\ rcvQueue' = Tail(rcvQueue) /\ arrived' = arrived /\ port' = port
      /\ size' = Least(Head(rcvQueue), buffer_size)
      /\ stage' = (IF size' > 0 /\ ~IsCut(size') THEN "callback" ELSE "poll")
      /\ auto_buffer_size' = auto_buffer_size /\ binded_addr' = binded_addr
      /\ buffer_size' = buffer_size /\ delivered' = delivered /\ unsent' = unsent
  BY DEF RecvFixed
<1>5. /\ size' \in 0..MaxDatagram
      /\ size' > 0 /\ ~IsCut(size') <=> Wanted(Head(rcvQueue))
      /\ ~IsCut(size') => size' = Head(rcvQueue)
  BY <1>1, <1>2, <1>3, <1>4 DEF Least, IsCut, Wanted
<1>6. Gone = Len(arrived) - Len(rcvQueue) /\ Gone \in Nat
  BY <1>1, <1>2, <1>3 DEF Gone, Queued
<1>7. UdpTypeOK'
  BY <1>2, <1>3, <1>4, <1>5 DEF UdpTypeOK
<1>8. Queued'
  BY <1>2, <1>3, <1>4 DEF Queued
<1>9. Looking'
  <2>1. Len(arrived) - Len(Tail(rcvQueue)) = Gone + 1
    BY <1>2, <1>3, <1>6
  <2>2. stage' = "callback" => size' = arrived[Gone + 1] /\ Wanted(size)'
    BY <1>3, <1>4, <1>5 DEF Wanted
  <2> QED
    BY <1>1, <1>2, <1>3, <1>4, <2>1, <2>2 DEF Looking
<1>10. CASE Wanted(Head(rcvQueue))
  <2>1. stage' = "callback"
    BY <1>4, <1>5, <1>10
  <2>2. Gone' = Gone
    BY <1>2, <1>3, <1>4, <1>6, <2>1 DEF Gone
  <2>3. delivered' \in Kept(arrived', WantedOf(Gone)')
    BY <1>1, <1>4, <2>2, SameGone
  <2> QED
    BY <1>7, <1>8, <1>9, <2>1, <2>3 DEF UdpInv, Open
<1>11. CASE ~Wanted(Head(rcvQueue))
  <2>1. stage' = "poll"
    BY <1>4, <1>5, <1>11
  <2>2. Gone' = Gone + 1
    BY <1>2, <1>3, <1>4, <1>6, <2>1 DEF Gone
  <2>3. delivered' \in Kept(arrived', WantedOf(Gone)')
    BY <1>1, <1>3, <1>4, <1>11, <2>2, OneMore
  <2> QED
    BY <1>7, <1>8, <1>9, <2>1, <2>3 DEF UdpInv, Open
<1> QED
  BY <1>10, <1>11

\* readable_cb_ gets the datagram that was taken.
LEMMA DeliverStep == ASSUME UdpInv, Deliver PROVE UdpInv'
<1>1. stage = "callback" /\ stage' = "poll"
  BY DEF Deliver
<1>2. /\ UdpTypeOK /\ Queued /\ Looking
      /\ Len(rcvQueue) < Len(arrived)
      /\ size = arrived[Len(arrived) - Len(rcvQueue)] /\ Wanted(size)
      /\ Len(arrived) \in Nat /\ Len(rcvQueue) \in Nat
  BY <1>1, Known DEF Looking
<1>3. /\ delivered' = Append(delivered, size) /\ arrived' = arrived
      /\ rcvQueue' = rcvQueue /\ port' = port /\ size' = size
      /\ auto_buffer_size' = auto_buffer_size /\ binded_addr' = binded_addr
      /\ buffer_size' = buffer_size /\ unsent' = unsent
  BY DEF Deliver, kernelVars
<1>4. UdpTypeOK' /\ Queued' /\ Looking'
  BY <1>1, <1>2, <1>3 DEF UdpTypeOK, Queued, Looking
<1>5. Gone + 1 = Len(arrived) - Len(rcvQueue) /\ Gone' = Gone + 1
      /\ Gone + 1 \in 1..Len(arrived)
  BY <1>1, <1>2, <1>3 DEF Gone
<1>6. delivered' \in Kept(arrived', WantedOf(Gone)')
  <2>1. size = arrived[Gone + 1]
    BY <1>2, <1>5
  <2> QED
    BY <1>1, <1>2, <1>3, <1>5, <2>1, OneMore
<1> QED
  BY <1>1, <1>4, <1>6 DEF UdpInv, Open

\* The other steps: a failed recvfrom(), calls of the user, nothing at all.
LEMMA OtherStep ==
    ASSUME UdpInv,
           RecvFails \/ SendTo \/ SendToFails \/ DestroyPeer \/ UNCHANGED udpVars
    PROVE  UdpInv'
<1>1. CASE RecvFails
  <2>1. stage = "recv" /\ stage' = "poll" /\ size' = -1
    BY <1>1 DEF RecvFails
  <2>2. UdpTypeOK /\ Queued /\ Looking /\ MaxDatagram \in Nat
    BY <2>1, Known, SizesAssumption
  <2>3. UdpTypeOK' /\ Queued' /\ Looking' /\ Gone' = Gone
    BY <1>1, <2>1, <2>2 DEF RecvFails, kernelVars, UdpTypeOK, Queued, Looking, Gone
  <2>4. delivered' \in Kept(arrived', WantedOf(Gone)')
    BY <1>1, <2>1, <2>3, SameGone DEF RecvFails, kernelVars
  <2> QED
    BY <2>1, <2>3, <2>4 DEF UdpInv, Open
<1>2. CASE SendTo
  <2>1. stage = "poll" /\ stage' = "poll"
    BY <1>2 DEF SendTo
  <2>2. UdpTypeOK /\ Queued /\ Looking
    BY <2>1, Known
  <2>3. UdpTypeOK' /\ Queued' /\ Looking' /\ Gone' = Gone
    BY <1>2, <2>1, <2>2 DEF SendTo, UdpTypeOK, Queued, Looking, Gone
  <2>4. delivered' \in Kept(arrived', WantedOf(Gone)')
    BY <1>2, <2>1, <2>3, SameGone DEF SendTo
  <2> QED
    BY <2>1, <2>3, <2>4 DEF UdpInv, Open
<1>3. CASE SendToFails
  <2>1. stage = "poll" /\ stage' \in {"poll", "closed"}
    BY <1>3 DEF SendToFails
  <2>2. UdpTypeOK /\ Queued /\ Looking
    BY <2>1, Known
  <2>3. UdpTypeOK' /\ Queued' /\ Looking' /\ Gone' = Gone
    <3>1. unsent' \in BOOLEAN
      BY Zenon, <1>3 DEF SendToFails
    <3>2. unsent' <=> unsent \/ ~port
      BY <1>3 DEF SendToFails
    <3>3. port' \in BOOLEAN
      BY Zenon, <1>3 DEF SendToFails
    <3>4. UdpTypeOK'
      BY <1>3, <2>1, <2>2, <3>1, <3>3 DEF SendToFails, UdpTypeOK
    <3>5. Queued'
      <4>1. binded_addr' \/ unsent'
        <5>1. binded_addr' = binded_addr
          BY <1>3 DEF SendToFails
        <5> QED
          BY Zenon, <5>1, <2>2, <3>2 DEF Queued
      <4>2. port'
        BY Zenon, <1>3 DEF SendToFails
      <4>3. rcvQueue' = rcvQueue /\ arrived' = arrived
        BY <1>3 DEF SendToFails
      <4> QED
        BY <2>2, <4>1, <4>2, <4>3 DEF Queued
    <3>6. Looking' /\ Gone' = Gone
      BY <1>3, <2>1, <2>2 DEF SendToFails, UdpTypeOK, Looking, Gone
    <3> QED
      BY <3>4, <3>5, <3>6
  <2>4. delivered' \in Kept(arrived', WantedOf(Gone)')
    BY <1>3, <2>1, <2>3, SameGone DEF SendToFails
  <2> QED
    BY <2>1, <2>3, <2>4 DEF UdpInv, Open
<1>4. CASE DestroyPeer
  <2>1. stage' = "closed" /\ <<>> \in Seq(Sizes)
    BY <1>4 DEF DestroyPeer
  <2>2. UdpTypeOK'
    BY <1>4, <2>1 DEF DestroyPeer, UdpInv, UdpTypeOK
  <2> QED
    BY <2>1, <2>2 DEF UdpInv
<1>5. CASE UNCHANGED udpVars
  <2>1. /\ UdpTypeOK' = UdpTypeOK /\ Queued' = Queued /\ Looking' = Looking
        /\ stage' = stage /\ unsent' = unsent
    BY <1>5 DEF udpVars, kernelVars, UdpTypeOK, Queued, Looking, Wanted
  <2>2. delivered' = delivered /\ arrived' = arrived /\ WantedOf(Gone)' = WantedOf(Gone)
    BY <1>5 DEF udpVars, kernelVars, WantedOf, Wanted, Gone
  <2> QED
    BY <2>1, <2>2 DEF UdpInv, Open
<1> QED
  BY <1>1, <1>2, <1>3, <1>4, <1>5

\* WholeInOrder holds for datagrams and buffers of any sizes: every datagram
\* taken from the kernel was handed over whole, once and in order, or was empty
\* or too long, though OnMessage() looks at a datagram and takes it in two
\* calls between which others arrive, and a peer knows that it is bound unless
\* the sendto() that bound it failed.
THEOREM WholeDatagrams == UdpSpec => []WholeInOrder
<1>1. UdpInv /\ [UdpNext]_udpVars => UdpInv'
  BY ArriveStep, OnMessageStep, RecvPeekStep, TakeStep, RecvFixedStep, DeliverStep,
     OtherStep DEF UdpNext
<1>2. UdpInv => WholeInOrder
  BY DEF UdpInv, Open, WantedOf, WholeInOrder
<1> QED
  BY UdpStarts, <1>1, <1>2, PTL DEF UdpSpec
=============================================================================
