--------------------------- MODULE ConnectorProofs ---------------------------
(***************************************************************************)
(* Proofs about Connector for any number of attempts and any timing of the *)
(* retry timer, of Stop() and of the kernel.                               *)
(***************************************************************************)
EXTENDS Connector, SequenceTheorems, TLAPS

\* A queue of functors holds a Channel::Reset().
HasReset(q) == \E i \in 1..Len(q) : q[i] = "Reset"

\* There is one retry timer, known by its id; the first retry makes it.
Timer ==
    /\ armed = IF timer_id THEN 1 ELSE 0
    /\ retry_ms = 500 => ~timer_id

\* Success is counted once, hands fd_ over and ends the timer.
Success ==
    /\ connections = IF state = "kConnected" THEN 1 ELSE 0
    /\ state = "kConnected" => ~timer_id /\ fd = 0

\* Before Start() nothing has happened.
Fresh ==
    life = "new" => /\ fd = 0 /\ ~registered /\ ~timer_id /\ ~stopped
                    /\ state = "kConnecting" /\ todo = <<>>
                    /\ pedding_functors = <<>> /\ calling_functors = <<>>

\* Callbacks are made while channels are handled, functors after the timers.
Places ==
    /\ todo \in {<<>>, <<"write">>, <<"error">>, <<"write", "error">>}
    /\ todo # <<>> => phase = "handle"
    /\ calling_functors # <<>> => phase = "functors"

\* A Stop() that did not come between poll() and HandleWrite() left nothing.
Given ==
    stopped /\ ~late => fd = 0 /\ ~registered /\ ~timer_id /\ todo = <<>>

\* What holds whenever the timer fires.
Base == TypeOK /\ Timer /\ Success /\ Fresh /\ Places /\ NoLeak /\ Given

\* fd_ is the descriptor that the channel watches, and a Reset() in a queue
\* finds the channel given up.
Paired ==
    /\ ~aborted
    /\ (registered <=> fd # 0) /\ (enabled <=> registered)
    /\ registered => chanFd = fd
    /\ todo # <<>> => chanFd # 0
    /\ HasReset(pedding_functors) \/ HasReset(calling_functors) => ~registered

\* This holds until the retry timer meets an attempt or its Reset().
Calm == overwritten = {} /\ ~early => Paired

\* The inductive invariant.
IInv == Base /\ Calm

\* Appending to a queue and taking its head.
LEMMA Queues ==
    ASSUME NEW q \in Seq(Functor)
    PROVE  /\ Append(q, "Reset") \in Seq(Functor)
           /\ Append(q, "StopInLoop") \in Seq(Functor)
           /\ HasReset(Append(q, "StopInLoop")) => HasReset(q)
           /\ q # <<>> => Tail(q) \in Seq(Functor) /\ (HasReset(Tail(q)) => HasReset(q))
           /\ q # <<>> /\ Head(q) = "Reset" => HasReset(q)
<1>1. "Reset" \in Functor /\ "StopInLoop" \in Functor
  BY DEF Functor
<1>2. HasReset(Append(q, "StopInLoop")) => HasReset(q)
  <2>1. /\ Len(Append(q, "StopInLoop")) = Len(q) + 1 /\ Len(q) \in Nat
        /\ \A i \in 1..Len(q) : Append(q, "StopInLoop")[i] = q[i]
        /\ Append(q, "StopInLoop")[Len(q) + 1] = "StopInLoop"
    BY <1>1, AppendProperties, LenProperties
  <2> QED
    BY <2>1 DEF HasReset
<1>3. ASSUME q # <<>>
      PROVE  /\ Tail(q) \in Seq(Functor) /\ (HasReset(Tail(q)) => HasReset(q))
             /\ Head(q) = "Reset" => HasReset(q)
  <2>1. /\ Tail(q) \in Seq(Functor) /\ Len(Tail(q)) = Len(q) - 1 /\ Len(q) \in Nat
        /\ \A i \in 1..Len(Tail(q)) : Tail(q)[i] = q[i + 1]
        /\ Head(q) = q[1] /\ Len(q) # 0
    BY <1>3
  <2> QED
    BY <2>1 DEF HasReset
<1> QED
  BY <1>1, <1>2, <1>3

\* An empty queue holds none.
LEMMA EmptyQueue == ~HasReset(<<>>)
  BY DEF HasReset

\* The callbacks of a channel, and what is left of them after the first.
LEMMA Todo ==
    ASSUME Places, todo # <<>>
    PROVE  /\ Head(todo) = "error" <=> todo = <<"error">>
           /\ Tail(todo) \in {<<>>, <<"error">>}
           /\ Tail(todo) \in Seq({"write", "error"})
           /\ Tail(todo) # <<>> => Head(todo) = "write"
<1>1. CASE todo = <<"write">> \/ todo = <<"error">>
  <2>1. PICK h \in {"write", "error"} : todo = <<h>>
    BY <1>1
  <2>2. todo \in Seq({"write", "error"}) /\ Len(todo) = 1 /\ Head(todo) = h
    BY <2>1
  <2>3. Tail(todo) \in Seq({"write", "error"}) /\ Len(Tail(todo)) = 0
    BY <2>2, HeadTailProperties
  <2>4. Tail(todo) = <<>>
    BY <2>3, EmptySeq
  <2>5. Head(todo) = "error" <=> todo = <<"error">>
    BY <2>1, <2>2
  <2> QED
    BY <2>3, <2>4, <2>5
<1>2. CASE todo = <<"write", "error">>
  <2>1. Tail(todo) = <<"error">> /\ Tail(todo) \in Seq({"write", "error"})
    BY <1>2
  <2>2. Head(todo) = "write" /\ todo # <<"error">>
    BY <1>2
  <2> QED
    BY <2>1, <2>2
<1> QED
  BY <1>1, <1>2 DEF Places

\* The constructor's state.
LEMMA InitIInv == Init => IInv
<1> SUFFICES ASSUME Init PROVE IInv
  OBVIOUS
<1>1. <<>> \in Seq(Functor) /\ <<>> \in Seq({"write", "error"}) /\ ~HasReset(<<>>)
  BY DEF HasReset
<1>2. /\ "none" \in Outcome /\ 0 \in 0..MaxAttempts
      /\ 0 \in Nat /\ 500 \in Nat /\ 500 <= 500 /\ 500 <= 30000
  BY AttemptsAssumption DEF Outcome
<1>3. TypeOK
  <2>1. /\ life \in {"new", "started", "destroyed"}
        /\ state \in {"kConnecting", "kConnected"}
        /\ phase \in {"poll", "handle", "timers", "functors"}
        /\ timer_id \in BOOLEAN /\ registered \in BOOLEAN /\ enabled \in BOOLEAN
        /\ aborted \in BOOLEAN /\ due \in BOOLEAN /\ stopped \in BOOLEAN
        /\ late \in BOOLEAN /\ early \in BOOLEAN
    BY DEF Init
  <2>2. /\ todo \in Seq({"write", "error"}) /\ sockets \in SUBSET (1..MaxAttempts)
        /\ pedding_functors \in Seq(Functor) /\ calling_functors \in Seq(Functor)
        /\ overwritten \in SUBSET (1..MaxAttempts)
    BY <1>1 DEF Init
  <2>3. /\ fd \in 0..MaxAttempts /\ chanFd \in 0..MaxAttempts
        /\ retry_ms \in Nat /\ 500 <= retry_ms /\ retry_ms <= 30000
        /\ armed \in Nat /\ outcome \in Outcome
        /\ attempts \in 0..MaxAttempts /\ connections \in Nat
    BY <1>2 DEF Init
  <2> QED
    BY <2>1, <2>2, <2>3 DEF TypeOK
<1>4. Timer /\ Success /\ Fresh /\ Places /\ Given
  BY DEF Init, Timer, Success, Fresh, Places, Given
<1>5. NoLeak
  BY DEF Init, NoLeak
<1>6. Calm
  BY <1>1 DEF Init, Calm, Paired
<1> QED
  BY <1>3, <1>4, <1>5, <1>6 DEF IInv, Base

-----------------------------------------------------------------------------
(* The pieces the operations are made of.                                  *)

\* A flag that is FALSE: the SMT backend reads x = FALSE as ~x and loses that
\* x is a boolean.
Off(x) == x \in BOOLEAN /\ ~x

\* A flag that was assigned FALSE is off.
LEMMA Falsity == ASSUME NEW x, x = FALSE PROVE Off(x)
  BY Zenon DEF Off

\* Retry() adds the timer once.
LEMMA RetryPiece ==
    ASSUME TypeOK, Timer, Retry
    PROVE  /\ retry_ms' \in Nat /\ 500 < retry_ms' /\ retry_ms' <= 30000
           /\ timer_id' \in BOOLEAN /\ armed' \in Nat
           /\ armed' = IF timer_id' THEN 1 ELSE 0
<1>1. /\ retry_ms \in Nat /\ 500 <= retry_ms /\ retry_ms <= 30000
      /\ timer_id \in BOOLEAN /\ armed \in Nat
      /\ armed = IF timer_id THEN 1 ELSE 0
      /\ retry_ms = 500 => ~timer_id
  BY DEF Timer, TypeOK
<1>2. retry_ms' = Doubled /\ 500 < Doubled /\ Doubled <= 30000 /\ Doubled \in Nat
  BY <1>1 DEF Retry, Doubled
<1>3. CASE retry_ms = 500
  <2>1. armed' = armed + 1
    BY <1>3 DEF Retry, FirstRetry
  <2>2. timer_id' = TRUE
    BY Zenon, <1>3 DEF Retry, FirstRetry
  <2> QED
    BY <1>1, <1>2, <1>3, <2>1, <2>2
<1>4. CASE retry_ms # 500
  <2>1. armed' = armed
    BY <1>4 DEF Retry, FirstRetry
  <2>2. timer_id' = timer_id
    <3>1. timer_id \in BOOLEAN /\ ~FirstRetry
      BY <1>1, <1>4 DEF FirstRetry
    <3>2. timer_id' = (timer_id \/ FirstRetry)
      BY DEF Retry
    <3> QED
      BY Zenon, <3>1, <3>2
  <2> QED
    BY <1>1, <1>2, <2>1, <2>2
<1> QED
  BY <1>3, <1>4

\* CancelTimer() leaves none.
LEMMA CancelPiece ==
    ASSUME TypeOK, Timer, CancelTimer PROVE Off(timer_id') /\ armed' = 0
<1>1. Off(timer_id')
  BY Falsity DEF CancelTimer
<1>2. armed' = 0
  BY DEF Timer, TypeOK, CancelTimer
<1> QED
  BY <1>1, <1>2

\* close(fd_).
LEMMA ClosePiece ==
    ASSUME TypeOK, NoLeak, CloseFd
    PROVE  /\ fd' = 0 /\ fd' \in 0..MaxAttempts
           /\ sockets' \in SUBSET (1..MaxAttempts) /\ sockets' \subseteq overwritten
  BY AttemptsAssumption DEF TypeOK, NoLeak, CloseFd

\* The effect of an attempt whatever the channel is doing.
Attempted ==
    /\ fd' \in 0..MaxAttempts /\ chanFd' \in 0..MaxAttempts
    /\ aborted' \in BOOLEAN /\ registered' \in BOOLEAN /\ enabled' \in BOOLEAN
    /\ sockets' \in SUBSET (1..MaxAttempts) /\ sockets' \subseteq sockets \cup {fd'}
    /\ outcome' \in Outcome /\ attempts' \in 0..MaxAttempts
    /\ state' = state \/ state' = "kConnecting"
    /\ retry_ms' \in Nat /\ 500 <= retry_ms' /\ retry_ms' <= 30000
    /\ timer_id' \in BOOLEAN /\ armed' \in Nat
    /\ Timer'
    /\ pedding_functors' = pedding_functors /\ connections' = connections

\* The attempt's effect on an idle channel: it watches fd_, or there is none.
Watches ==
    /\ ~aborted'
    /\ (registered' <=> fd' # 0) /\ (enabled' <=> registered')
    /\ registered' => chanFd' = fd'

\* An attempt.
LEMMA ConnectPiece ==
    ASSUME TypeOK, Timer, ConnectOnce
    PROVE  /\ Attempted
           /\ ~registered /\ ~enabled /\ ~aborted => Watches
<1>0. /\ attempts' = attempts + 1 /\ attempts + 1 \in 1..MaxAttempts
      /\ pedding_functors' = pedding_functors /\ connections' = connections
      /\ enabled \in BOOLEAN /\ registered \in BOOLEAN /\ aborted \in BOOLEAN
      /\ chanFd \in 0..MaxAttempts /\ sockets \in SUBSET (1..MaxAttempts)
  BY AttemptsAssumption DEF TypeOK, ConnectOnce
<1>1. CASE /\ outcome' = "pending" /\ fd' = attempts + 1
           /\ sockets' = sockets \cup {attempts + 1}
           /\ Connecting(attempts + 1) /\ UNCHANGED timerVars
  <2>1. /\ state' = "kConnecting" /\ chanFd' = attempts + 1 /\ registered' /\ enabled'
        /\ ~registered => ~aborted'
    BY <1>1 DEF Connecting
  <2>2. registered' \in BOOLEAN /\ enabled' \in BOOLEAN /\ aborted' \in BOOLEAN
    BY Zenon, <1>1 DEF Connecting
  <2>3. outcome' \in Outcome
    BY <1>1 DEF Outcome
  <2>4. retry_ms' = retry_ms /\ timer_id' = timer_id /\ armed' = armed
    BY <1>1 DEF timerVars
  <2>5. Timer'
    BY <2>4 DEF Timer
  <2>6. sockets' \in SUBSET (1..MaxAttempts) /\ sockets' \subseteq sockets \cup {fd'}
    BY <1>0, <1>1
  <2>7. Attempted
    BY <1>0, <1>1, <2>1, <2>2, <2>3, <2>4, <2>5, <2>6, AttemptsAssumption
    DEF TypeOK, Attempted
  <2>8. ~registered => Watches
    BY <1>0, <1>1, <2>1 DEF Watches, TypeOK
  <2> QED
    BY <2>7, <2>8
<1>2. ASSUME NEW res \in {"fatal", "temporary"},
             /\ outcome' = IF registered THEN outcome ELSE res
             /\ fd' = 0
             /\ UNCHANGED <<sockets, state, channelVars, aborted>>
             /\ IF res = "temporary" THEN Retry ELSE UNCHANGED timerVars
      PROVE  Attempted /\ (~registered /\ ~enabled /\ ~aborted => Watches)
  <2>1. /\ chanFd' = chanFd /\ registered' = registered /\ enabled' = enabled
        /\ sockets' = sockets /\ state' = state /\ aborted' = aborted
    BY <1>2 DEF channelVars
  <2>2. outcome' \in Outcome
    BY <1>2 DEF Outcome, TypeOK
  <2>3. /\ retry_ms' \in Nat /\ 500 <= retry_ms' /\ retry_ms' <= 30000
        /\ timer_id' \in BOOLEAN /\ armed' \in Nat /\ Timer'
    <3>1. CASE Retry
      BY <3>1, RetryPiece DEF Timer
    <3>2. CASE UNCHANGED timerVars
      <4>1. retry_ms' = retry_ms /\ timer_id' = timer_id /\ armed' = armed
        BY <3>2 DEF timerVars
      <4> QED
        BY <4>1 DEF Timer, TypeOK
    <3> QED
      BY <1>2, <3>1, <3>2
  <2>4. fd' \in 0..MaxAttempts
    BY <1>2, AttemptsAssumption
  <2>5. Attempted
    BY <1>0, <2>1, <2>2, <2>3, <2>4, AttemptsAssumption DEF Attempted
  <2>6. ~registered /\ ~enabled /\ ~aborted => Watches
    BY <1>0, <1>2, <2>1 DEF Watches
  <2> QED
    BY <2>5, <2>6
<1> QED
  BY <1>1, <1>2 DEF ConnectOnce

\* RemoveAndResetChannel().
LEMMA ResetPiece ==
    ASSUME pedding_functors \in Seq(Functor), RemoveAndResetChannel
    PROVE  /\ Off(registered') /\ Off(enabled') /\ chanFd' = chanFd
           /\ aborted' \in BOOLEAN /\ (aborted' => chanFd = 0)
           /\ pedding_functors' \in Seq(Functor)
<1>1. aborted' \in BOOLEAN /\ (aborted' => chanFd = 0)
  BY Zenon DEF RemoveAndResetChannel
<1>2. pedding_functors' \in Seq(Functor)
  BY Queues DEF RemoveAndResetChannel
<1>3. Off(registered') /\ Off(enabled') /\ chanFd' = chanFd
  BY Falsity DEF RemoveAndResetChannel
<1> QED
  BY <1>1, <1>2, <1>3

\* The effect of StopInLoop(): descriptor, channel and timer are released.
Released ==
    /\ fd' = 0 /\ fd' \in 0..MaxAttempts /\ chanFd' = chanFd
    /\ sockets' \in SUBSET (1..MaxAttempts) /\ sockets' \subseteq overwritten
    /\ Off(registered') /\ enabled' \in BOOLEAN /\ aborted' \in BOOLEAN
    /\ pedding_functors' \in Seq(Functor)
    /\ Off(timer_id') /\ armed' = 0
    /\ stopped' \in BOOLEAN /\ late' \in BOOLEAN /\ (late' <=> todo # <<>>)
    /\ retry_ms' = retry_ms /\ state' = state /\ outcome' = outcome
    /\ attempts' = attempts /\ connections' = connections
    /\ overwritten' = overwritten /\ early' = early
    /\ Paired => ~enabled' /\ ~aborted'

\* StopInLoop().
LEMMA StopPiece == ASSUME TypeOK, Timer, NoLeak, StopInLoop PROVE Released
<1>0. /\ pedding_functors \in Seq(Functor) /\ sockets \in SUBSET (1..MaxAttempts)
      /\ enabled \in BOOLEAN /\ registered \in BOOLEAN /\ aborted \in BOOLEAN
      /\ sockets \subseteq {fd} \cup overwritten /\ fd \in 0..MaxAttempts
  BY DEF TypeOK, NoLeak
<1>1. /\ fd' = 0 /\ fd' \in 0..MaxAttempts
      /\ sockets' \in SUBSET (1..MaxAttempts) /\ sockets' \subseteq overwritten
  <2>1. CASE fd # 0
    BY <2>1, ClosePiece DEF StopInLoop
  <2>2. CASE fd = 0
    <3>1. fd' = fd /\ sockets' = sockets
      BY <2>2 DEF StopInLoop
    <3>2. 0 \notin sockets
      BY <1>0
    <3> QED
      BY <1>0, <2>2, <3>1, <3>2
  <2> QED
    BY <2>1, <2>2
<1>2. /\ chanFd' = chanFd /\ Off(registered') /\ enabled' \in BOOLEAN
      /\ aborted' \in BOOLEAN /\ pedding_functors' \in Seq(Functor)
      /\ Paired => ~enabled' /\ ~aborted'
  <2>1. CASE registered
    <3>1. RemoveAndResetChannel
      BY <1>0, <2>1 DEF StopInLoop
    <3>2. /\ Off(registered') /\ Off(enabled') /\ chanFd' = chanFd
          /\ aborted' \in BOOLEAN /\ (aborted' => chanFd = 0)
          /\ pedding_functors' \in Seq(Functor)
      BY <1>0, <3>1, ResetPiece
    <3>3. Paired => chanFd # 0
      BY <2>1 DEF Paired
    <3> QED
      BY <3>2, <3>3 DEF Off
  <2>2. CASE ~registered
    <3>1. /\ chanFd' = chanFd /\ registered' = registered /\ enabled' = enabled
          /\ aborted' = aborted /\ pedding_functors' = pedding_functors
      BY <2>2 DEF StopInLoop, channelVars
    <3> QED
      BY <1>0, <2>2, <3>1 DEF Paired, Off
  <2> QED
    BY <2>1, <2>2
<1>3. Off(timer_id') /\ armed' = 0
  BY CancelPiece DEF StopInLoop
<1>4. stopped' \in BOOLEAN /\ late' \in BOOLEAN /\ (late' <=> todo # <<>>)
  BY Zenon DEF StopInLoop
<1>5. /\ retry_ms' = retry_ms /\ state' = state /\ outcome' = outcome
      /\ attempts' = attempts /\ connections' = connections
      /\ overwritten' = overwritten /\ early' = early
  BY DEF StopInLoop, meetings
<1> QED
  BY <1>1, <1>2, <1>3, <1>4, <1>5 DEF Released

-----------------------------------------------------------------------------
(* The actions.                                                            *)

\* Start(): the first attempt, before anything was queued.
LEMMA StartStep == ASSUME IInv, Start PROVE IInv'
<1>0. /\ TypeOK /\ Timer /\ Success /\ NoLeak /\ Places /\ Calm
      /\ fd = 0 /\ ~registered /\ state = "kConnecting" /\ ~stopped /\ todo = <<>>
      /\ pedding_functors = <<>> /\ calling_functors = <<>>
  BY DEF IInv, Base, Fresh, Start
<1>1. /\ life' = "started" /\ phase' = phase /\ due' = due /\ todo' = todo
      /\ calling_functors' = calling_functors /\ stopped' = stopped /\ late' = late
      /\ overwritten' = overwritten /\ early' = early
  BY DEF Start, meetings
<1>2. Attempted /\ (~registered /\ ~enabled /\ ~aborted => Watches)
  BY <1>0, ConnectPiece DEF Start
<1>3. TypeOK'
  BY <1>0, <1>1, <1>2 DEF TypeOK, Attempted
<1>4. Timer' /\ Success' /\ Fresh' /\ Places' /\ Given'
  BY <1>0, <1>1, <1>2 DEF Success, Fresh, Places, Given, Attempted
<1>5. NoLeak'
  BY <1>0, <1>1, <1>2 DEF NoLeak, Attempted, TypeOK
<1>6. Calm'
  <2> SUFFICES ASSUME overwritten' = {}, ~early' PROVE Paired'
    BY DEF Calm
  <2>1. Paired
    BY <1>0, <1>1 DEF Calm
  <2>2. Watches
    BY <1>0, <1>2, <2>1 DEF Paired
  <2>3. /\ pedding_functors' = <<>> /\ calling_functors' = <<>> /\ todo' = <<>>
    BY <1>0, <1>1, <1>2 DEF Attempted
  <2> QED
    BY <2>2, <2>3, EmptyQueue DEF Paired, Watches
<1> QED
  BY <1>3, <1>4, <1>5, <1>6 DEF IInv, Base

\* StopInLoop(), called or run as a functor.
LEMMA StopInLoopStep ==
    ASSUME IInv, StopInLoop, todo' = todo, phase' = phase, due' = due,
           life' \in {"started", "destroyed"},
           calling_functors' \in Seq(Functor),
           HasReset(calling_functors') => HasReset(calling_functors),
           calling_functors' # <<>> => calling_functors # <<>>
    PROVE  IInv'
<1>0. TypeOK /\ Timer /\ Success /\ NoLeak /\ Places /\ Calm
  BY DEF IInv, Base
<1>1. Released
  BY <1>0, StopPiece
<1>2. TypeOK'
  BY <1>0, <1>1 DEF TypeOK, Released, Off
<1>3. Timer' /\ Success' /\ Fresh' /\ Places'
  BY <1>0, <1>1 DEF Timer, Success, Fresh, Places, Released, Off
<1>4. NoLeak'
  BY <1>1 DEF NoLeak, Released
<1>5. Given'
  BY <1>1 DEF Given, Released, Off
<1>6. Calm'
  BY <1>0, <1>1 DEF Calm, Paired, Released, Off
<1> QED
  BY <1>2, <1>3, <1>4, <1>5, <1>6 DEF IInv, Base

\* The three ways StopInLoop() is reached.
LEMMA StopStep == ASSUME IInv, Stop \/ Destroy \/ RunStopInLoop PROVE IInv'
<1>0. calling_functors \in Seq(Functor)
  BY DEF IInv, Base, TypeOK
<1>1. CASE Stop
  <2>1. /\ StopInLoop /\ todo' = todo /\ phase' = phase /\ due' = due
        /\ life' = "started" /\ calling_functors' = calling_functors
    BY <1>1 DEF Stop
  <2> QED
    BY <1>0, <2>1, StopInLoopStep
<1>2. CASE Destroy
  <2>1. /\ StopInLoop /\ todo' = todo /\ phase' = phase /\ due' = due
        /\ life' = "destroyed" /\ calling_functors' = calling_functors
    BY <1>2 DEF Destroy
  <2> QED
    BY <1>0, <2>1, StopInLoopStep
<1>3. CASE RunStopInLoop
  <2>1. /\ StopInLoop /\ todo' = todo /\ phase' = phase /\ due' = due
        /\ life' = life /\ calling_functors' = Tail(calling_functors)
        /\ calling_functors # <<>> /\ life # "destroyed"
    BY <1>3 DEF RunStopInLoop, Running, Alive
  <2>2. life' \in {"started", "destroyed"}
    BY <2>1 DEF IInv, Base, Fresh, TypeOK
  <2> QED
    BY <1>0, <2>1, <2>2, Queues, StopInLoopStep
<1> QED
  BY <1>1, <1>2, <1>3

\* StopFromOtherThread(): one functor more.
LEMMA StopFromOtherThreadStep == ASSUME IInv, StopFromOtherThread PROVE IInv'
<1>0. TypeOK /\ Timer /\ Success /\ Fresh /\ NoLeak /\ Places /\ Given /\ Calm
  BY DEF IInv, Base
<1>1. /\ life' = life /\ fd' = fd /\ state' = state /\ phase' = phase /\ due' = due
      /\ aborted' = aborted /\ todo' = todo /\ sockets' = sockets /\ outcome' = outcome
      /\ attempts' = attempts /\ connections' = connections /\ stopped' = stopped
      /\ calling_functors' = calling_functors
      /\ retry_ms' = retry_ms /\ timer_id' = timer_id /\ armed' = armed
      /\ chanFd' = chanFd /\ registered' = registered /\ enabled' = enabled
      /\ late' = late /\ overwritten' = overwritten /\ early' = early
      /\ life = "started"
  BY DEF StopFromOtherThread, channelVars, timerVars, meetings
<1>2. /\ pedding_functors' \in Seq(Functor)
      /\ HasReset(pedding_functors') => HasReset(pedding_functors)
  BY <1>0, Queues DEF StopFromOtherThread, TypeOK
<1>3. TypeOK'
  BY <1>0, <1>1, <1>2 DEF TypeOK
<1>4. Timer' /\ Success' /\ Fresh' /\ Places' /\ Given' /\ NoLeak'
  BY <1>0, <1>1 DEF Timer, Success, Fresh, Places, Given, NoLeak
<1>5. Calm'
  BY <1>0, <1>1, <1>2 DEF Calm, Paired
<1> QED
  BY <1>3, <1>4, <1>5 DEF IInv, Base

\* The steps of the kernel and the loop's own that touch neither the channel
\* nor the timer.
LEMMA PassStep ==
    ASSUME IInv, ConnectDecided \/ TimerDue \/ PollUntil \/ ChannelsDone \/ FunctorsDone
    PROVE  IInv'
<1>0. TypeOK /\ Timer /\ Success /\ Fresh /\ NoLeak /\ Places /\ Given /\ Calm
  BY DEF IInv, Base
<1>1. /\ life' = life /\ fd' = fd /\ state' = state
      /\ aborted' = aborted /\ sockets' = sockets
      /\ attempts' = attempts /\ connections' = connections /\ stopped' = stopped
      /\ pedding_functors' = pedding_functors /\ calling_functors' = calling_functors
      /\ retry_ms' = retry_ms /\ timer_id' = timer_id /\ armed' = armed
      /\ chanFd' = chanFd /\ registered' = registered /\ enabled' = enabled
      /\ late' = late /\ overwritten' = overwritten /\ early' = early
  BY DEF ConnectDecided, TimerDue, PollUntil, ChannelsDone, FunctorsDone, channelVars,
         timerVars, meetings
<1>2. outcome' \in Outcome
  BY <1>0 DEF ConnectDecided, TimerDue, PollUntil, ChannelsDone, FunctorsDone, Outcome, TypeOK
<1>3. due' \in BOOLEAN
  <2>1. CASE TimerDue
    BY Zenon, <2>1 DEF TimerDue
  <2>2. CASE ConnectDecided \/ PollUntil \/ ChannelsDone \/ FunctorsDone
    BY <1>0, <2>2 DEF ConnectDecided, PollUntil, ChannelsDone, FunctorsDone, TypeOK
  <2> QED
    BY <2>1, <2>2
<1>4. phase' \in {"poll", "handle", "timers", "functors"}
  BY <1>0 DEF ConnectDecided, TimerDue, PollUntil, ChannelsDone, FunctorsDone, TypeOK
<1>5. /\ todo' \in {<<>>, <<"write">>, <<"error">>, <<"write", "error">>}
      /\ todo' = todo \/ (todo' # <<>> => phase' = "handle" /\ registered)
  <2>1. CASE PollUntil
    BY <2>1 DEF PollUntil
  <2>2. CASE ConnectDecided \/ TimerDue \/ ChannelsDone \/ FunctorsDone
    BY <1>0, <2>2 DEF ConnectDecided, TimerDue, ChannelsDone, FunctorsDone, Places
  <2> QED
    BY <2>1, <2>2
<1>6. todo' \in Seq({"write", "error"})
  <2>1. /\ <<>> \in Seq({"write", "error"}) /\ <<"error">> \in Seq({"write", "error"})
        /\ <<"write">> \in Seq({"write", "error"})
        /\ <<"write", "error">> \in Seq({"write", "error"})
    OBVIOUS
  <2> QED
    BY Zenon, <1>5, <2>1
<1>7. /\ todo' = todo => phase' = phase \/ todo = <<>>
      /\ phase' = phase \/ calling_functors = <<>>
  BY <1>0 DEF ConnectDecided, TimerDue, PollUntil, ChannelsDone, FunctorsDone, Places
<1>8. TypeOK'
  BY <1>0, <1>1, <1>2, <1>3, <1>4, <1>6 DEF TypeOK
<1>9. Timer' /\ Success' /\ NoLeak'
  BY <1>0, <1>1 DEF Timer, Success, NoLeak
<1>10. Fresh' /\ Given'
  BY <1>0, <1>1, <1>5 DEF Fresh, Given
<1>11. Places'
  BY <1>0, <1>1, <1>5, <1>7 DEF Places
<1>12. Calm'
  BY <1>0, <1>1, <1>5 DEF Calm, Paired
<1> QED
  BY <1>8, <1>9, <1>10, <1>11, <1>12 DEF IInv, Base

\* A callback of the channel, which closes fd_ or finds it closed.
LEMMA HandleStep ==
    ASSUME IInv, NEW h, Handling(h), outcome' = outcome,
           fd' = 0, sockets' \in SUBSET (1..MaxAttempts), sockets' \subseteq overwritten,
           chanFd' = chanFd, aborted' \in BOOLEAN, enabled' \in BOOLEAN,
           registered' \in BOOLEAN, registered' => registered,
           pedding_functors' \in Seq(Functor),
           retry_ms' \in Nat, 500 <= retry_ms', retry_ms' <= 30000,
           timer_id' \in BOOLEAN, armed' \in Nat, Timer',
           state' \in {"kConnecting", "kConnected"}, connections' \in Nat, Success',
           Paired => ~aborted' /\ ~registered' /\ ~enabled'
    PROVE  IInv'
<1>0. /\ TypeOK /\ Fresh /\ Places /\ Given /\ Calm
      /\ phase = "handle" /\ todo # <<>> /\ todo' = Tail(todo)
      /\ life' = life /\ phase' = phase /\ due' = due /\ attempts' = attempts
      /\ calling_functors' = calling_functors /\ stopped' = stopped /\ late' = late
      /\ overwritten' = overwritten /\ early' = early
  BY DEF IInv, Base, Handling, meetings
<1>1. Tail(todo) \in {<<>>, <<"error">>} /\ Tail(todo) \in Seq({"write", "error"})
  BY <1>0, Todo
<1>2. TypeOK'
  <2>1. fd' \in 0..MaxAttempts
    BY AttemptsAssumption
  <2> QED
    BY <1>0, <1>1, <2>1 DEF TypeOK
<1>3. Places'
  <2>1. todo' \in {<<>>, <<"write">>, <<"error">>, <<"write", "error">>}
    BY <1>0, <1>1
  <2> QED
    BY <1>0, <2>1 DEF Places
<1>4. Fresh' /\ Given'
  BY <1>0 DEF Fresh, Given
<1>5. NoLeak'
  BY <1>0 DEF NoLeak
<1>6. Calm'
  BY <1>0, <1>1 DEF Calm, Paired
<1> QED
  BY <1>2, <1>3, <1>4, <1>5, <1>6 DEF IInv, Base

\* HandleWrite() of a failed attempt.
LEMMA HandleWriteFailsStep == ASSUME IInv, HandleWriteFails PROVE IInv'
<1>0. /\ TypeOK /\ Timer /\ Success /\ NoLeak
      /\ Handling("write") /\ todo # <<>> /\ state = "kConnecting"
      /\ state' = state /\ outcome' = outcome /\ connections' = connections
      /\ RemoveAndResetChannel /\ CloseFd /\ Retry
  BY DEF IInv, Base, HandleWriteFails, Handling
<1>1. /\ fd' = 0
      /\ sockets' \in SUBSET (1..MaxAttempts) /\ sockets' \subseteq overwritten
  BY <1>0, ClosePiece
<1>2. /\ Off(registered') /\ Off(enabled') /\ chanFd' = chanFd
      /\ aborted' \in BOOLEAN /\ (aborted' => chanFd = 0)
      /\ pedding_functors' \in Seq(Functor)
  BY <1>0, ResetPiece DEF TypeOK
<1>3. /\ retry_ms' \in Nat /\ 500 < retry_ms' /\ retry_ms' <= 30000
      /\ timer_id' \in BOOLEAN /\ armed' \in Nat
      /\ armed' = IF timer_id' THEN 1 ELSE 0
  BY <1>0, RetryPiece
<1>4. Timer' /\ 500 <= retry_ms'
  BY <1>3 DEF Timer
<1>5. /\ state' \in {"kConnecting", "kConnected"} /\ connections' \in Nat /\ Success'
  BY <1>0 DEF Success, TypeOK
<1>6. Paired => ~aborted' /\ ~registered' /\ ~enabled'
  BY <1>0, <1>2 DEF Paired, Off
<1>7. registered' \in BOOLEAN /\ enabled' \in BOOLEAN /\ (registered' => registered)
  BY <1>2 DEF Off
<1> QED
  BY <1>0, <1>1, <1>2, <1>3, <1>4, <1>5, <1>6, <1>7, HandleStep

\* HandleWrite() of an attempt that succeeded: fd_ is handed over.
LEMMA HandleWriteConnectedStep == ASSUME IInv, HandleWriteConnected PROVE IInv'
<1>0. /\ TypeOK /\ Timer /\ Success /\ NoLeak
      /\ Handling("write") /\ todo # <<>> /\ state = "kConnecting"
      /\ state' = "kConnected" /\ outcome' = outcome /\ connections' = connections + 1
      /\ RemoveAndResetChannel /\ CloseFd /\ CancelTimer /\ retry_ms' = retry_ms
  BY DEF IInv, Base, HandleWriteConnected, Handling, CloseFd
<1>1. /\ fd' = 0
      /\ sockets' \in SUBSET (1..MaxAttempts) /\ sockets' \subseteq overwritten
  BY <1>0, ClosePiece
<1>2. /\ Off(registered') /\ Off(enabled') /\ chanFd' = chanFd
      /\ aborted' \in BOOLEAN /\ (aborted' => chanFd = 0)
      /\ pedding_functors' \in Seq(Functor)
  BY <1>0, ResetPiece DEF TypeOK
<1>3. Off(timer_id') /\ armed' = 0
  BY <1>0, CancelPiece
<1>4. Timer' /\ timer_id' \in BOOLEAN /\ armed' \in Nat
  BY <1>0, <1>3 DEF Timer, Off
<1>5. /\ state' \in {"kConnecting", "kConnected"} /\ connections' \in Nat /\ Success'
  BY <1>0, <1>1, <1>3 DEF Success, Off
<1>6. Paired => ~aborted' /\ ~registered' /\ ~enabled'
  BY <1>0, <1>2 DEF Paired, Off
<1>7. registered' \in BOOLEAN /\ enabled' \in BOOLEAN /\ (registered' => registered)
  BY <1>2 DEF Off
<1>8. retry_ms' \in Nat /\ 500 <= retry_ms' /\ retry_ms' <= 30000
  BY <1>0 DEF TypeOK
<1> QED
  BY <1>0, <1>1, <1>2, <1>4, <1>5, <1>6, <1>7, <1>8, HandleStep

\* HandleError(), after the HandleWrite() of the same socket.
LEMMA HandleErrorStep == ASSUME IInv, HandleError PROVE IInv'
<1>0. /\ TypeOK /\ Timer /\ Success /\ NoLeak
      /\ Handling("error") /\ todo # <<>>
      /\ state' = state /\ outcome' = outcome /\ connections' = connections
      /\ retry_ms' = retry_ms /\ timer_id' = timer_id /\ armed' = armed
  BY DEF IInv, Base, HandleError, Handling, timerVars
<1>1. /\ pedding_functors \in Seq(Functor) /\ sockets \in SUBSET (1..MaxAttempts)
      /\ enabled \in BOOLEAN /\ registered \in BOOLEAN /\ aborted \in BOOLEAN
      /\ sockets \subseteq {fd} \cup overwritten
  BY <1>0 DEF TypeOK, NoLeak
<1>2. 0 \notin sockets
  BY <1>1
<1>3. /\ fd' = 0
      /\ sockets' \in SUBSET (1..MaxAttempts) /\ sockets' \subseteq overwritten
  <2>1. CASE state = "kConnecting" /\ fd # 0
    BY <1>0, <2>1, ClosePiece DEF HandleError
  <2>2. CASE ~(state = "kConnecting" /\ fd # 0)
    <3>1. fd' = fd /\ sockets' = sockets /\ fd = 0
      BY <1>0, <2>2 DEF HandleError, Success, TypeOK
    <3> QED
      BY <1>1, <1>2, <3>1
  <2> QED
    BY <2>1, <2>2
<1>4. /\ registered' \in BOOLEAN /\ enabled' \in BOOLEAN /\ (registered' => registered)
      /\ chanFd' = chanFd /\ aborted' \in BOOLEAN /\ pedding_functors' \in Seq(Functor)
      /\ Paired => ~aborted' /\ ~registered' /\ ~enabled'
  <2>1. CASE state # "kConnecting"
    <3>1. /\ chanFd' = chanFd /\ registered' = registered /\ enabled' = enabled
          /\ aborted' = aborted /\ pedding_functors' = pedding_functors /\ fd = 0
      BY <1>0, <2>1 DEF HandleError, channelVars, Success, TypeOK
    <3> QED
      BY <1>1, <3>1 DEF Paired
  <2>2. CASE state = "kConnecting"
    <3>1. RemoveAndResetChannel
      BY <2>2 DEF HandleError
    <3>2. /\ Off(registered') /\ Off(enabled') /\ chanFd' = chanFd
          /\ aborted' \in BOOLEAN /\ (aborted' => chanFd = 0)
          /\ pedding_functors' \in Seq(Functor)
      BY <1>1, <3>1, ResetPiece
    <3> QED
      BY <1>0, <3>2 DEF Paired, Off
  <2> QED
    BY <2>1, <2>2
<1>5. /\ Timer' /\ Success'
      /\ retry_ms' \in Nat /\ 500 <= retry_ms' /\ retry_ms' <= 30000
      /\ timer_id' \in BOOLEAN /\ armed' \in Nat
      /\ state' \in {"kConnecting", "kConnected"} /\ connections' \in Nat
  BY <1>0, <1>3 DEF TypeOK, Timer, Success
<1> QED
  BY <1>0, <1>3, <1>4, <1>5, HandleStep

\* The retry timer makes an attempt, whatever became of the last one.
LEMMA RetryTimerStep == ASSUME IInv, RetryTimer PROVE IInv'
<1>0. TypeOK /\ Timer /\ Success /\ Fresh /\ NoLeak /\ Places /\ Given /\ Calm
  BY DEF IInv, Base
<1>1. /\ life' = life /\ phase' = phase /\ todo' = todo /\ phase = "timers"
      /\ calling_functors' = calling_functors /\ stopped' = stopped /\ late' = late
      /\ overwritten' = overwritten \cup ({fd} \ {0}) /\ armed > 0
      /\ early' = (early \/ Waits("Reset"))
  BY DEF RetryTimer
<1>2. Off(due') /\ early' \in BOOLEAN
  <2>1. due' = FALSE
    BY DEF RetryTimer
  <2>2. early' = (early \/ Waits("Reset"))
    BY <1>1
  <2>3. early' \in BOOLEAN
    BY Zenon, <2>2
  <2> QED
    BY Zenon, <2>1, <2>3, Falsity
<1>3. Attempted /\ (~registered /\ ~enabled /\ ~aborted => Watches)
  BY <1>0, ConnectPiece DEF RetryTimer
<1>4. timer_id /\ state = "kConnecting" /\ todo = <<>> /\ calling_functors = <<>>
      /\ life # "new" /\ ~(stopped /\ ~late)
  BY <1>0, <1>1 DEF Timer, Success, Fresh, Places, Given, TypeOK
<1>5. overwritten' \in SUBSET (1..MaxAttempts)
  BY <1>0, <1>1 DEF TypeOK
<1>6. TypeOK'
  BY <1>0, <1>1, <1>2, <1>3, <1>5 DEF TypeOK, Attempted, Off
<1>7. Timer' /\ Success' /\ Fresh' /\ Places' /\ Given'
  BY <1>0, <1>1, <1>3, <1>4 DEF Success, Fresh, Places, Given, Attempted
<1>8. NoLeak'
  BY <1>0, <1>1, <1>3 DEF NoLeak, Attempted, TypeOK
<1>9. Calm'
  <2> SUFFICES ASSUME overwritten' = {}, ~early' PROVE Paired'
    BY DEF Calm
  <2>1. overwritten = {} /\ fd = 0
    <3>1. overwritten \cup ({fd} \ {0}) = {}
      BY <1>1
    <3> QED
      BY <3>1
  <2>2. ~early /\ ~Waits("Reset")
    BY Zenon, <1>1
  <2>3. Paired
    BY <1>0, <2>1, <2>2 DEF Calm
  <2>4. Watches
    BY <1>3, <2>1, <2>3 DEF Paired
  <2>5. ~HasReset(pedding_functors') /\ ~HasReset(calling_functors')
    <3>1. pedding_functors' = pedding_functors /\ pedding_functors \in Seq(Functor)
      BY <1>0, <1>3 DEF Attempted, TypeOK
    <3>2. ~HasReset(pedding_functors)
      BY <2>2, <3>1 DEF Waits, HasReset
    <3> QED
      BY <1>1, <1>4, <3>1, <3>2, EmptyQueue
  <2> QED
    BY <1>1, <1>4, <2>4, <2>5 DEF Paired, Watches
<1> QED
  BY <1>6, <1>7, <1>8, <1>9 DEF IInv, Base

\* The swap of the vectors, and a Reset() that runs.
LEMMA FunctorStep == ASSUME IInv, SwapFunctors \/ RunReset PROVE IInv'
<1>0. /\ TypeOK /\ Timer /\ Success /\ Fresh /\ NoLeak /\ Places /\ Given /\ Calm
      /\ pedding_functors \in Seq(Functor) /\ calling_functors \in Seq(Functor)
      /\ enabled \in BOOLEAN
  BY DEF IInv, Base, TypeOK
<1>1. /\ life' = life /\ fd' = fd /\ state' = state /\ outcome' = outcome
      /\ sockets' = sockets /\ todo' = todo
      /\ attempts' = attempts /\ connections' = connections /\ stopped' = stopped
      /\ retry_ms' = retry_ms /\ timer_id' = timer_id /\ armed' = armed
      /\ late' = late /\ overwritten' = overwritten /\ early' = early
  BY DEF SwapFunctors, RunReset, Running, timerVars, meetings
<1>2. Timer' /\ Success' /\ NoLeak'
  BY <1>0, <1>1 DEF Timer, Success, NoLeak
<1>3. CASE SwapFunctors
  <2>1. /\ aborted' = aborted
        /\ chanFd' = chanFd /\ registered' = registered /\ enabled' = enabled
        /\ phase = "timers" /\ phase' = "functors"
        /\ calling_functors' = pedding_functors
    BY <1>3 DEF SwapFunctors, channelVars
  <2>2. Off(due')
    BY <1>3, Falsity DEF SwapFunctors
  <2>3. /\ pedding_functors' = <<>> /\ ~HasReset(pedding_functors')
        /\ pedding_functors' \in Seq(Functor)
    BY <1>3, EmptyQueue DEF SwapFunctors
  <2>4. TypeOK'
    BY <1>0, <1>1, <2>1, <2>2, <2>3 DEF TypeOK, Off
  <2>5. Fresh' /\ Places' /\ Given'
    BY <1>0, <1>1, <2>1, <2>3 DEF Fresh, Places, Given
  <2>6. Calm'
    BY <1>0, <1>1, <2>1, <2>3 DEF Calm, Paired
  <2> QED
    BY <1>2, <2>4, <2>5, <2>6 DEF IInv, Base
<1>4. CASE RunReset
  <2>1. /\ due' = due /\ phase' = phase /\ phase = "functors" /\ chanFd' = 0
        /\ pedding_functors' = pedding_functors
        /\ calling_functors' = Tail(calling_functors)
        /\ calling_functors # <<>> /\ Head(calling_functors) = "Reset"
        /\ aborted' = enabled
    BY <1>4 DEF RunReset, Running
  <2>2. Off(registered') /\ Off(enabled')
    BY <1>4, Falsity DEF RunReset
  <2>3. HasReset(calling_functors) /\ calling_functors' \in Seq(Functor)
        /\ (HasReset(calling_functors') => HasReset(calling_functors))
    BY <1>0, <2>1, Queues
  <2>4. chanFd' \in 0..MaxAttempts /\ todo = <<>>
    BY <1>0, <2>1, AttemptsAssumption DEF Places
  <2>5. TypeOK'
    BY <1>0, <1>1, <2>1, <2>2, <2>3, <2>4 DEF TypeOK, Off
  <2>6. Fresh' /\ Places' /\ Given'
    BY <1>0, <1>1, <2>1, <2>2, <2>4 DEF Fresh, Places, Given, Off
  <2>7. Calm'
    BY <1>0, <1>1, <2>1, <2>2, <2>3, <2>4 DEF Calm, Paired, Off
  <2> QED
    BY <1>2, <2>5, <2>6, <2>7 DEF IInv, Base
<1> QED
  BY <1>3, <1>4

-----------------------------------------------------------------------------

\* Every step keeps the invariant.
LEMMA NextIInv == ASSUME IInv, [Next]_vars PROVE IInv'
<1>1. CASE UNCHANGED vars
  <2>1. /\ life' = life /\ fd' = fd /\ state' = state /\ outcome' = outcome
        /\ sockets' = sockets /\ todo' = todo /\ due' = due /\ phase' = phase
        /\ attempts' = attempts /\ connections' = connections /\ stopped' = stopped
        /\ retry_ms' = retry_ms /\ timer_id' = timer_id /\ armed' = armed
        /\ chanFd' = chanFd /\ registered' = registered /\ enabled' = enabled
        /\ pedding_functors' = pedding_functors /\ calling_functors' = calling_functors
        /\ aborted' = aborted
        /\ late' = late /\ overwritten' = overwritten /\ early' = early
    BY <1>1 DEF vars, channelVars, timerVars, meetings
  <2>2. TypeOK'
    BY <2>1 DEF IInv, Base, TypeOK
  <2>3. Timer' /\ Success' /\ Fresh' /\ Places' /\ NoLeak' /\ Given'
    BY <2>1 DEF IInv, Base, Timer, Success, Fresh, Places, NoLeak, Given
  <2>4. Calm'
    BY <2>1 DEF IInv, Calm, Paired
  <2> QED
    BY <2>2, <2>3, <2>4 DEF IInv, Base
<1>2. CASE Start
  BY <1>2, StartStep
<1>3. CASE Stop \/ Destroy \/ RunStopInLoop
  BY <1>3, StopStep
<1>4. CASE StopFromOtherThread
  BY <1>4, StopFromOtherThreadStep
<1>5. CASE ConnectDecided \/ TimerDue \/ PollUntil \/ ChannelsDone \/ FunctorsDone
  BY <1>5, PassStep
<1>6. CASE HandleWriteFails \/ HandleWriteConnected \/ HandleError
  BY <1>6, HandleWriteFailsStep, HandleWriteConnectedStep, HandleErrorStep
<1>7. CASE RetryTimer
  BY <1>7, RetryTimerStep
<1>8. CASE SwapFunctors \/ RunReset
  BY <1>8, FunctorStep
<1> QED
  BY <1>1, <1>2, <1>3, <1>4, <1>5, <1>6, <1>7, <1>8 DEF Next, LoopSteps

\* The invariant of the connector.
LEMMA Invariance == Spec => []IInv
<1>1. IInv /\ [Next]_vars => IInv'
  BY NextIInv
<1> QED
  BY InitIInv, <1>1, PTL DEF Spec

\* Reset() never finds a channel with events, RemoveChannel() neither, and an
\* attempt never finds the channel registered under another descriptor, until
\* the retry timer meets an undecided attempt or a Reset() that waits.
THEOREM Asserts == Spec => []AssertsHold
<1>1. IInv => AssertsHold
  BY DEF IInv, Base, Calm, Paired, AssertsHold
<1> QED
  BY Invariance, <1>1, PTL

\* However many attempts fail, the only descriptors that stay open are fd_ and
\* those the retry timer overwrote in fd_.
THEOREM Leaks == Spec => []NoLeak
<1>1. IInv => NoLeak
  BY DEF IInv, Base
<1> QED
  BY Invariance, <1>1, PTL

\* Stop() leaves no descriptor of its own, no registered channel and no timer,
\* unless it came between poll() and HandleWrite() of a ready socket.
THEOREM Releases == Spec => []StopReleases
<1>1. IInv => StopReleases
  <2>1. IInv /\ fd = 0 => sockets \subseteq overwritten
    <3> SUFFICES ASSUME IInv, fd = 0 PROVE sockets \subseteq overwritten
      OBVIOUS
    <3>1. 0 \notin sockets /\ sockets \subseteq {fd} \cup overwritten
      BY DEF IInv, Base, TypeOK, NoLeak
    <3> QED
      BY <3>1
  <2> QED
    BY <2>1 DEF IInv, Base, Timer, Given, TypeOK, StopReleases
<1> QED
  BY Invariance, <1>1, PTL

\* new_conn_cb_ is called once at most, however many attempts were made and
\* whenever the timer fired.
THEOREM Connects == Spec => []ConnectsOnce
<1>1. IInv => ConnectsOnce
  BY DEF IInv, Base, Success, ConnectsOnce
<1> QED
  BY Invariance, <1>1, PTL
=============================================================================
