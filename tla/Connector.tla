------------------------------ MODULE Connector ------------------------------
(***************************************************************************)
(* Connector (src/src/connector.cc): one object that makes connect() calls *)
(* until one succeeds, with its Channel, its retry timer and the passes of *)
(* the EventLoop it lives in.  A pass handles channels, then timers, then  *)
(* functors; RemoveAndResetChannel() leaves the Channel to a functor.      *)
(*                                                                         *)
(* Sockets are numbered in the order of the attempts, 0 stands for -1.     *)
(* When the timer is due is left open: time passes while the loop sleeps   *)
(* and while it runs callbacks, and no attempt is known to end before.     *)
(***************************************************************************)
EXTENDS Naturals, Sequences

CONSTANT MaxAttempts  \* bound on the calls of connect()

ASSUME AttemptsAssumption == MaxAttempts \in Nat

VARIABLES
    life,         \* "new", "started" or "destroyed"
    fd,           \* fd_
    retry_ms,     \* retry_ms_
    state,        \* state_
    timer_id,     \* timer_id_ # 0
    chanFd,       \* channel_.fd_
    registered,   \* channel_.index_in_poller_ # -1
    enabled,      \* channel_.events_ # 0
    aborted,      \* an assert failed
    \* The loop and the kernel.
    phase,        \* "poll", "handle", "timers" or "functors"
    todo,         \* the callbacks Channel::Handle() still has to make
    armed,        \* retry timers the queue holds that are not cancelled
    due,          \* the retry timer's time has come
    pedding_functors,
    calling_functors,
    sockets,      \* descriptors opened, not closed and not handed over
    outcome,      \* what became of the attempt the channel watches, or the last
    \* History.
    attempts,     \* calls of connect()
    connections,  \* calls of new_conn_cb_
    stopped,      \* StopInLoop() has run
    late,         \* it last ran between poll() and a HandleWrite()
    overwritten,  \* descriptors in fd_ when the retry timer made an attempt
    early         \* that timer made an attempt while a Reset() was queued

channelVars == <<chanFd, registered, enabled>>
timerVars == <<retry_ms, timer_id, armed>>
meetings == <<overwritten, early>>
vars == <<life, fd, state, channelVars, timerVars, aborted, phase, due, todo,
          pedding_functors, calling_functors, sockets, outcome, attempts,
          connections, stopped, late, meetings>>

Outcome == {"none", "pending", "up", "self", "refused", "temporary", "fatal"}
Functor == {"Reset", "StopInLoop"}

Init ==
    /\ life = "new"
    /\ fd = 0
    /\ retry_ms = 500
    /\ state = "kConnecting"
    /\ timer_id = FALSE
    /\ chanFd = 0 /\ registered = FALSE /\ enabled = FALSE
    /\ aborted = FALSE
    /\ phase = "timers"
    /\ todo = <<>>
    /\ armed = 0
    /\ due = FALSE
    /\ pedding_functors = <<>> /\ calling_functors = <<>>
    /\ sockets = {}
    /\ outcome = "none"
    /\ attempts = 0
    /\ connections = 0
    /\ stopped = FALSE
    /\ late = FALSE
    /\ overwritten = {} /\ early = FALSE

Alive == ~aborted /\ life # "destroyed"

\* A functor is in pedding_functors_.
Waits(f) == \E i \in DOMAIN pedding_functors : pedding_functors[i] = f

-----------------------------------------------------------------------------
(* The pieces the operations are made of.                                  *)

\* Mutants: a timer is added at every retry; the check comes after the
\* doubling.
EveryRetry == TRUE
FirstRetryDoubled == 2 * retry_ms = 500

FirstRetry == retry_ms = 500

\* The next delay.
Doubled == IF 2 * retry_ms > 30000 THEN 30000 ELSE 2 * retry_ms

\* Retry(): the first one adds the timer, which repeats with retry_ms_.
Retry ==
    /\ armed' = IF FirstRetry THEN armed + 1 ELSE armed
    /\ timer_id' = (timer_id \/ FirstRetry)
    /\ retry_ms' = Doubled

\* Mutant: the timer is only forgotten.
CancelForgotten == timer_id' = FALSE /\ UNCHANGED armed

\* CancelTimer(timer_id_) and timer_id_ = 0.
CancelTimer ==
    /\ armed' = IF timer_id THEN armed - 1 ELSE armed
    /\ timer_id' = FALSE

\* Mutant: fd_ is overwritten, the descriptor stays open.
CloseForgotten == fd' = 0 /\ UNCHANGED sockets

\* close(fd_) and fd_ = -1.
CloseFd == fd' = 0 /\ sockets' = sockets \ {fd}

\* Mutant: the channel is removed while it still has events.
RemoveEnabled ==
    /\ UNCHANGED <<enabled, chanFd>>
    /\ registered' = FALSE
    /\ aborted' = enabled
    /\ pedding_functors' = Append(pedding_functors, "Reset")

\* DisableAll() registers a channel that is not registered, on whatever
\* descriptor it has; RemoveChannel() undoes that.
RemoveAndResetChannel ==
    /\ enabled' = FALSE
    /\ registered' = FALSE
    /\ aborted' = (chanFd = 0)
    /\ pedding_functors' = Append(pedding_functors, "Reset")
    /\ UNCHANGED chanFd

\* Connecting(): the poller looks a registered channel up by its descriptor,
\* which must be the one it was registered with.
Connecting(sock) ==
    /\ state' = "kConnecting"
    /\ chanFd' = sock
    /\ aborted' = (registered /\ chanFd # sock)
    /\ registered' = TRUE
    /\ enabled' = TRUE

\* ConnectOnce(): socket() and connect(), which fails for good, fails for the
\* time being, or is under way.
ConnectOnce ==
    LET sock == attempts + 1
    IN  /\ attempts < MaxAttempts
        /\ attempts' = sock
        /\ \/ /\ outcome' = "pending"
              /\ fd' = sock
              /\ sockets' = sockets \cup {sock}
              /\ Connecting(sock)
              /\ UNCHANGED timerVars
           \/ \E res \in {"fatal", "temporary"} :
                 /\ outcome' = IF registered THEN outcome ELSE res
                 /\ fd' = 0
                 /\ UNCHANGED <<sockets, state, channelVars, aborted>>
                 /\ IF res = "temporary" THEN Retry ELSE UNCHANGED timerVars
        /\ UNCHANGED <<pedding_functors, connections>>

-----------------------------------------------------------------------------
(* Calls made by the owner.                                                *)

\* Other code on the loop thread runs: another channel's callback, a timer's
\* or a functor.  A channel's callbacks are not interrupted once they began.
OtherCode == phase # "poll" /\ (todo # <<>> => Head(todo) = "write")

Start ==
    /\ Alive
    /\ life = "new"
    /\ OtherCode
    /\ life' = "started"
    /\ ConnectOnce
    /\ UNCHANGED <<phase, due, todo, calling_functors, stopped, late, meetings>>

\* StopInLoop(): the descriptor, the channel and the timer are given up.
StopInLoop ==
    /\ IF fd # 0 THEN CloseFd ELSE UNCHANGED <<fd, sockets>>
    /\ IF registered THEN RemoveAndResetChannel
       ELSE UNCHANGED <<channelVars, aborted, pedding_functors>>
    /\ CancelTimer
    /\ stopped' = TRUE
    /\ late' = (todo # <<>>)
    /\ UNCHANGED <<retry_ms, state, outcome, attempts, connections, meetings>>

Stop ==
    /\ Alive
    /\ life = "started"
    /\ OtherCode
    /\ StopInLoop
    /\ UNCHANGED <<life, phase, due, todo, calling_functors>>

\* Stop() called by another thread, once: it is queued.
StopFromOtherThread ==
    /\ Alive
    /\ life = "started"
    /\ ~Waits("StopInLoop")
    /\ ~stopped
    /\ pedding_functors' = Append(pedding_functors, "StopInLoop")
    /\ UNCHANGED <<life, fd, state, channelVars, timerVars, aborted, phase,
                   due, todo, calling_functors, sockets, outcome, attempts,
                   connections, stopped, late, meetings>>

\* ~Connector(), on the loop thread, calls Stop().  Callbacks and functors that
\* are left would be called on a destroyed object: the model ends here.
Destroy ==
    /\ Alive
    /\ OtherCode
    /\ life' = "destroyed"
    /\ StopInLoop
    /\ UNCHANGED <<phase, due, todo, calling_functors>>

-----------------------------------------------------------------------------
(* A pass of the loop.                                                     *)

\* The kernel: a pending connect() is decided.
ConnectDecided ==
    /\ Alive
    /\ outcome = "pending"
    /\ outcome' \in {"up", "self", "refused"}
    /\ UNCHANGED <<life, fd, state, channelVars, timerVars, aborted, phase,
                   due, todo, pedding_functors, calling_functors, sockets,
                   attempts, connections, stopped, late, meetings>>

\* The retry timer's time comes before DoExpired() reads the clock.
TimerDue ==
    /\ Alive
    /\ phase \in {"poll", "handle"}
    /\ armed > 0 /\ ~due
    /\ due' = TRUE
    /\ UNCHANGED <<life, fd, state, channelVars, timerVars, aborted, phase,
                   todo, pedding_functors, calling_functors, sockets, outcome,
                   attempts, connections, stopped, late, meetings>>

\* A decided connect() makes the socket writable, a failed one sets POLLERR too.
PollUntil ==
    /\ Alive
    /\ phase = "poll"
    /\ phase' = "handle"
    /\ todo' = IF ~registered THEN <<>>
               ELSE IF outcome = "refused" THEN <<"write", "error">>
               ELSE IF outcome \in {"up", "self"} THEN <<"write">> ELSE <<>>
    /\ UNCHANGED <<life, fd, state, channelVars, timerVars, aborted, due,
                   pedding_functors, calling_functors, sockets, outcome,
                   attempts, connections, stopped, late, meetings>>

Handling(h) ==
    /\ Alive
    /\ phase = "handle"
    /\ todo # <<>>
    /\ Head(todo) = h
    /\ todo' = Tail(todo)
    /\ UNCHANGED <<life, phase, due, calling_functors, attempts, stopped,
                   late, meetings>>

\* GetSockError(fd_) is not 0, on -1 as well, or the socket met itself.
HandleWriteFails ==
    /\ Handling("write")
    /\ state = "kConnecting"
    /\ fd = 0 \/ outcome \in {"refused", "self"}
    /\ RemoveAndResetChannel
    /\ CloseFd
    /\ Retry
    /\ UNCHANGED <<state, outcome, connections>>

HandleWriteConnected ==
    /\ Handling("write")
    /\ state = "kConnecting"
    /\ fd # 0 /\ outcome = "up"
    /\ state' = "kConnected"
    /\ CancelTimer
    /\ RemoveAndResetChannel
    /\ connections' = connections + 1
    /\ fd' = 0
    /\ sockets' = sockets \ {fd}
    /\ UNCHANGED <<retry_ms, outcome>>

\* HandleError() comes after HandleWrite() in the same Channel::Handle().
HandleError ==
    /\ Handling("error")
    /\ IF state # "kConnecting"
       THEN UNCHANGED <<fd, sockets, channelVars, aborted, pedding_functors>>
       ELSE /\ IF fd # 0 THEN CloseFd ELSE UNCHANGED <<fd, sockets>>
            /\ RemoveAndResetChannel
    /\ UNCHANGED <<state, timerVars, outcome, connections>>

ChannelsDone ==
    /\ Alive
    /\ phase = "handle" /\ todo = <<>>
    /\ phase' = "timers"
    /\ UNCHANGED <<life, fd, state, channelVars, timerVars, aborted, due, todo,
                   pedding_functors, calling_functors, sockets, outcome,
                   attempts, connections, stopped, late, meetings>>

\* The retry timer's callback: ConnectOnce(), and again after retry_ms_.
RetryTimer ==
    /\ Alive
    /\ phase = "timers"
    /\ due /\ armed > 0
    /\ due' = FALSE
    /\ ConnectOnce
    /\ overwritten' = overwritten \cup ({fd} \ {0})
    /\ early' = (early \/ Waits("Reset"))
    /\ UNCHANGED <<life, phase, todo, calling_functors, stopped, late>>

\* DoExpired() is over; DoPeddingFunctors() swaps the vectors.
SwapFunctors ==
    /\ Alive
    /\ phase = "timers"
    /\ due /\ armed > 0 => attempts = MaxAttempts
    /\ due' = FALSE
    /\ phase' = "functors"
    /\ calling_functors' = pedding_functors
    /\ pedding_functors' = <<>>
    /\ UNCHANGED <<life, fd, state, channelVars, timerVars, aborted, todo,
                   sockets, outcome, attempts, connections, stopped, late,
                   meetings>>

Running(f) ==
    /\ Alive
    /\ phase = "functors"
    /\ calling_functors # <<>>
    /\ Head(calling_functors) = f
    /\ calling_functors' = Tail(calling_functors)
    /\ UNCHANGED <<life, phase, due, todo>>

\* Channel::Reset(): a new Channel is moved over this one, which must not have
\* events.  Its index becomes -1 whatever the poller knows.
RunReset ==
    /\ Running("Reset")
    /\ aborted' = enabled
    /\ chanFd' = 0
    /\ registered' = FALSE
    /\ enabled' = FALSE
    /\ UNCHANGED <<fd, state, timerVars, pedding_functors, sockets, outcome,
                   attempts, connections, stopped, late, meetings>>

RunStopInLoop == Running("StopInLoop") /\ StopInLoop

FunctorsDone ==
    /\ Alive
    /\ phase = "functors" /\ calling_functors = <<>>
    /\ phase' = "poll"
    /\ UNCHANGED <<life, fd, state, channelVars, timerVars, aborted, due, todo,
                   pedding_functors, calling_functors, sockets, outcome,
                   attempts, connections, stopped, late, meetings>>

-----------------------------------------------------------------------------

LoopSteps ==
    \/ PollUntil \/ HandleWriteFails \/ HandleWriteConnected \/ HandleError
    \/ ChannelsDone \/ RetryTimer
    \/ SwapFunctors \/ RunReset \/ RunStopInLoop \/ FunctorsDone

Next ==
    \/ Start \/ Stop \/ StopFromOtherThread \/ Destroy
    \/ ConnectDecided \/ TimerDue \/ LoopSteps

\* The loop keeps running, and the time of an armed timer comes
\* (TimersFire of module TimerQueue).
Fairness == WF_vars(LoopSteps) /\ SF_vars(TimerDue)

Spec == Init /\ [][Next]_vars /\ Fairness

-----------------------------------------------------------------------------
(* Properties.                                                             *)

TypeOK ==
    /\ life \in {"new", "started", "destroyed"}
    /\ fd \in 0..MaxAttempts /\ chanFd \in 0..MaxAttempts
    /\ retry_ms \in Nat /\ 500 <= retry_ms /\ retry_ms <= 30000
    /\ state \in {"kConnecting", "kConnected"}
    /\ timer_id \in BOOLEAN /\ registered \in BOOLEAN /\ enabled \in BOOLEAN
    /\ aborted \in BOOLEAN /\ due \in BOOLEAN /\ stopped \in BOOLEAN
    /\ phase \in {"poll", "handle", "timers", "functors"}
    /\ todo \in Seq({"write", "error"})
    /\ armed \in Nat
    /\ pedding_functors \in Seq(Functor) /\ calling_functors \in Seq(Functor)
    /\ sockets \in SUBSET (1..MaxAttempts)
    /\ outcome \in Outcome
    /\ attempts \in 0..MaxAttempts
    /\ connections \in Nat
    /\ late \in BOOLEAN /\ early \in BOOLEAN
    /\ overwritten \in SUBSET (1..MaxAttempts)

\* The asserts hold, Reset() finds the channel without events (channel.cc,
\* l. 39), the poller finds a registered channel under its descriptor
\* (epoller.cc, l. 33) and RemoveChannel() one without events (l. 47), until the
\* retry timer, which goes on by its own delay, meets an attempt that is not
\* decided (fd_ is overwritten) or one whose Reset() still waits.  Stop() at
\* any moment makes none fail.
AssertsHold == TypeOK /\ (aborted => overwritten # {} \/ early)

\* Every descriptor socket() returned has been closed, handed to new_conn_cb_
\* or is the one in fd_, except those that were in fd_ when the retry timer made
\* the next attempt.  Those are lost: l. 48 does not keep the promise of l. 30
\* that all is released before a retry when a connect() outlasts the delay.
NoLeak == sockets \subseteq {fd} \cup overwritten

\* After Stop() nothing is left of the connector: no descriptor but those lost
\* before, no registered channel and no timer that would call it.  "At any
\* moment" (l. 107-108) is more than the code does: a Stop() between poll() and
\* the HandleWrite() of a socket that is ready is followed by a Retry().
StopReleases ==
    stopped /\ ~late =>
        fd = 0 /\ sockets \subseteq overwritten /\ ~registered /\ armed = 0

\* new_conn_cb_ is called once at most: success ends the retries.
ConnectsOnce == connections <= 1

\* An attempt that failed for the time being is followed by another one
\* unless the connector is stopped or an assert has failed.
KeepsTrying ==
    \A n \in 1..(MaxAttempts - 1) :
        (attempts = n /\ fd = 0 /\ outcome \in {"refused", "self", "temporary"})
            ~> (attempts > n \/ stopped \/ aborted)
=============================================================================
