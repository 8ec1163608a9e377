----------------------------- MODULE TimerQueue -----------------------------
(***************************************************************************)
(* TimerQueue (src/src/timer_queue.cc) as EventLoop drives it.  Timers are *)
(* kept ordered by expiry; callbacks, which may themselves add and cancel  *)
(* timers, run in DoExpired() on the loop thread.  AddTimer() may be       *)
(* called from any thread: the insertion travels as a functor.             *)
(*                                                                         *)
(* A Timer object is the number of its allocation, an entry pairs it with  *)
(* the time it is due, like std::pair<mstime_t, Timer*>.  That the loop is *)
(* woken for a queued functor is what module EventLoop establishes.        *)
(***************************************************************************)
EXTENDS Integers, Sequences, Functions

CONSTANTS
    LoopThread,
    Adders,       \* the threads that call AddTimer()
    Serialised,   \* whether they take turns at it
    MaxTimers,    \* bound on the timers allocated
    Starts,       \* delays passed to AddTimer()
    Delays,       \* values callbacks return
    MaxTime,      \* bound on the clock
    IntModulus    \* 2^w for the w-bit int that SleepTime() is cast to

ASSUME BoundsAssumption ==
    /\ MaxTimers \in Nat
    /\ MaxTime \in Nat
    /\ IntModulus \in Nat \ {0}
ASSUME SerialisedAssumption == Serialised \in BOOLEAN
ASSUME DelayAssumption == Starts \subseteq Nat /\ Delays \subseteq Int

VARIABLES
    now,              \* CurrentTimeMs()
    next_timer_id,
    adding,           \* per thread: the AddTimer() call in progress
    allocated,        \* Timer objects allocated so far
    timer_id,         \* timer_id_ of each object, negative once cancelled
    deleted,          \* objects freed
    timers,           \* the std::set ordered by expiry
    in_use,           \* the map from ids to objects
    pedding_functors, \* queued AddTimerInLoop() calls
    calling_functors, \* the batch being run
    phase,            \* where the loop thread is in Loop()
    timeout,          \* what was passed to the poller
    wakeAt,           \* when this poll times out
    expired,          \* entries DoExpired() still has to call
    callback,         \* the entry whose callback runs, or None
    cancelled         \* history: objects Cancel() was called for in time

idVars == <<next_timer_id, adding, allocated>>
functorVars == <<pedding_functors, calling_functors>>
pollVars == <<timeout, wakeAt>>
vars == <<now, idVars, timer_id, deleted, timers, in_use, functorVars, phase,
          pollVars, expired, callback, cancelled>>

Timer == 1..MaxTimers
Entry == [when : Nat, timer : Timer]
None == [when |-> 0, timer |-> 0]
Idle == [id |-> -1, when |-> 0]

Abs(n) == IF n < 0 THEN -n ELSE n

Init ==
    /\ now = 0
    /\ next_timer_id = 0
    /\ adding = [t \in Adders |-> Idle]
    /\ allocated = 0
    /\ timer_id = [t \in Timer |-> 0]
    /\ deleted = {}
    /\ timers = {}
    /\ in_use = << >>
    /\ pedding_functors = <<>>
    /\ calling_functors = <<>>
    /\ phase = "outside"
    /\ timeout = -1
    /\ wakeAt = 0
    /\ expired = {}
    /\ callback = None
    /\ cancelled = {}

-----------------------------------------------------------------------------
(* Calls made by user code.                                                *)

\* Other threads are always in user code, the loop thread before Loop(), in a
\* channel's callback and in a timer's callback.
InUserCode(t) ==
    /\ phase # "aborted"
    /\ t = LoopThread => phase \in {"outside", "handle"} \/ callback # None

\* AddTimerInLoop(when, timer) with its asserts (l. 60, 62 and 67): in_use_
\* must not know the id.
AddTimerInLoop(when, timer, id) ==
    /\ timers' = timers \cup {[when |-> when, timer |-> timer]}
    /\ in_use' = [k \in DOMAIN in_use \cup {id} |->
                     IF k \in DOMAIN in_use THEN in_use[k] ELSE timer]
    /\ phase' = IF id > 0 /\ id \notin DOMAIN in_use THEN phase ELSE "aborted"

\* EventLoop::AddTimer() adds the current time; ++next_timer_id_ is a plain
\* load and a plain store, and other threads can come in between unless the
\* callers take turns.
AddTimerLoad(t) ==
    /\ InUserCode(t)
    /\ adding[t] = Idle
    /\ Serialised => \A u \in Adders : adding[u] = Idle
    /\ allocated < MaxTimers
    /\ \E start \in Starts :
           adding' = [adding EXCEPT ![t] = [id |-> next_timer_id,
                                            when |-> now + start]]
    /\ UNCHANGED <<now, next_timer_id, allocated, timer_id, deleted, timers,
                   in_use, functorVars, phase, pollVars, expired, callback,
                   cancelled>>

IncrementedId(t) == adding[t].id + 1

\* The store, the allocation of the Timer and RunInLoop(AddTimerInLoop).
AddTimerStore(t) ==
    LET id == IncrementedId(t)
        when == adding[t].when
        timer == allocated + 1
    IN  /\ InUserCode(t)
        /\ adding[t] # Idle
        /\ allocated < MaxTimers
        /\ next_timer_id' = id
        /\ allocated' = timer
        /\ timer_id' = [timer_id EXCEPT ![timer] = id]
        /\ adding' = [adding EXCEPT ![t] = Idle]
        /\ IF t = LoopThread
           THEN /\ AddTimerInLoop(when, timer, id)
                /\ UNCHANGED pedding_functors
           ELSE /\ pedding_functors' = Append(pedding_functors,
                                        [when |-> when, timer |-> timer])
                /\ UNCHANGED <<timers, in_use, phase>>
        /\ UNCHANGED <<now, deleted, calling_functors, pollVars, expired,
                       callback, cancelled>>

\* Cancel() of a timer the loop knows: the object stays where it is, its id
\* becomes negative.  Cancel() of an id that is not in in_use_, or of one
\* cancelled already, returns early and changes nothing.
CancelTimer(id) ==
    LET timer == in_use[id]
    IN  /\ InUserCode(LoopThread)
        /\ id \in DOMAIN in_use
        /\ timer_id[timer] > 0
        /\ timer_id' = [timer_id EXCEPT ![timer] = -@]
        /\ cancelled' = cancelled \cup {timer}
        /\ UNCHANGED <<now, idVars, deleted, timers, in_use, functorVars, phase,
                       pollVars, expired, callback>>

-----------------------------------------------------------------------------
(* The parts of Loop() that concern timers.                                *)

EnterLoop ==
    /\ phase = "outside"
    /\ LoopThread \in Adders => adding[LoopThread] = Idle
    /\ phase' = "sleep"
    /\ UNCHANGED <<now, idVars, timer_id, deleted, timers, in_use, functorVars,
                   pollVars, expired, callback, cancelled>>

\* static_cast<int>(SleepTime()): reduction into -2^(w-1) .. 2^(w-1) - 1.
ToInt(n) == LET m == n % IntModulus
            IN  IF 2 * m >= IntModulus THEN m - IntModulus ELSE m

\* Mutant: a timer that is overdue already gives a negative timeout.
SleepTimeUnclamped ==
    IF timers = {} THEN -1
    ELSE LET first == CHOOSE e \in timers : \A f \in timers : e.when <= f.when
         IN  first.when - now

SleepTime ==
    IF timers = {} THEN -1
    ELSE LET first == CHOOSE e \in timers : \A f \in timers : e.when <= f.when
         IN  IF first.when <= now THEN 0 ELSE first.when - now

\* A negative timeout is no timeout to the poller.
BeginPoll ==
    /\ phase = "sleep"
    /\ timeout' = ToInt(SleepTime)
    /\ wakeAt' = now + timeout'
    /\ phase' = "polling"
    /\ UNCHANGED <<now, idVars, timer_id, deleted, timers, in_use, functorVars,
                   expired, callback, cancelled>>

EndPoll ==
    /\ phase = "polling"
    /\ phase' = "handle"
    /\ UNCHANGED <<now, idVars, timer_id, deleted, timers, in_use, functorVars,
                   pollVars, expired, callback, cancelled>>

PollTimesOut == timeout >= 0 /\ now >= wakeAt /\ EndPoll
PollWoken == pedding_functors # <<>> /\ EndPoll

\* Mutant: a timer counts as expired one tick too soon.
ExpiredTooSoon(e) == e.when <= now + 1

IsExpired(e) == e.when <= now

\* Mutant: the expired entries stay in timers_.
CollectWithoutErase ==
    /\ expired' = {e \in timers : IsExpired(e)}
    /\ UNCHANGED timers

\* The first loop of DoExpired(): expired entries move to expired_.
Collect ==
    /\ expired' = {e \in timers : IsExpired(e)}
    /\ timers' = {e \in timers : ~IsExpired(e)}

DoExpired ==
    /\ phase = "handle"
    /\ LoopThread \in Adders => adding[LoopThread] = Idle
    /\ phase' = "expire"
    /\ Collect
    /\ UNCHANGED <<now, idVars, timer_id, deleted, in_use, functorVars,
                   pollVars, callback, cancelled>>

\* expired_ is sorted by time; ties are in the order of the addresses.
FirstExpired(e) == e \in expired /\ \A f \in expired : e.when <= f.when

\* Mutant: the object is freed, its id is left in in_use_.
ReleaseKeepsId(timer) ==
    /\ deleted' = deleted \cup {timer}
    /\ UNCHANGED in_use

\* in_use_.erase(abs(timer_id_)) and delete.
Release(timer) ==
    /\ deleted' = deleted \cup {timer}
    /\ in_use' = [k \in DOMAIN in_use \ {Abs(timer_id[timer])} |-> in_use[k]]

\* Call() of a cancelled timer returns 0 at once, so it is freed.
DropCancelled(e) ==
    /\ phase = "expire"
    /\ callback = None
    /\ FirstExpired(e)
    /\ timer_id[e.timer] <= 0
    /\ expired' = expired \ {e}
    /\ Release(e.timer)
    /\ UNCHANGED <<now, idVars, timer_id, timers, functorVars, phase, pollVars,
                   callback, cancelled>>

\* Mutant: Call() does not look at the sign of the id.
Always(e) == TRUE

Callable(e) == timer_id[e.timer] > 0

CallTimer(e) ==
    /\ phase = "expire"
    /\ callback = None
    /\ FirstExpired(e)
    /\ Callable(e)
    /\ expired' = expired \ {e}
    /\ callback' = e
    /\ UNCHANGED <<now, idVars, timer_id, deleted, timers, in_use, functorVars,
                   phase, pollVars, cancelled>>

\* timers_.insert({i.first + next_delay, i.second}).
ReinsertAt(e, delay) == timers \cup {[when |-> e.when + delay,
                                      timer |-> e.timer]}

\* The callback returns: a positive delay counts from when the timer was due.
CallbackReturns ==
    /\ callback # None
    /\ phase = "expire"
    /\ LoopThread \in Adders => adding[LoopThread] = Idle
    /\ \E delay \in Delays :
           IF delay <= 0
           THEN Release(callback.timer) /\ UNCHANGED timers
           ELSE /\ timers' = ReinsertAt(callback, delay)
                /\ UNCHANGED <<deleted, in_use>>
    /\ callback' = None
    /\ UNCHANGED <<now, idVars, timer_id, functorVars, phase, pollVars, expired,
                   cancelled>>

\* DoExpired() is over; DoPeddingFunctors() swaps the vectors.
ExpiredDone ==
    /\ phase = "expire"
    /\ expired = {}
    /\ callback = None
    /\ phase' = "functors"
    /\ calling_functors' = pedding_functors
    /\ pedding_functors' = <<>>
    /\ UNCHANGED <<now, idVars, timer_id, deleted, timers, in_use, pollVars,
                   expired, callback, cancelled>>

RunFunctor ==
    LET e == Head(calling_functors)
    IN  /\ phase = "functors"
        /\ calling_functors # <<>>
        /\ AddTimerInLoop(e.when, e.timer, timer_id[e.timer])
        /\ calling_functors' = Tail(calling_functors)
        /\ UNCHANGED <<now, idVars, timer_id, deleted, pedding_functors,
                       pollVars, expired, callback, cancelled>>

FunctorsDone ==
    /\ phase = "functors"
    /\ calling_functors = <<>>
    /\ phase' = "sleep"
    /\ UNCHANGED <<now, idVars, timer_id, deleted, timers, in_use, functorVars,
                   pollVars, expired, callback, cancelled>>

Tick ==
    /\ now < MaxTime
    /\ now' = now + 1
    /\ UNCHANGED <<idVars, timer_id, deleted, timers, in_use, functorVars,
                   phase, pollVars, expired, callback, cancelled>>

-----------------------------------------------------------------------------

LoopSteps ==
    \/ BeginPoll \/ PollTimesOut \/ PollWoken \/ DoExpired
    \/ \E e \in expired : DropCancelled(e) \/ CallTimer(e)
    \/ CallbackReturns \/ ExpiredDone \/ RunFunctor \/ FunctorsDone

\* EndPoll by itself is some other channel becoming active.
Next ==
    \/ \E t \in Adders : AddTimerLoad(t) \/ AddTimerStore(t)
    \/ \E id \in DOMAIN in_use : CancelTimer(id)
    \/ EnterLoop \/ LoopSteps \/ EndPoll \/ Tick

\* Time passes, Loop() is called and runs, callbacks return and calls of
\* AddTimer() end.  No other channel need ever become active.
Fairness ==
    /\ WF_vars(Tick)
    /\ WF_vars(LoopSteps)
    /\ WF_vars(EnterLoop)
    /\ \A t \in Adders : WF_vars(AddTimerStore(t))

Spec == Init /\ [][Next]_vars /\ Fairness

-----------------------------------------------------------------------------
(* Properties.                                                             *)

TypeOK ==
    /\ now \in Nat
    /\ next_timer_id \in Nat
    /\ adding \in [Adders -> [id : Int, when : Nat]]
    /\ allocated \in 0..MaxTimers
    /\ timer_id \in [Timer -> Int]
    /\ deleted \in SUBSET Timer
    /\ timers \in SUBSET Entry
    /\ DOMAIN in_use \in SUBSET (Nat \ {0})
    /\ \A id \in DOMAIN in_use : in_use[id] \in Timer
    /\ pedding_functors \in Seq(Entry)
    /\ calling_functors \in Seq(Entry)
    /\ phase \in {"outside", "sleep", "polling", "handle", "expire",
                  "functors", "aborted"}
    /\ timeout \in Int
    /\ wakeAt \in Int
    /\ expired \in SUBSET Entry
    /\ callback \in Entry \cup {None}
    /\ cancelled \in SUBSET Timer

\* The asserts of AddTimerInLoop() hold (l. 60-67): ids never collide.
AssertsHold == phase # "aborted"

\* The entries the loop thread holds, wherever DoExpired() has them.
Held == timers \cup expired \cup (IF callback = None THEN {} ELSE {callback})

\* Every Timer object the loop knows is in exactly one place, is found under
\* its id in in_use_ and has not been freed: callbacks that add and cancel
\* timers while DoExpired() iterates can neither leak one, free one twice nor
\* leave a dangling pointer behind (l. 98-120).  The asserts hold with it.
OwnedOnce ==
    /\ TypeOK /\ AssertsHold
    /\ \A e, f \in Held : e.timer = f.timer => e = f
    /\ callback # None => callback \notin timers \cup expired
    /\ timers \cap expired = {}
    /\ {e.timer : e \in Held} = {in_use[id] : id \in DOMAIN in_use}
    /\ \A id \in DOMAIN in_use : Abs(timer_id[in_use[id]]) = id
    /\ \A e \in Held : e.timer \notin deleted

\* No callback starts before its time, nor after Cancel() accepted its timer,
\* be it in the same pass by the callback before it (l. 18-26, 41-55).
CallsAreDue ==
    [][callback' # None /\ callback' # callback =>
           callback'.when <= now /\ callback'.timer \notin cancelled]_vars

\* What AddTimer() was asked for and is not cancelled: entries of timers_ and,
\* when another thread called it, functors on their way to the loop.
Scheduled == timers \cup Range(pedding_functors) \cup Range(calling_functors)

\* Every timer whose time comes is called, the first time and when it repeats,
\* whichever thread added it, unless it is cancelled (event_loop.h, l. 32-35).
TimersFire ==
    \A t \in Timer :
        (timer_id[t] > 0 /\ \E e \in Scheduled : e.timer = t /\ e.when <= MaxTime)
            ~> (callback.timer = t \/ timer_id[t] < 0)

\* A cancelled timer is freed at the time it was due, although nothing but
\* its sign changed (FIXME, l. 52-53).
CancelledAreFreed ==
    \A t \in Timer :
        (timer_id[t] < 0 /\ \E e \in timers : e.timer = t /\ e.when <= MaxTime)
            ~> (t \in deleted)
=============================================================================
