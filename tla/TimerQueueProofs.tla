-------------------------- MODULE TimerQueueProofs --------------------------
(***************************************************************************)
(* Proofs about TimerQueue, for any number of timers, threads and delays,  *)
(* when the callers of AddTimer() take turns.                              *)
(***************************************************************************)
EXTENDS TimerQueue, SequenceTheorems, WellFoundedInduction, TLAPS

\* One AddTimer() at a time is between its load and its store, and what it
\* loaded is still next_timer_id_, the number of timers allocated.
TakeTurns ==
    /\ next_timer_id = allocated
    /\ \A t \in Adders : adding[t] # Idle => adding[t].id = next_timer_id
    /\ \A t, u \in Adders : adding[t] # Idle /\ adding[u] # Idle => t = u

\* So the id of a timer is its number, negated once it is cancelled.
IdsAreNumbers ==
    /\ \A k \in 1..allocated : timer_id[k] = k \/ timer_id[k] = -k
    /\ \A k \in cancelled : k \in 1..allocated /\ timer_id[k] = -k

\* The timers the loop thread knows: one entry each, found under its id, not
\* freed.
Known ==
    /\ \A id \in DOMAIN in_use : id \in 1..allocated /\ in_use[id] = id
    /\ \A id \in DOMAIN in_use : id \notin deleted
    /\ deleted \subseteq 1..allocated
    /\ \A e, f \in timers \cup expired : e.timer = f.timer => e = f
    /\ timers \cap expired = {}
    /\ \A e \in timers \cup expired : e.timer \in DOMAIN in_use
    /\ callback # None =>
           /\ callback.timer \in DOMAIN in_use
           /\ \A e \in timers \cup expired : e.timer # callback.timer
    /\ \A id \in DOMAIN in_use :
           \/ \E e \in timers \cup expired : e.timer = id
           \/ callback # None /\ callback.timer = id

\* A timer on its way to the loop: allocated, not cancelled, not known yet.
Waits(e) ==
    /\ e.timer \in 1..allocated
    /\ timer_id[e.timer] = e.timer
    /\ e.timer \notin DOMAIN in_use
    /\ e.timer \notin deleted

\* Every queued functor adds a timer of its own.
OnTheWay ==
    /\ \A i \in 1..Len(pedding_functors) : Waits(pedding_functors[i])
    /\ \A i \in 1..Len(calling_functors) : Waits(calling_functors[i])
    /\ \A i, j \in 1..Len(pedding_functors) :
           pedding_functors[i].timer = pedding_functors[j].timer => i = j
    /\ \A i, j \in 1..Len(calling_functors) :
           calling_functors[i].timer = calling_functors[j].timer => i = j
    /\ \A i \in 1..Len(pedding_functors), j \in 1..Len(calling_functors) :
           pedding_functors[i].timer # calling_functors[j].timer

\* Where the loop thread is, and that what it calls is due.
Passes ==
    /\ phase # "aborted"
    /\ expired # {} \/ callback # None => phase = "expire"
    /\ calling_functors # <<>> => phase = "functors"
    /\ \A e \in expired : e.when <= now

\* The inductive invariant.
IInv == TypeOK /\ TakeTurns /\ IdsAreNumbers /\ Known /\ OnTheWay /\ Passes

-----------------------------------------------------------------------------
(* The timeout.                                                            *)

\* Some entry is due first.
LEMMA FirstExists ==
    ASSUME NEW T \in SUBSET Entry, T # {}
    PROVE  \E e \in T : \A f \in T : e.when <= f.when
<1> DEFINE W == {e.when : e \in T}
<1>1. W \subseteq Nat /\ W # {}
  BY DEF Entry
<1>2. \E x \in W : \A y \in W : ~(<<y, x>> \in OpToRel(<, Nat))
  <2> HIDE DEF W
  <2> QED
    BY <1>1, NatLessThanWellFounded, WFMin
<1>3. PICK x \in W : \A y \in W : ~(<<y, x>> \in OpToRel(<, Nat))
  BY <1>2
<1>4. \A y \in W : x <= y
  <2> SUFFICES ASSUME NEW y \in W PROVE x <= y
    OBVIOUS
  <2>1. x \in Nat /\ y \in Nat
    BY <1>1
  <2>2. ~(y < x)
    BY <1>3, <2>1 DEF OpToRel
  <2> QED
    BY <2>1, <2>2
<1> QED
  BY <1>4

\* What SleepTime() returns fits the poller's timeout.
LEMMA SleepTimeType == ASSUME TypeOK PROVE ToInt(SleepTime) \in Int
<1>1. SleepTime \in Int
  <2>1. CASE timers = {}
    BY <2>1 DEF SleepTime
  <2>2. CASE timers # {}
    <3> DEFINE first == CHOOSE e \in timers : \A f \in timers : e.when <= f.when
    <3>1. first \in timers
      BY <2>2, FirstExists DEF TypeOK
    <3>2. first.when \in Nat
      BY <3>1 DEF TypeOK, Entry
    <3> HIDE DEF first
    <3>3. SleepTime = IF first.when <= now THEN 0 ELSE first.when - now
      BY <2>2 DEF SleepTime, first
    <3> QED
      BY <3>2, <3>3 DEF TypeOK
  <2> QED
    BY <2>1, <2>2
<1>2. \A n \in Int : n % IntModulus \in Int
  BY BoundsAssumption
<1> QED
  BY <1>1, <1>2, BoundsAssumption DEF ToInt

-----------------------------------------------------------------------------
(* The steps.                                                              *)

\* The constructor's state.
LEMMA InitIInv == Init => IInv
<1> SUFFICES ASSUME Init PROVE IInv
  OBVIOUS
<1>1. DOMAIN in_use = {}
  BY DEF Init
<1>2. <<>> \in Seq(Entry)
  OBVIOUS
<1>3. TypeOK
  BY <1>1, <1>2, BoundsAssumption DEF Init, TypeOK, Idle, None
<1>4. TakeTurns /\ IdsAreNumbers
  BY DEF Init, TakeTurns, IdsAreNumbers
<1>5. Known
  BY <1>1 DEF Init, Known
<1>6. OnTheWay /\ Passes
  BY DEF Init, OnTheWay, Passes
<1> QED
  BY <1>3, <1>4, <1>5, <1>6 DEF IInv

\* A step that touches no timer.
Quiet ==
    /\ next_timer_id' = next_timer_id /\ adding' = adding /\ allocated' = allocated
    /\ timer_id' = timer_id /\ deleted' = deleted /\ timers' = timers
    /\ in_use' = in_use /\ expired' = expired /\ callback' = callback
    /\ cancelled' = cancelled
    /\ pedding_functors' = pedding_functors /\ calling_functors' = calling_functors
    /\ now' \in Nat /\ now <= now' /\ timeout' \in Int /\ wakeAt' \in Int
    /\ phase' \in {"outside", "sleep", "polling", "handle", "expire", "functors"}
    /\ phase' = phase \/ (expired = {} /\ callback = None /\ calling_functors = <<>>)

\* It keeps the inductive invariant, because time only passes forward.
LEMMA QuietStep == ASSUME IInv, Quiet PROVE IInv'
<1>1. TypeOK'
  BY DEF IInv, TypeOK, Quiet
<1>2. TakeTurns' /\ IdsAreNumbers'
  BY DEF IInv, TakeTurns, IdsAreNumbers, Quiet
<1>3. Known'
  BY DEF IInv, Known, Quiet
<1>4. OnTheWay'
  BY DEF IInv, OnTheWay, Waits, Quiet
<1>5. Passes'
  BY DEF IInv, TypeOK, Entry, Passes, Quiet
<1> QED
  BY <1>1, <1>2, <1>3, <1>4, <1>5 DEF IInv

\* The parts of Loop() between the callbacks, and the clock.
LEMMA LoopStep ==
    ASSUME IInv, EnterLoop \/ BeginPoll \/ EndPoll \/ FunctorsDone \/ Tick \/ UNCHANGED vars
    PROVE  IInv'
<1>0. TypeOK /\ Passes
  BY DEF IInv
<1>1. CASE EnterLoop
  <2>1. Quiet
    BY <1>0, <1>1 DEF Quiet, EnterLoop, idVars, functorVars, pollVars, TypeOK, Passes
  <2> QED
    BY <2>1, QuietStep
<1>2. CASE BeginPoll
  <2>1. timeout' \in Int /\ wakeAt' \in Int
    BY <1>0, <1>2, SleepTimeType DEF BeginPoll, TypeOK
  <2>2. Quiet
    BY <1>0, <1>2, <2>1 DEF Quiet, BeginPoll, idVars, functorVars, TypeOK, Passes
  <2> QED
    BY <2>2, QuietStep
<1>3. CASE EndPoll
  <2>1. Quiet
    BY <1>0, <1>3 DEF Quiet, EndPoll, idVars, functorVars, pollVars, TypeOK, Passes
  <2> QED
    BY <2>1, QuietStep
<1>4. CASE FunctorsDone
  <2>1. Quiet
    BY <1>0, <1>4 DEF Quiet, FunctorsDone, idVars, functorVars, pollVars, TypeOK, Passes
  <2> QED
    BY <2>1, QuietStep
<1>5. CASE Tick
  <2>1. Quiet
    BY <1>0, <1>5 DEF Quiet, Tick, idVars, functorVars, pollVars, TypeOK, Passes
  <2> QED
    BY <2>1, QuietStep
<1>6. CASE UNCHANGED vars
  <2>1. Quiet
    BY <1>0, <1>6 DEF Quiet, vars, idVars, functorVars, pollVars, TypeOK, Passes
  <2> QED
    BY <2>1, QuietStep
<1> QED
  BY <1>1, <1>2, <1>3, <1>4, <1>5, <1>6

\* The load of AddTimer(), when nobody else is in one.
LEMMA AddTimerLoadStep ==
    ASSUME Serialised, IInv, NEW t \in Adders, AddTimerLoad(t) PROVE IInv'
<1>0. TypeOK /\ TakeTurns
  BY DEF IInv
<1>1. PICK start \in Starts :
         adding' = [adding EXCEPT ![t] = [id |-> next_timer_id, when |-> now + start]]
  BY DEF AddTimerLoad
<1>2. /\ now' = now /\ next_timer_id' = next_timer_id /\ allocated' = allocated
      /\ timer_id' = timer_id /\ deleted' = deleted /\ timers' = timers
      /\ in_use' = in_use /\ expired' = expired /\ callback' = callback
      /\ cancelled' = cancelled /\ phase' = phase /\ timeout' = timeout /\ wakeAt' = wakeAt
      /\ pedding_functors' = pedding_functors /\ calling_functors' = calling_functors
      /\ \A u \in Adders : adding[u] = Idle
  BY DEF AddTimerLoad, functorVars, pollVars
<1>3. now + start \in Nat /\ next_timer_id \in Int
  BY <1>0, DelayAssumption DEF TypeOK
<1>4. TypeOK'
  BY <1>0, <1>1, <1>2, <1>3 DEF TypeOK
<1>5. TakeTurns'
  <2>1. \A u \in Adders : u # t => adding'[u] = Idle
    BY <1>0, <1>1, <1>2 DEF TypeOK
  <2>2. adding'[t].id = next_timer_id
    BY <1>0, <1>1 DEF TypeOK
  <2> QED
    BY <1>0, <1>2, <2>1, <2>2 DEF TakeTurns
<1>6. IdsAreNumbers' /\ Known'
  BY <1>2 DEF IInv, IdsAreNumbers, Known
<1>7. OnTheWay' /\ Passes'
  BY <1>2 DEF IInv, OnTheWay, Waits, Passes
<1> QED
  BY <1>4, <1>5, <1>6, <1>7 DEF IInv

\* What the store of AddTimer() does whoever calls it: the new timer has the
\* next number as its id.
Stored(t, k) ==
    /\ k = allocated + 1 /\ k \in Timer
    /\ now' = now /\ next_timer_id' = k /\ allocated' = k
    /\ timer_id' = [timer_id EXCEPT ![k] = k]
    /\ adding' = [adding EXCEPT ![t] = Idle]
    /\ deleted' = deleted /\ calling_functors' = calling_functors
    /\ timeout' = timeout /\ wakeAt' = wakeAt /\ expired' = expired
    /\ callback' = callback /\ cancelled' = cancelled /\ phase' = phase

\* The store of AddTimer() keeps the ids apart: the new timer has a number of its
\* own and every other timer keeps its number.
LEMMA StoredKeeps ==
    ASSUME IInv, NEW t \in Adders, NEW k, Stored(t, k), adding[t] # Idle
    PROVE  /\ TakeTurns' /\ IdsAreNumbers' /\ Passes'
           /\ next_timer_id' \in Nat /\ allocated' \in 0..MaxTimers
           /\ timer_id' \in [Timer -> Int]
           /\ adding' \in [Adders -> [id : Int, when : Nat]]
           /\ k \in 1..allocated' /\ timer_id'[k] = k
           /\ k \notin 1..allocated
           /\ \A j \in 1..allocated : j \in 1..allocated' /\ j # k /\ timer_id'[j] = timer_id[j]
<1>0. TypeOK /\ TakeTurns
  BY DEF IInv
<1>1. /\ allocated \in Nat /\ MaxTimers \in Nat /\ k \in Nat /\ k <= MaxTimers
      /\ k = allocated + 1 /\ allocated' = k
  BY <1>0, BoundsAssumption DEF Stored, TypeOK, Timer
<1>2. /\ next_timer_id' \in Nat /\ allocated' \in 0..MaxTimers
      /\ k \in 1..allocated' /\ k \notin 1..allocated /\ k # 0
      /\ \A j \in 1..allocated : j \in 1..allocated' /\ j # k
      /\ \A j \in 1..allocated' : j \in 1..allocated \/ j = k
  BY <1>1 DEF Stored
<1>3. timer_id' \in [Timer -> Int] /\ adding' \in [Adders -> [id : Int, when : Nat]]
  BY <1>0, <1>1 DEF Stored, TypeOK, Idle
<1>4. \A j \in 1..allocated : j \in Timer
  BY <1>0, <1>1 DEF TypeOK, Timer
<1>5. timer_id'[k] = k /\ \A j \in 1..allocated : timer_id'[j] = timer_id[j]
  BY <1>0, <1>2, <1>4 DEF Stored, TypeOK
<1>6. TakeTurns'
  <2>1. \A u \in Adders : adding'[u] = Idle
    BY <1>0 DEF Stored, TypeOK, TakeTurns
  <2> QED
    BY <2>1 DEF TakeTurns, Stored
<1>7. IdsAreNumbers'
  BY <1>2, <1>5 DEF IInv, IdsAreNumbers, Stored
<1>8. Passes'
  BY DEF IInv, Passes, Stored
<1> QED
  BY <1>2, <1>3, <1>5, <1>6, <1>7, <1>8

\* The same after a step.
WaitsNext(e) ==
    /\ e.timer \in 1..allocated'
    /\ timer_id'[e.timer] = e.timer
    /\ e.timer \notin DOMAIN in_use'
    /\ e.timer \notin deleted'

\* A step that leaves the queues alone and those that wait waiting.
LEMMA OnTheWayStays ==
    ASSUME OnTheWay, \A f : Waits(f) => WaitsNext(f),
           pedding_functors' = pedding_functors, calling_functors' = calling_functors
    PROVE  OnTheWay'
<1>1. /\ \A i \in 1..Len(pedding_functors) : WaitsNext(pedding_functors[i])
      /\ \A i \in 1..Len(calling_functors) : WaitsNext(calling_functors[i])
  BY DEF OnTheWay
<1> QED
  BY <1>1 DEF OnTheWay, Waits, WaitsNext

\* The store, the allocation and AddTimerInLoop(), here or as a functor.
LEMMA AddTimerStoreStep ==
    ASSUME IInv, NEW t \in Adders, AddTimerStore(t) PROVE IInv'
<1> DEFINE k == allocated + 1
           w == adding[t].when
           e == [when |-> w, timer |-> k]
<1>0. TypeOK /\ TakeTurns /\ Known /\ OnTheWay /\ Passes
  BY DEF IInv
<1>1. /\ adding[t] # Idle /\ IncrementedId(t) = k /\ k \in Timer /\ w \in Nat
      /\ k > 0 /\ k \notin DOMAIN in_use
  <2>1. adding[t] # Idle /\ allocated < MaxTimers
    BY DEF AddTimerStore
  <2> QED
    BY <1>0, <2>1, BoundsAssumption
       DEF TypeOK, TakeTurns, Known, IncrementedId, Timer
<1>2. e \in Entry
  BY <1>1 DEF Entry
<1>3. /\ \/ /\ timers' = timers \cup {e} /\ pedding_functors' = pedding_functors
            /\ in_use' = [j \in DOMAIN in_use \cup {k} |->
                            IF j \in DOMAIN in_use THEN in_use[j] ELSE k]
         \/ /\ pedding_functors' = Append(pedding_functors, e)
            /\ timers' = timers /\ in_use' = in_use
      /\ phase' = phase
  BY <1>1 DEF AddTimerStore, AddTimerInLoop
<1>4. Stored(t, k)
  BY <1>1, <1>3 DEF Stored, AddTimerStore, pollVars
<1> HIDE DEF k
<1>5. /\ TakeTurns' /\ IdsAreNumbers' /\ Passes'
      /\ next_timer_id' \in Nat /\ allocated' \in 0..MaxTimers
      /\ timer_id' \in [Timer -> Int]
      /\ adding' \in [Adders -> [id : Int, when : Nat]]
      /\ k \in 1..allocated' /\ timer_id'[k] = k
      /\ k \notin 1..allocated
      /\ \A j \in 1..allocated : j \in 1..allocated' /\ j # k /\ timer_id'[j] = timer_id[j]
  BY <1>1, <1>4, StoredKeeps
<1>6. /\ now' = now /\ deleted' = deleted /\ calling_functors' = calling_functors
      /\ timeout' = timeout /\ wakeAt' = wakeAt /\ expired' = expired
      /\ callback' = callback /\ cancelled' = cancelled /\ phase' = phase
  BY <1>4 DEF Stored
<1>7. CASE /\ timers' = timers \cup {e} /\ pedding_functors' = pedding_functors
           /\ in_use' = [j \in DOMAIN in_use \cup {k} |->
                            IF j \in DOMAIN in_use THEN in_use[j] ELSE k]
  <2>1. /\ DOMAIN in_use' = DOMAIN in_use \cup {k} /\ in_use'[k] = k
        /\ \A j \in DOMAIN in_use : in_use'[j] = in_use[j]
    BY <1>1, <1>7
  <2>2. TypeOK'
    BY <1>0, <1>1, <1>2, <1>5, <1>6, <1>7, <2>1 DEF TypeOK, Timer
  <2>3. e.timer = k /\ \A f \in timers \cup expired : f.timer # k
    BY <1>0, <1>1 DEF Known
  <2>4. Known'
    <3>1. callback # None => callback.timer # k
      BY <1>0, <1>1 DEF Known
    <3>2. deleted \subseteq 1..allocated' /\ k \notin deleted
      BY <1>0, <1>5 DEF Known
    <3> HIDE DEF e
    <3> QED
      BY <1>0, <1>5, <1>6, <1>7, <2>1, <2>3, <3>1, <3>2 DEF Known
  <2>5. OnTheWay'
    <3>1. \A f : Waits(f) => WaitsNext(f)
      BY <1>5, <1>6, <2>1 DEF Waits, WaitsNext
    <3> QED
      BY <1>0, <1>6, <1>7, <3>1, OnTheWayStays
  <2> QED
    BY <1>5, <2>2, <2>4, <2>5 DEF IInv
<1>8. CASE pedding_functors' = Append(pedding_functors, e) /\ timers' = timers /\ in_use' = in_use
  <2>1. /\ pedding_functors' \in Seq(Entry)
        /\ Len(pedding_functors') = Len(pedding_functors) + 1
        /\ pedding_functors'[Len(pedding_functors) + 1] = e
        /\ \A i \in 1..Len(pedding_functors) : pedding_functors'[i] = pedding_functors[i]
        /\ Len(pedding_functors) \in Nat
    BY <1>0, <1>2, <1>8, AppendProperties DEF TypeOK
  <2>2. TypeOK'
    BY <1>0, <1>5, <1>6, <1>8, <2>1 DEF TypeOK
  <2>3. Known'
    BY <1>0, <1>5, <1>6, <1>8 DEF Known
  <2>4. OnTheWay'
    <3>1. \A i \in 1..Len(pedding_functors') :
             i \in 1..Len(pedding_functors) \/ i = Len(pedding_functors) + 1
      BY <2>1
    <3>2. e.timer = k
      OBVIOUS
    <3> HIDE DEF e
    <3>3. /\ \A i \in 1..Len(pedding_functors) : pedding_functors[i].timer # k
          /\ \A i \in 1..Len(calling_functors) : calling_functors[i].timer # k
      BY <1>0, <1>5 DEF OnTheWay, Waits
    <3>4. k \notin deleted
      BY <1>0, <1>5 DEF Known
    <3>5. WaitsNext(e) /\ \A f : Waits(f) => WaitsNext(f)
      BY <1>1, <1>5, <1>6, <1>8, <3>2, <3>4 DEF Waits, WaitsNext
    <3>6. /\ \A i \in 1..Len(pedding_functors') : WaitsNext(pedding_functors'[i])
          /\ \A i \in 1..Len(calling_functors') : WaitsNext(calling_functors'[i])
      BY <1>0, <1>6, <2>1, <3>1, <3>5 DEF OnTheWay
    <3>7. /\ \A i, j \in 1..Len(pedding_functors') :
                pedding_functors'[i].timer = pedding_functors'[j].timer => i = j
          /\ \A i \in 1..Len(pedding_functors'), j \in 1..Len(calling_functors') :
                pedding_functors'[i].timer # calling_functors'[j].timer
      BY <1>0, <1>6, <2>1, <3>1, <3>2, <3>3 DEF OnTheWay
    <3> QED
      BY <1>0, <1>6, <3>6, <3>7 DEF OnTheWay, Waits, WaitsNext
  <2> QED
    BY <1>5, <2>2, <2>3, <2>4 DEF IInv
<1> QED
  BY <1>3, <1>7, <1>8

\* Cancel() of a timer the loop knows: the ones on their way are others.
LEMMA CancelStep ==
    ASSUME IInv, NEW k \in DOMAIN in_use, CancelTimer(k) PROVE IInv'
<1>0. TypeOK /\ TakeTurns /\ IdsAreNumbers /\ Known /\ OnTheWay /\ Passes
  BY DEF IInv
<1>1. in_use[k] = k /\ k \in 1..allocated /\ k \in Timer /\ timer_id \in [Timer -> Int]
  BY <1>0 DEF Known, TypeOK, Timer
<1>2. /\ now' = now /\ next_timer_id' = next_timer_id /\ allocated' = allocated
      /\ adding' = adding /\ deleted' = deleted /\ timers' = timers
      /\ in_use' = in_use /\ expired' = expired /\ callback' = callback
      /\ phase' = phase /\ timeout' = timeout /\ wakeAt' = wakeAt
      /\ pedding_functors' = pedding_functors /\ calling_functors' = calling_functors
      /\ timer_id' = [timer_id EXCEPT ![k] = -timer_id[k]]
      /\ cancelled' = cancelled \cup {k} /\ timer_id[k] > 0
  BY <1>1 DEF CancelTimer, idVars, functorVars, pollVars
<1>3. /\ timer_id'[k] = -k /\ timer_id' \in [Timer -> Int]
      /\ \A j \in Timer : j # k => timer_id'[j] = timer_id[j]
  <2>1. timer_id[k] = k
    BY <1>0, <1>1, <1>2 DEF IdsAreNumbers
  <2> QED
    BY <1>1, <1>2, <2>1
<1>4. \A j \in 1..allocated : j \in Timer
  BY <1>0, BoundsAssumption DEF TypeOK, Timer
<1>5. TypeOK'
  BY <1>0, <1>1, <1>2, <1>3 DEF TypeOK
<1>6. TakeTurns' /\ Passes'
  BY <1>0, <1>2 DEF TakeTurns, Passes
<1>7. IdsAreNumbers'
  BY <1>0, <1>1, <1>2, <1>3, <1>4 DEF IdsAreNumbers
<1>8. Known'
  BY <1>0, <1>2 DEF Known
<1>9. OnTheWay'
  <2>1. \A f : Waits(f) => WaitsNext(f)
    BY <1>2, <1>3, <1>4 DEF Waits, WaitsNext
  <2> QED
    BY <1>0, <1>2, <2>1, OnTheWayStays
<1> QED
  BY <1>5, <1>6, <1>7, <1>8, <1>9 DEF IInv

\* What the steps of DoExpired() leave alone.
Expiring ==
    /\ now' = now /\ next_timer_id' = next_timer_id /\ allocated' = allocated
    /\ adding' = adding /\ timer_id' = timer_id /\ cancelled' = cancelled
    /\ timeout' = timeout /\ wakeAt' = wakeAt
    /\ pedding_functors' = pedding_functors /\ calling_functors' = calling_functors

\* They keep the invariant when they keep the entries in order.
LEMMA ExpiringStep ==
    ASSUME IInv, Expiring, Known', Passes',
           timers' \in SUBSET Entry, expired' \in SUBSET Entry,
           callback' \in Entry \cup {None}, phase' = phase \/ phase' = "expire",
           DOMAIN in_use' \subseteq DOMAIN in_use,
           \A f : Waits(f) => f.timer \notin deleted'
    PROVE  IInv'
<1>0. TypeOK /\ TakeTurns /\ IdsAreNumbers /\ Known /\ OnTheWay
  BY DEF IInv
<1>1. \A j \in 1..allocated : j \in Timer
  BY <1>0, BoundsAssumption DEF TypeOK, Timer
<1>2. deleted' \in SUBSET Timer
  BY <1>1 DEF Known, Expiring
<1>3. /\ DOMAIN in_use' \in SUBSET (Nat \ {0})
      /\ \A id \in DOMAIN in_use' : in_use'[id] \in Timer
  BY <1>0, <1>1 DEF TypeOK, Known, Expiring
<1>4. TypeOK'
  BY <1>0, <1>2, <1>3 DEF TypeOK, Expiring
<1>5. TakeTurns' /\ IdsAreNumbers'
  BY <1>0 DEF TakeTurns, IdsAreNumbers, Expiring
<1>6. OnTheWay'
  <2>1. \A f : Waits(f) => WaitsNext(f)
    BY DEF Waits, WaitsNext, Expiring
  <2> QED
    BY <1>0, <2>1, OnTheWayStays DEF Expiring
<1> QED
  BY <1>4, <1>5, <1>6 DEF IInv

\* DoExpired() begins: the expired entries change sets.
LEMMA DoExpiredStep == ASSUME IInv, DoExpired PROVE IInv'
<1>0. TypeOK /\ Known /\ Passes
  BY DEF IInv
<1>1. /\ Expiring /\ deleted' = deleted /\ in_use' = in_use /\ callback' = callback
      /\ phase = "handle" /\ phase' = "expire"
      /\ expired' = {e \in timers : IsExpired(e)}
      /\ timers' = {e \in timers : ~IsExpired(e)}
  BY DEF DoExpired, Collect, Expiring, idVars, functorVars, pollVars
<1>2. expired = {} /\ callback = None
  BY <1>0, <1>1 DEF Passes
<1>3. /\ timers' \in SUBSET Entry /\ expired' \in SUBSET Entry
      /\ timers' \cup expired' = timers \cup expired /\ timers' \cap expired' = {}
  BY <1>0, <1>1, <1>2 DEF TypeOK
<1>4. \A e \in expired' : e.when <= now
  BY <1>1 DEF IsExpired
<1>5. Known'
  BY <1>0, <1>1, <1>3 DEF Known, Expiring
<1>6. Passes'
  BY <1>0, <1>1, <1>2, <1>4 DEF Passes, Expiring
<1>7. \A f : Waits(f) => f.timer \notin deleted'
  BY <1>1 DEF Waits
<1>8. callback' \in Entry \cup {None}
  BY <1>0, <1>1 DEF TypeOK
<1> QED
  BY <1>1, <1>3, <1>5, <1>6, <1>7, <1>8, ExpiringStep

\* The next callback starts.
LEMMA CallTimerStep ==
    ASSUME IInv, NEW e \in expired, CallTimer(e) PROVE IInv'
<1>0. TypeOK /\ Known /\ Passes
  BY DEF IInv
<1>1. /\ Expiring /\ deleted' = deleted /\ in_use' = in_use /\ timers' = timers
      /\ expired' = expired \ {e} /\ callback = None /\ callback' = e
      /\ phase = "expire" /\ phase' = phase
  BY DEF CallTimer, Expiring, idVars, functorVars, pollVars
<1>2. e \in Entry /\ e # None /\ e \notin timers
  BY <1>0 DEF TypeOK, Known, Entry, None, Timer
<1>3. Known'
  BY <1>0, <1>1, <1>2 DEF Known, Expiring
<1>4. Passes'
  BY <1>0, <1>1 DEF Passes, Expiring
<1>5. \A f : Waits(f) => f.timer \notin deleted'
  BY <1>1 DEF Waits
<1>6. timers' \in SUBSET Entry /\ expired' \in SUBSET Entry /\ callback' \in Entry \cup {None}
  BY <1>0, <1>1, <1>2 DEF TypeOK
<1> QED
  BY <1>1, <1>3, <1>4, <1>5, <1>6, ExpiringStep

\* Release() of a timer whose entry is gone: its id goes with it.
LEMMA ReleaseKeeps ==
    ASSUME IInv, NEW k \in DOMAIN in_use, Release(k), Expiring,
           timers' = timers, expired' \subseteq expired, callback' = None,
           phase' = phase, phase = "expire",
           \A e \in timers' \cup expired' : e.timer # k,
           \A id \in DOMAIN in_use : id # k => \E e \in timers' \cup expired' : e.timer = id
    PROVE  IInv'
<1>0. TypeOK /\ IdsAreNumbers /\ Known /\ Passes
  BY DEF IInv
<1>1. k \in 1..allocated /\ Abs(timer_id[k]) = k
  <2>1. k \in 1..allocated /\ allocated \in Nat
    BY <1>0 DEF Known, TypeOK
  <2>2. timer_id[k] = k \/ timer_id[k] = -k
    BY <1>0, <2>1 DEF IdsAreNumbers
  <2> QED
    BY <2>1, <2>2 DEF Abs
<1>2. /\ deleted' = deleted \cup {k}
      /\ DOMAIN in_use' = DOMAIN in_use \ {k}
      /\ \A j \in DOMAIN in_use' : in_use'[j] = in_use[j]
  BY <1>1 DEF Release
<1>3. Known'
  BY <1>0, <1>1, <1>2 DEF Known, Expiring
<1>4. Passes'
  BY <1>0 DEF Passes, Expiring
<1>5. \A f : Waits(f) => f.timer \notin deleted'
  BY <1>2 DEF Waits
<1>6. timers' \in SUBSET Entry /\ expired' \in SUBSET Entry /\ callback' \in Entry \cup {None}
  BY <1>0 DEF TypeOK
<1> QED
  BY <1>2, <1>3, <1>4, <1>5, <1>6, ExpiringStep

\* A cancelled timer is dropped.
LEMMA DropCancelledStep ==
    ASSUME IInv, NEW e \in expired, DropCancelled(e) PROVE IInv'
<1>0. TypeOK /\ Known
  BY DEF IInv
<1>1. /\ Expiring /\ Release(e.timer) /\ timers' = timers
      /\ expired' = expired \ {e} /\ callback = None /\ callback' = None
      /\ phase = "expire" /\ phase' = phase
  BY DEF DropCancelled, Expiring, idVars, functorVars, pollVars
<1>2. e.timer \in DOMAIN in_use /\ \A f \in timers' \cup expired' : f.timer # e.timer
  BY <1>0, <1>1 DEF Known
<1>3. \A id \in DOMAIN in_use : id # e.timer => \E f \in timers' \cup expired' : f.timer = id
  BY <1>0, <1>1 DEF Known
<1> QED
  BY <1>1, <1>2, <1>3, ReleaseKeeps

\* The callback returns: its timer is freed or due again.
LEMMA CallbackReturnsStep == ASSUME IInv, CallbackReturns PROVE IInv'
<1> DEFINE k == callback.timer
<1>0. TypeOK /\ Known /\ Passes
  BY DEF IInv
<1>1. /\ Expiring /\ expired' = expired /\ callback # None /\ callback' = None
      /\ phase = "expire" /\ phase' = phase
  BY DEF CallbackReturns, Expiring, idVars, functorVars, pollVars
<1>2. PICK delay \in Delays :
         IF delay <= 0 THEN Release(k) /\ UNCHANGED timers
         ELSE timers' = ReinsertAt(callback, delay) /\ UNCHANGED <<deleted, in_use>>
  BY DEF CallbackReturns
<1>3. /\ k \in DOMAIN in_use /\ callback \in Entry
      /\ \A f \in timers \cup expired : f.timer # k
      /\ \A id \in DOMAIN in_use : id # k => \E f \in timers \cup expired : f.timer = id
  BY <1>0, <1>1 DEF Known, TypeOK
<1>4. CASE delay <= 0
  BY <1>1, <1>2, <1>3, <1>4, ReleaseKeeps
<1>5. CASE ~(delay <= 0)
  <2> DEFINE e == [when |-> callback.when + delay, timer |-> k]
  <2>1. timers' = timers \cup {e} /\ deleted' = deleted /\ in_use' = in_use
    BY <1>2, <1>5 DEF ReinsertAt
  <2>2. e \in Entry /\ e.timer = k
    BY <1>3, <1>5, DelayAssumption DEF Entry
  <2> HIDE DEF e
  <2>3. Known'
    <3>1. e \notin timers \cup expired
      BY <1>3, <2>2
    <3> HIDE DEF k
    <3> QED
      BY <1>0, <1>1, <1>3, <2>1, <2>2, <3>1 DEF Known, Expiring
  <2>4. Passes'
    BY <1>0, <1>1 DEF Passes, Expiring
  <2>5. \A f : Waits(f) => f.timer \notin deleted'
    BY <2>1 DEF Waits
  <2>6. timers' \in SUBSET Entry /\ expired' \in SUBSET Entry /\ callback' \in Entry \cup {None}
    BY <1>0, <1>1, <2>1, <2>2 DEF TypeOK
  <2> QED
    BY <1>1, <2>1, <2>3, <2>4, <2>5, <2>6, ExpiringStep
<1> QED
  BY <1>4, <1>5

\* DoPeddingFunctors() takes the queue over.
LEMMA ExpiredDoneStep == ASSUME IInv, ExpiredDone PROVE IInv'
<1>0. TypeOK /\ TakeTurns /\ IdsAreNumbers /\ Known /\ OnTheWay /\ Passes
  BY DEF IInv
<1>1. /\ now' = now /\ next_timer_id' = next_timer_id /\ allocated' = allocated
      /\ adding' = adding /\ deleted' = deleted /\ timers' = timers
      /\ timer_id' = timer_id /\ cancelled' = cancelled
      /\ in_use' = in_use /\ expired' = expired /\ callback' = callback
      /\ timeout' = timeout /\ wakeAt' = wakeAt /\ phase' = "functors"
      /\ calling_functors' = pedding_functors /\ pedding_functors' = <<>>
      /\ expired = {} /\ callback = None
  BY DEF ExpiredDone, idVars, pollVars
<1>2. pedding_functors' \in Seq(Entry) /\ Len(pedding_functors') = 0
  BY <1>1
<1>3. TypeOK'
  BY <1>0, <1>1, <1>2 DEF TypeOK
<1>4. TakeTurns' /\ IdsAreNumbers' /\ Known'
  BY <1>0, <1>1 DEF TakeTurns, IdsAreNumbers, Known
<1>5. Passes'
  BY <1>0, <1>1 DEF Passes
<1>6. OnTheWay'
  <2>1. \A i \in 1..Len(pedding_functors') : FALSE
    BY <1>2
  <2> QED
    BY <1>0, <1>1, <2>1 DEF OnTheWay, Waits
<1> QED
  BY <1>3, <1>4, <1>5, <1>6 DEF IInv

\* AddTimerInLoop() as a functor: its asserts hold.
LEMMA RunFunctorStep == ASSUME IInv, RunFunctor PROVE IInv'
<1> DEFINE h == Head(calling_functors)
           k == h.timer
           e == [when |-> h.when, timer |-> k]
<1>0. TypeOK /\ TakeTurns /\ IdsAreNumbers /\ Known /\ OnTheWay /\ Passes
  BY DEF IInv
<1>1. /\ now' = now /\ next_timer_id' = next_timer_id /\ allocated' = allocated
      /\ adding' = adding /\ deleted' = deleted
      /\ timer_id' = timer_id /\ cancelled' = cancelled
      /\ expired' = expired /\ callback' = callback
      /\ timeout' = timeout /\ wakeAt' = wakeAt /\ phase = "functors"
      /\ calling_functors' = Tail(calling_functors) /\ calling_functors # <<>>
      /\ pedding_functors' = pedding_functors
  BY DEF RunFunctor, idVars, pollVars
<1>2. /\ h \in Entry /\ h = calling_functors[1] /\ Len(calling_functors) \in Nat
      /\ 1 \in 1..Len(calling_functors)
      /\ calling_functors' \in Seq(Entry)
      /\ Len(calling_functors') = Len(calling_functors) - 1
      /\ \A i \in 1..Len(calling_functors') : calling_functors'[i] = calling_functors[i + 1]
  BY <1>0, <1>1, HeadTailProperties DEF TypeOK
<1>3. Waits(h) /\ k \in Timer /\ h.when \in Nat /\ e \in Entry
  BY <1>0, <1>2 DEF OnTheWay, Entry
<1>4. timer_id[k] = k /\ k \notin DOMAIN in_use /\ k \in 1..allocated /\ k \notin deleted /\ k > 0
  BY <1>3 DEF Waits, Timer
<1>5. /\ timers' = timers \cup {e} /\ phase' = phase
      /\ in_use' = [j \in DOMAIN in_use \cup {k} |->
                       IF j \in DOMAIN in_use THEN in_use[j] ELSE k]
  BY <1>4 DEF RunFunctor, AddTimerInLoop
<1>6. /\ DOMAIN in_use' = DOMAIN in_use \cup {k} /\ in_use'[k] = k
      /\ \A j \in DOMAIN in_use : in_use'[j] = in_use[j]
  BY <1>4, <1>5
<1>7. TypeOK'
  BY <1>0, <1>1, <1>2, <1>3, <1>5, <1>6 DEF TypeOK, Timer
<1>8. TakeTurns' /\ IdsAreNumbers'
  BY <1>0, <1>1 DEF TakeTurns, IdsAreNumbers
<1>9. Passes'
  BY <1>0, <1>1, <1>5 DEF Passes
<1>10. Known'
  <2>1. e.timer = k /\ \A f \in timers \cup expired : f.timer # k
    BY <1>0, <1>4 DEF Known
  <2>2. callback # None => callback.timer # k
    BY <1>0, <1>4 DEF Known
  <2> HIDE DEF e, k
  <2> QED
    BY <1>0, <1>1, <1>4, <1>5, <1>6, <2>1, <2>2 DEF Known
<1>11. OnTheWay'
  <2>1. \A i \in 1..Len(calling_functors') : i + 1 \in 1..Len(calling_functors) /\ i + 1 # 1
    BY <1>2
  <2>2. /\ \A i \in 1..Len(calling_functors') : calling_functors'[i].timer # k
        /\ \A i \in 1..Len(pedding_functors) : pedding_functors[i].timer # k
    BY <1>0, <1>2, <2>1 DEF OnTheWay
  <2>3. \A f : Waits(f) /\ f.timer # k => WaitsNext(f)
    BY <1>1, <1>6 DEF Waits, WaitsNext
  <2> HIDE DEF k
  <2>4. /\ \A i \in 1..Len(pedding_functors') : WaitsNext(pedding_functors'[i])
        /\ \A i \in 1..Len(calling_functors') : WaitsNext(calling_functors'[i])
    BY <1>0, <1>1, <1>2, <2>1, <2>2, <2>3 DEF OnTheWay
  <2>5. \A i, j \in 1..Len(calling_functors') :
           calling_functors'[i].timer = calling_functors'[j].timer => i = j
    <3> SUFFICES ASSUME NEW i \in 1..Len(calling_functors'), NEW j \in 1..Len(calling_functors'),
                        calling_functors'[i].timer = calling_functors'[j].timer
                 PROVE  i = j
      OBVIOUS
    <3>1. i + 1 = j + 1
      BY <1>0, <1>2, <2>1 DEF OnTheWay
    <3> QED
      BY <1>2, <3>1
  <2>6. \A i \in 1..Len(pedding_functors'), j \in 1..Len(calling_functors') :
           pedding_functors'[i].timer # calling_functors'[j].timer
    BY <1>0, <1>1, <1>2, <2>1 DEF OnTheWay
  <2> QED
    BY <1>0, <1>1, <2>4, <2>5, <2>6 DEF OnTheWay, Waits, WaitsNext
<1> QED
  BY <1>7, <1>8, <1>9, <1>10, <1>11 DEF IInv

\* Every step keeps the invariant.
LEMMA NextIInv == ASSUME Serialised, IInv, [Next]_vars PROVE IInv'
<1>1. CASE EnterLoop \/ BeginPoll \/ EndPoll \/ FunctorsDone \/ Tick \/ UNCHANGED vars
  BY <1>1, LoopStep
<1>2. CASE \E t \in Adders : AddTimerLoad(t) \/ AddTimerStore(t)
  BY <1>2, AddTimerLoadStep, AddTimerStoreStep
<1>3. CASE \E id \in DOMAIN in_use : CancelTimer(id)
  BY <1>3, CancelStep
<1>4. CASE \E e \in expired : DropCancelled(e) \/ CallTimer(e)
  BY <1>4, DropCancelledStep, CallTimerStep
<1>5. CASE DoExpired \/ CallbackReturns \/ ExpiredDone \/ RunFunctor
  BY <1>5, DoExpiredStep, CallbackReturnsStep, ExpiredDoneStep, RunFunctorStep
<1> QED
  BY <1>1, <1>2, <1>3, <1>4, <1>5 DEF Next, LoopSteps, PollTimesOut, PollWoken

\* The invariant, when the callers of AddTimer() take turns.
LEMMA Invariance == ASSUME Serialised PROVE Spec => []IInv
<1>1. IInv /\ [Next]_vars => IInv'
  BY NextIInv
<1> QED
  BY InitIInv, <1>1, PTL DEF Spec

\* Whatever callbacks add and cancel while DoExpired() runs, and whatever other
\* threads add, no Timer leaks, is freed twice or is left dangling, and the
\* asserts of AddTimerInLoop() hold.
THEOREM Ownership == ASSUME Serialised PROVE Spec => []OwnedOnce
<1>1. IInv => OwnedOnce
  <2> SUFFICES ASSUME IInv PROVE OwnedOnce
    OBVIOUS
  <2>0. TypeOK /\ IdsAreNumbers /\ Known /\ Passes
    BY DEF IInv
  <2>1. \A e \in Held : e \in timers \cup expired \/ (callback # None /\ e = callback)
    BY DEF Held
  <2>2. timers \cup expired \subseteq Held /\ (callback # None => callback \in Held)
    BY DEF Held
  <2>3. \A e, f \in Held : e.timer = f.timer => e = f
    BY <2>0, <2>1 DEF Known
  <2>4. callback # None => callback \notin timers \cup expired
    BY <2>0 DEF Known
  <2>5. \A e \in Held : e.timer \in DOMAIN in_use /\ e.timer \notin deleted
    BY <2>0, <2>1 DEF Known
  <2>6. \A id \in DOMAIN in_use : in_use[id] = id /\ \E e \in Held : e.timer = id
    BY <2>0, <2>2 DEF Known
  <2>7. {e.timer : e \in Held} = {in_use[id] : id \in DOMAIN in_use}
    BY <2>5, <2>6
  <2>8. \A id \in DOMAIN in_use : Abs(timer_id[in_use[id]]) = id
    <3> SUFFICES ASSUME NEW id \in DOMAIN in_use PROVE Abs(timer_id[id]) = id
      BY <2>6
    <3>1. id \in 1..allocated /\ allocated \in Nat
      BY <2>0 DEF Known, TypeOK
    <3>2. timer_id[id] = id \/ timer_id[id] = -id
      BY <2>0, <3>1 DEF IdsAreNumbers
    <3> QED
      BY <3>1, <3>2 DEF Abs
  <2> QED
    BY <2>0, <2>3, <2>4, <2>5, <2>7, <2>8 DEF OwnedOnce, AssertsHold, Known, Passes
<1> QED
  BY Invariance, <1>1, PTL

\* No callback starts early or after its timer was cancelled, even by the
\* callback before it in the same pass.
THEOREM Punctuality == ASSUME Serialised PROVE Spec => CallsAreDue
<1> DEFINE Due == callback' # None /\ callback' # callback =>
                      callback'.when <= now /\ callback'.timer \notin cancelled
<1>1. IInv /\ [Next]_vars => [Due]_vars
  <2> SUFFICES ASSUME IInv, Next, callback' # None, callback' # callback
               PROVE  callback'.when <= now /\ callback'.timer \notin cancelled
    OBVIOUS
  <2>1. PICK e \in expired : CallTimer(e)
    BY DEF Next, LoopSteps, AddTimerLoad, AddTimerStore, CancelTimer, EnterLoop, BeginPoll,
           PollTimesOut, PollWoken, EndPoll, DoExpired, DropCancelled, CallbackReturns,
           ExpiredDone, RunFunctor, FunctorsDone, Tick
  <2>2. callback' = e /\ timer_id[e.timer] > 0
    BY <2>1 DEF CallTimer, Callable
  <2>3. e.when <= now
    BY DEF IInv, Passes
  <2>4. e.timer \notin cancelled
    <3>1. \A k \in cancelled : ~(timer_id[k] > 0)
      BY DEF IInv, IdsAreNumbers, TypeOK
    <3> QED
      BY <2>2, <3>1
  <2> QED
    BY <2>2, <2>3, <2>4
<1> QED
  BY Invariance, <1>1, PTL DEF Spec, CallsAreDue
=============================================================================
