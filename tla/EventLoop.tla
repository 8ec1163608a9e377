------------------------------ MODULE EventLoop ------------------------------
(***************************************************************************)
(* EventLoop (src/src/event_loop.cc): one thread runs Loop(); it and any   *)
(* number of other threads hand it functors with QueueInLoop() and stop it *)
(* with Quit().  The functors cross over in a vector guarded by a mutex,   *)
(* the sleeping loop is woken through an eventfd.                          *)
(*                                                                         *)
(* A functor is a ticket: its place in the order in which QueueInLoop      *)
(* stored it.  RunInLoop() from another thread is QueueInLoop(); from the  *)
(* loop thread it is a plain call and changes nothing here.  What user     *)
(* callbacks do to the loop is to call QueueInLoop() and Quit() from it.   *)
(***************************************************************************)
EXTENDS Naturals, Sequences

CONSTANTS
    LoopThread,  \* the thread that constructed the EventLoop and calls Loop()
    Remote,      \* the other threads that use it
    MaxQueued    \* bound on the functors handed over in one behaviour

ASSUME ThreadAssumption == LoopThread \notin Remote
ASSUME BoundAssumption == MaxQueued \in Nat

VARIABLES
    phase,             \* where the loop thread is in Loop()
    inCallback,        \* the loop thread is inside user code called by Loop()
    actived_channels,  \* what is left to handle of this pass
    pedding_functors,  \* filled by QueueInLoop under the mutex
    calling_functors,  \* the batch DoPeddingFunctors is running
    next,              \* index in calling_functors of the next one to run
    calling_pedding_functors,
    done,
    wakeup_fd,         \* the eventfd is readable
    ioReady,           \* the descriptor of some other channel is readable
    owes,              \* threads between their store and their WakeUp()
    issued,            \* history: functors stored so far
    ran,               \* history: functors that ran, oldest first
    early,             \* history: stored by LoopThread while not in Loop()
    limit              \* history: value of issued at the last swap

loopVars == <<phase, inCallback, actived_channels>>
functorVars == <<pedding_functors, calling_functors, next,
                 calling_pedding_functors>>
history == <<issued, ran, early, limit>>
vars == <<loopVars, functorVars, done, wakeup_fd, ioReady, owes, history>>

Thread == Remote \cup {LoopThread}
Phase == {"outside", "check", "poll", "handle", "timers", "functors",
          "returned", "destroyed"}
Source == {"wakeup", "io", "timer"}
Ticket == 1..MaxQueued

Init ==
    /\ phase = "outside"
    /\ inCallback = FALSE
    /\ actived_channels = {}
    /\ pedding_functors = <<>>
    /\ calling_functors = <<>>
    /\ next = 1
    /\ calling_pedding_functors = FALSE
    /\ done = FALSE
    /\ wakeup_fd = FALSE
    /\ ioReady = FALSE
    /\ owes = {}
    /\ issued = 0
    /\ ran = <<>>
    /\ early = {}
    /\ limit = 0

-----------------------------------------------------------------------------
(* Calls made by user code.                                                *)

\* The loop object exists and t can be executing user code: another thread
\* always, the loop thread in a callback or while it is not in Loop().  A
\* thread that still owes a WakeUp() has not returned from its last call.
InUserCode(t) ==
    /\ phase # "destroyed"
    /\ t \notin owes
    /\ t = LoopThread => inCallback \/ phase \in {"outside", "returned"}

\* Mutants: the wakeup only for other threads; only inside a batch.
NeedsWakeUpRemoteOnly(t) == t # LoopThread
NeedsWakeUpInBatchOnly(t) == t = LoopThread /\ calling_pedding_functors

NeedsWakeUp(t) == t # LoopThread \/ calling_pedding_functors

\* The push under the mutex, and the decision to wake the loop; the write to
\* the eventfd is a step of its own, WakeUp(t).
QueueInLoop(t) ==
    /\ InUserCode(t)
    /\ issued < MaxQueued
    /\ issued' = issued + 1
    /\ pedding_functors' = Append(pedding_functors, issued + 1)
    /\ owes' = IF NeedsWakeUp(t) THEN owes \cup {t} ELSE owes
    /\ early' = IF t = LoopThread /\ phase = "outside"
                THEN early \cup {issued + 1} ELSE early
    /\ UNCHANGED <<loopVars, calling_functors, next, calling_pedding_functors,
                   done, wakeup_fd, ioReady, ran, limit>>

WakeUp(t) ==
    /\ t \in owes
    /\ wakeup_fd' = TRUE
    /\ owes' = owes \ {t}
    /\ UNCHANGED <<loopVars, functorVars, done, ioReady, history>>

\* Mutant: Quit() only sets the flag.
QuitNeverWakes(t) == FALSE

QuitWakes(t) == t # LoopThread

Quit(t) ==
    /\ InUserCode(t)
    /\ done' = TRUE
    /\ owes' = IF QuitWakes(t) THEN owes \cup {t} ELSE owes
    /\ UNCHANGED <<loopVars, functorVars, wakeup_fd, ioReady, history>>

-----------------------------------------------------------------------------
(* Loop(), step by step, on the loop thread.                               *)

\* The loop thread is in its own code, not in a callback.
LoopStep == ~inCallback

Loop ==
    /\ phase = "outside"
    /\ LoopThread \notin owes
    /\ phase' = "check"
    /\ UNCHANGED <<inCallback, actived_channels, functorVars, done, wakeup_fd,
                   ioReady, owes, history>>

CheckDone ==
    /\ phase = "check"
    /\ phase' = IF done THEN "returned" ELSE "poll"
    /\ actived_channels' = {}
    /\ UNCHANGED <<inCallback, functorVars, done, wakeup_fd, ioReady, owes,
                   history>>

Ready == (IF wakeup_fd THEN {"wakeup"} ELSE {})
         \cup (IF ioReady THEN {"io"} ELSE {})

\* The poller reports some of the readable descriptors: its event array may
\* be smaller than their number.
PollUntil ==
    /\ phase = "poll"
    /\ \E active \in SUBSET Ready \ {{}} : actived_channels' = active
    /\ phase' = "handle"
    /\ UNCHANGED <<inCallback, functorVars, done, wakeup_fd, ioReady, owes,
                   history>>

\* The timeout passed, or a signal interrupted the call: no channel active.
PollReturnsNothing ==
    /\ phase = "poll"
    /\ phase' = "handle"
    /\ UNCHANGED <<inCallback, actived_channels, functorVars, done, wakeup_fd,
                   ioReady, owes, history>>

HandleWakeUpRead ==
    /\ phase = "handle"
    /\ LoopStep
    /\ "wakeup" \in actived_channels
    /\ wakeup_fd' = FALSE
    /\ actived_channels' = actived_channels \ {"wakeup"}
    /\ UNCHANGED <<phase, inCallback, functorVars, done, ioReady, owes, history>>

\* Handle() of a user's channel; its callback need not read everything.
HandleIo ==
    /\ phase = "handle"
    /\ LoopStep
    /\ "io" \in actived_channels
    /\ inCallback' = TRUE
    /\ ioReady' \in BOOLEAN
    /\ actived_channels' = actived_channels \ {"io"}
    /\ UNCHANGED <<phase, functorVars, done, wakeup_fd, owes, history>>

\* DoExpired() starts: there are expired timers, or there are none.
DoExpired ==
    /\ phase = "handle"
    /\ LoopStep
    /\ actived_channels = {}
    /\ phase' = "timers"
    /\ actived_channels' \in {{}, {"timer"}}
    /\ UNCHANGED <<inCallback, functorVars, done, wakeup_fd, ioReady, owes,
                   history>>

TimerFires ==
    /\ phase = "timers"
    /\ LoopStep
    /\ actived_channels = {"timer"}
    /\ inCallback' = TRUE
    /\ actived_channels' = {}
    /\ UNCHANGED <<phase, functorVars, done, wakeup_fd, ioReady, owes, history>>

\* Mutant: the batch is copied and the queue is left as it was.
SwapCopies ==
    /\ calling_functors' = pedding_functors
    /\ UNCHANGED pedding_functors

\* calling_functors_.swap(pedding_functors_) under the mutex.
Swap ==
    /\ calling_functors' = pedding_functors
    /\ pedding_functors' = calling_functors

DoPeddingFunctors ==
    /\ phase = "timers"
    /\ LoopStep
    /\ actived_channels = {}
    /\ phase' = "functors"
    /\ calling_pedding_functors' = TRUE
    /\ Swap
    /\ next' = 1
    /\ limit' = issued
    /\ UNCHANGED <<inCallback, actived_channels, done, wakeup_fd, ioReady,
                   owes, issued, ran, early>>

RunFunctor ==
    /\ phase = "functors"
    /\ LoopStep
    /\ next <= Len(calling_functors)
    /\ ran' = Append(ran, calling_functors[next])
    /\ next' = next + 1
    /\ inCallback' = TRUE
    /\ UNCHANGED <<phase, actived_channels, pedding_functors, calling_functors,
                   calling_pedding_functors, done, wakeup_fd, ioReady, owes,
                   issued, early, limit>>

\* A callback returns to Loop(); it has finished the calls it made.
CallbackReturns ==
    /\ inCallback
    /\ LoopThread \notin owes
    /\ inCallback' = FALSE
    /\ UNCHANGED <<phase, actived_channels, functorVars, done, wakeup_fd,
                   ioReady, owes, history>>

\* Mutants: the batch is not cleared; the index survives the batch.
KeepBatch == UNCHANGED calling_functors /\ next' = 1
KeepIndex == calling_functors' = <<>> /\ UNCHANGED next

\* What DoPeddingFunctors() does after the last functor: both vectors are
\* reused, so the batch is cleared.
ClearBatch == calling_functors' = <<>> /\ next' = 1

\* Mutant: the loop keeps swapping until no functor is left.
FunctorsDoneDrains ==
    /\ phase = "functors"
    /\ LoopStep
    /\ next > Len(calling_functors)
    /\ calling_functors' = pedding_functors
    /\ pedding_functors' = <<>>
    /\ calling_pedding_functors' = (pedding_functors # <<>>)
    /\ next' = 1
    /\ phase' = IF pedding_functors = <<>> THEN "check" ELSE "functors"
    /\ UNCHANGED <<inCallback, actived_channels, done, wakeup_fd, ioReady, owes,
                   history>>

FunctorsDone ==
    /\ phase = "functors"
    /\ LoopStep
    /\ next > Len(calling_functors)
    /\ ClearBatch
    /\ calling_pedding_functors' = FALSE
    /\ phase' = "check"
    /\ UNCHANGED <<inCallback, actived_channels, pedding_functors, done,
                   wakeup_fd, ioReady, owes, history>>

\* ~EventLoop(), on the loop thread, once no call is in progress.  Functors
\* still queued are dropped.
Destroy ==
    /\ phase \in {"outside", "returned"}
    /\ owes = {}
    /\ phase' = "destroyed"
    /\ wakeup_fd' = FALSE
    /\ UNCHANGED <<inCallback, actived_channels, functorVars, done, ioReady,
                   owes, history>>

\* The environment: another descriptor becomes readable.
IoArrives ==
    /\ ~ioReady
    /\ ioReady' = TRUE
    /\ UNCHANGED <<loopVars, functorVars, done, wakeup_fd, owes, history>>

-----------------------------------------------------------------------------

LoopSteps ==
    \/ CheckDone \/ PollUntil \/ HandleWakeUpRead \/ HandleIo \/ DoExpired
    \/ TimerFires \/ DoPeddingFunctors \/ RunFunctor \/ CallbackReturns
    \/ FunctorsDone

Next ==
    \/ \E t \in Thread : QueueInLoop(t) \/ WakeUp(t) \/ Quit(t)
    \/ Loop \/ LoopSteps \/ PollReturnsNothing \/ Destroy \/ IoArrives

\* Inside Loop() the loop thread keeps running (poll() returns when something
\* is readable, callbacks return), and a thread that decided to wake the loop
\* performs its write().  Nobody has to call Loop(), QueueInLoop() or Quit(),
\* and neither a timeout nor I/O need ever happen.
Fairness ==
    /\ WF_vars(LoopSteps)
    /\ \A t \in Thread : WF_vars(WakeUp(t))

Spec == Init /\ [][Next]_vars /\ Fairness

-----------------------------------------------------------------------------
(* Properties.                                                             *)

TypeOK ==
    /\ phase \in Phase
    /\ inCallback \in BOOLEAN
    /\ actived_channels \in SUBSET Source
    /\ pedding_functors \in Seq(Nat)
    /\ calling_functors \in Seq(Nat)
    /\ next \in Nat /\ next <= Len(calling_functors) + 1
    /\ calling_pedding_functors \in BOOLEAN
    /\ done \in BOOLEAN
    /\ wakeup_fd \in BOOLEAN
    /\ ioReady \in BOOLEAN
    /\ owes \in SUBSET Thread
    /\ issued \in Nat
    /\ ran \in Seq(Nat)
    /\ early \in SUBSET Nat
    /\ limit \in Nat

\* Some functor waits that was not stored before Loop() by its own thread.
WakefulPending ==
    \E i \in DOMAIN pedding_functors : pedding_functors[i] \notin early

\* The loop never goes to sleep, or stays asleep, on a functor: while it is
\* about to poll or polling, a waiting functor means that the eventfd is
\* readable or that its writer is on its way (QueueInLoop, l. 79-83).  The
\* functors LoopThread stored before Loop() are the exception the code has.
NoLostWakeup ==
    phase = "poll" /\ WakefulPending => wakeup_fd \/ owes # {}

\* Quit() is not lost either: the flag is never set behind a sleeping loop
\* without the eventfd being readable or about to be (Quit, l. 133-138).
QuitNotLost == phase = "poll" /\ done => wakeup_fd \/ owes # {}

\* A functor stored while a batch runs waits for the next pass, so functors
\* that queue functors cannot keep the loop from its channels (l. 90-93).
BatchIsFixed == Len(ran) <= limit

Executor == INSTANCE FunctorExecutor
    WITH submitted <- issued, executed <- ran,
         open <- phase \notin {"returned", "destroyed"}

\* Functors run in the order in which they were stored, each at most once and
\* none after Loop() returned, although they travel through two vectors that
\* are swapped and reused (l. 86-101).
ImplementsExecutor == Executor!Spec

\* While Loop() runs, a functor is eventually executed unless Loop() returns
\* first; the functors stored before Loop() by its own thread are excepted.
FunctorsRun ==
    \A k \in Ticket :
        (k <= issued /\ k \notin early
         /\ phase \notin {"outside", "returned", "destroyed"})
            ~> (k <= Len(ran) \/ phase = "returned")

\* Quit(), from whatever thread and at whatever moment, makes Loop() return.
QuitStops == (done /\ phase \notin {"outside", "destroyed"}) ~>
                 (phase \in {"returned", "destroyed"})
=============================================================================
