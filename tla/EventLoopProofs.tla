--------------------------- MODULE EventLoopProofs ---------------------------
(***************************************************************************)
(* Proofs about EventLoop for any set of threads and any number of         *)
(* functors: no wakeup is lost, batches are fixed, and the two-vector      *)
(* hand-over implements FunctorExecutor.                                   *)
(***************************************************************************)
EXTENDS EventLoop, TLAPS

\* Where user code can run, and what the batch looks like between two passes.
PhaseInv ==
    /\ inCallback => phase \in {"handle", "timers", "functors"}
    /\ calling_pedding_functors <=> phase = "functors"
    /\ phase # "functors" => Len(calling_functors) = 0 /\ next = 1
    /\ 1 <= next /\ next <= Len(calling_functors) + 1

\* ran, the rest of the batch and the queue, in this order, are exactly the
\* tickets 1 .. issued.
RanInv == \A i \in 1..Len(ran) : ran[i] = i

BatchInv == \A i \in 1..Len(calling_functors) :
                calling_functors[i] + next = Len(ran) + 1 + i

QueueInv == \A i \in 1..Len(pedding_functors) :
                pedding_functors[i] + Len(pedding_functors) = issued + i

CountInv ==
    /\ Len(ran) + Len(calling_functors) + 1 + Len(pedding_functors)
           = issued + next
    /\ limit + next = Len(ran) + Len(calling_functors) + 1

TicketInv == RanInv /\ BatchInv /\ QueueInv /\ CountInv

\* NoLostWakeup, extended to the phases from which the loop reaches the poll
\* without swapping the vectors again.
WakeInv ==
    phase \in {"outside", "check", "poll", "functors"} /\ WakefulPending
        => wakeup_fd \/ owes # {}

IInv == TypeOK /\ PhaseInv /\ TicketInv /\ WakeInv /\ QuitNotLost

\* A vector that was cleared.
LEMMA EmptySeq == <<>> \in Seq(Nat) /\ Len(<<>>) = 0
OBVIOUS

\* Every step preserves what is known of the phases.
LEMMA PhaseStep == TypeOK /\ PhaseInv /\ [Next]_vars => PhaseInv'
<1> SUFFICES ASSUME TypeOK, PhaseInv, [Next]_vars PROVE PhaseInv'
  OBVIOUS
<1> USE DEF TypeOK, PhaseInv
<1>1. CASE \E t \in Thread : QueueInLoop(t) \/ WakeUp(t) \/ Quit(t)
  BY <1>1 DEF QueueInLoop, WakeUp, Quit, loopVars, functorVars
<1>2. CASE Loop \/ CheckDone \/ PollUntil \/ PollReturnsNothing
  BY <1>2 DEF Loop, CheckDone, PollUntil, PollReturnsNothing, functorVars
<1>3. CASE HandleWakeUpRead \/ HandleIo \/ DoExpired \/ TimerFires
  BY <1>3 DEF HandleWakeUpRead, HandleIo, DoExpired, TimerFires, LoopStep,
              functorVars
<1>4. CASE DoPeddingFunctors
  BY <1>4 DEF DoPeddingFunctors, Swap, LoopStep
<1>5. CASE RunFunctor
  BY <1>5 DEF RunFunctor
<1>6. CASE FunctorsDone
  <2>1. Len(calling_functors') = 0
    BY <1>6, EmptySeq DEF FunctorsDone, ClearBatch
  <2> QED
    BY <1>6, <2>1 DEF FunctorsDone, ClearBatch, LoopStep
<1>7. CASE CallbackReturns \/ Destroy \/ IoArrives
  BY <1>7 DEF CallbackReturns, Destroy, IoArrives, loopVars, functorVars
<1>8. CASE UNCHANGED vars
  BY <1>8 DEF vars, loopVars, functorVars
<1> QED
  BY <1>1, <1>2, <1>3, <1>4, <1>5, <1>6, <1>7, <1>8 DEF Next, LoopSteps

\* The type invariant is preserved by every step.
LEMMA TypeStep == TypeOK /\ PhaseInv /\ [Next]_vars => TypeOK'
<1> SUFFICES ASSUME TypeOK, PhaseInv, [Next]_vars PROVE TypeOK'
  OBVIOUS
<1>0. next' <= Len(calling_functors') + 1
  BY PhaseStep DEF PhaseInv
<1> USE <1>0 DEF TypeOK, Thread, Phase, Source
<1>1. ASSUME NEW t \in Thread, QueueInLoop(t) PROVE TypeOK'
  BY <1>1 DEF QueueInLoop, InUserCode, loopVars
<1>2. ASSUME NEW t \in Thread, WakeUp(t) PROVE TypeOK'
  BY <1>2 DEF WakeUp, loopVars, functorVars, history
<1>3. ASSUME NEW t \in Thread, Quit(t) PROVE TypeOK'
  BY <1>3 DEF Quit, InUserCode, loopVars, functorVars, history
<1>4. CASE Loop
  BY <1>4 DEF Loop, functorVars, history
<1>5. CASE CheckDone
  BY <1>5 DEF CheckDone, functorVars, history
<1>6. CASE PollUntil
  BY <1>6 DEF PollUntil, Ready, functorVars, history
<1>7. CASE PollReturnsNothing
  BY <1>7 DEF PollReturnsNothing, functorVars, history
<1>8. CASE HandleWakeUpRead
  BY <1>8 DEF HandleWakeUpRead, functorVars, history
<1>9. CASE HandleIo
  BY <1>9 DEF HandleIo, functorVars, history
<1>10. CASE DoExpired
  BY <1>10 DEF DoExpired, functorVars, history
<1>11. CASE TimerFires
  BY <1>11 DEF TimerFires, functorVars, history
<1>12. CASE DoPeddingFunctors
  BY <1>12 DEF DoPeddingFunctors, Swap
<1>13. CASE RunFunctor
  <2>1. calling_functors[next] \in Nat
    BY <1>13 DEF RunFunctor, PhaseInv
  <2> QED
    BY <1>13, <2>1 DEF RunFunctor
<1>14. CASE CallbackReturns
  BY <1>14 DEF CallbackReturns, functorVars, history
<1>15. CASE FunctorsDone
  <2>1. calling_functors' \in Seq(Nat) /\ next' = 1
    BY <1>15, EmptySeq DEF FunctorsDone, ClearBatch
  <2> QED
    BY <1>15, <2>1 DEF FunctorsDone, history
<1>16. CASE Destroy
  BY <1>16 DEF Destroy, functorVars, history
<1>17. CASE IoArrives
  BY <1>17 DEF IoArrives, loopVars, functorVars, history
<1>18. CASE UNCHANGED vars
  BY <1>18 DEF vars, loopVars, functorVars, history
<1> QED
  BY <1>1, <1>2, <1>3, <1>4, <1>5, <1>6, <1>7, <1>8, <1>9, <1>10, <1>11,
     <1>12, <1>13, <1>14, <1>15, <1>16, <1>17, <1>18 DEF Next, LoopSteps

\* The constructor's state satisfies the whole invariant.
LEMMA InitIInv == Init => IInv
<1> SUFFICES ASSUME Init PROVE IInv
  OBVIOUS
<1>1. /\ pedding_functors \in Seq(Nat) /\ Len(pedding_functors) = 0
      /\ calling_functors \in Seq(Nat) /\ Len(calling_functors) = 0
      /\ ran \in Seq(Nat) /\ Len(ran) = 0
  BY EmptySeq DEF Init
<1>2. /\ phase = "outside" /\ inCallback = FALSE /\ actived_channels = {}
      /\ next = 1 /\ calling_pedding_functors = FALSE /\ done = FALSE
      /\ wakeup_fd = FALSE /\ ioReady = FALSE /\ owes = {} /\ issued = 0
      /\ early = {} /\ limit = 0
  BY DEF Init
<1>r. next <= Len(calling_functors) + 1
  BY <1>1, <1>2
<1>3. TypeOK
  BY <1>1, <1>2, <1>r DEF TypeOK, Phase
<1>4. PhaseInv /\ TicketInv
  BY <1>1, <1>2 DEF PhaseInv, TicketInv, RanInv, BatchInv, QueueInv, CountInv
<1>5. WakeInv /\ QuitNotLost
  BY <1>1, <1>2 DEF WakeInv, WakefulPending, QuitNotLost
<1> QED
  BY <1>3, <1>4, <1>5 DEF IInv

\* Every step preserves the order and the number of the tickets: only the
\* four steps that touch a vector need an argument.
LEMMA TicketStep ==
    TypeOK /\ PhaseInv /\ TicketInv /\ [Next]_vars => TicketInv'
<1> SUFFICES ASSUME TypeOK, PhaseInv, TicketInv, [Next]_vars PROVE TicketInv'
  OBVIOUS
<1> DEFINE P == pedding_functors
           C == calling_functors
<1>s. P \in Seq(Nat) /\ C \in Seq(Nat) /\ ran \in Seq(Nat)
  BY DEF TypeOK
<1>n. /\ Len(P) \in Nat /\ Len(C) \in Nat /\ Len(ran) \in Nat
      /\ next \in Nat /\ issued \in Nat /\ limit \in Nat
  BY DEF TypeOK
<1>t. RanInv /\ BatchInv /\ QueueInv /\ CountInv
  BY DEF TicketInv
<1>1. ASSUME NEW t \in Thread, QueueInLoop(t) PROVE TicketInv'
  <2>1. P' = Append(P, issued + 1)
    BY <1>1 DEF QueueInLoop
  <2>2. issued' = issued + 1 /\ UNCHANGED <<ran, calling_functors, next, limit>>
    BY <1>1 DEF QueueInLoop
  <2>3. /\ Len(P') = Len(P) + 1
        /\ \A i \in 1..Len(P) : P'[i] = P[i] /\ P[i] \in Nat
        /\ P'[Len(P) + 1] = issued + 1
    BY <1>s, <1>n, <2>1
  <2>4. ASSUME NEW i \in 1..Len(P') PROVE P'[i] + Len(P') = issued' + i
    <3>1. CASE i \in 1..Len(P)
      <4>1. P[i] \in Nat /\ P'[i] = P[i] /\ P[i] + Len(P) = issued + i
        BY <1>t, <2>3, <3>1 DEF QueueInv
      <4>2. P[i] + (Len(P) + 1) = (issued + 1) + i
        BY <1>n, <3>1, <4>1
      <4> QED
        BY <2>2, <2>3, <4>1, <4>2
    <3>2. CASE i = Len(P) + 1
      BY <1>n, <2>2, <2>3, <3>2
    <3> QED
      BY <1>n, <2>3, <3>1, <3>2
  <2>5. QueueInv'
    BY <2>4 DEF QueueInv
  <2>6. RanInv' /\ BatchInv'
    BY <1>t, <2>2 DEF RanInv, BatchInv
  <2>7. CountInv'
    <3>1. Len(ran) + Len(C) + 1 + Len(P) = issued + next
      BY <1>t DEF CountInv
    <3>2. Len(ran) + Len(C) + 1 + (Len(P) + 1) = (issued + 1) + next
      BY <1>n, <3>1
    <3> QED
      BY <1>t, <2>2, <2>3, <3>2 DEF CountInv
  <2> QED
    BY <2>5, <2>6, <2>7 DEF TicketInv
<1>2. CASE DoPeddingFunctors
  <2>1. /\ C' = P /\ P' = C
        /\ next' = 1 /\ limit' = issued /\ UNCHANGED <<ran, issued>>
    BY <1>2 DEF DoPeddingFunctors, Swap
  <2>2. Len(C) = 0 /\ next = 1
    BY <1>2 DEF DoPeddingFunctors, PhaseInv
  <2>3. \A i \in 1..Len(P) : P[i] \in Nat
    BY <1>s
  <2>4. issued = Len(ran) + Len(P)
    BY <1>n, <1>t, <2>2 DEF CountInv
  <2>5. ASSUME NEW i \in 1..Len(P) PROVE P[i] + 1 = Len(ran) + 1 + i
    <3>1. P[i] + Len(P) = issued + i /\ P[i] \in Nat
      BY <1>t, <2>3 DEF QueueInv
    <3> QED
      BY <1>n, <2>4, <3>1
  <2>6. BatchInv'
    BY <2>1, <2>5 DEF BatchInv
  <2>7. QueueInv'
    BY <2>1, <2>2 DEF QueueInv
  <2>8. RanInv' /\ CountInv'
    BY <1>n, <1>t, <2>1, <2>2, <2>4 DEF RanInv, CountInv
  <2> QED
    BY <2>6, <2>7, <2>8 DEF TicketInv
<1>3. CASE RunFunctor
  <2>1. ran' = Append(ran, C[next])
    BY <1>3 DEF RunFunctor
  <2>2. /\ next' = next + 1 /\ next <= Len(C) /\ 1 <= next
        /\ UNCHANGED <<calling_functors, pedding_functors, issued, limit>>
    BY <1>3 DEF RunFunctor, PhaseInv
  <2>3. next \in 1..Len(C) /\ \A i \in 1..Len(C) : C[i] \in Nat
    BY <1>s, <1>n, <2>2
  <2>4. C[next] = Len(ran) + 1
    <3>1. C[next] + next = Len(ran) + 1 + next
      BY <1>t, <2>3 DEF BatchInv
    <3> QED
      BY <1>n, <2>3, <3>1
  <2>5. /\ Len(ran') = Len(ran) + 1
        /\ \A i \in 1..Len(ran) : ran'[i] = ran[i]
        /\ ran'[Len(ran) + 1] = Len(ran) + 1
    BY <1>s, <1>n, <2>1, <2>4
  <2>6. ASSUME NEW i \in 1..Len(ran') PROVE ran'[i] = i
    <3>1. i \in 1..Len(ran) \/ i = Len(ran) + 1
      BY <1>n, <2>5
    <3> QED
      BY <1>t, <2>5, <3>1 DEF RanInv
  <2>7. RanInv'
    BY <2>6 DEF RanInv
  <2>8. ASSUME NEW i \in 1..Len(C) PROVE C[i] + (next + 1) = (Len(ran) + 1) + 1 + i
    <3>1. C[i] + next = Len(ran) + 1 + i /\ C[i] \in Nat
      BY <1>t, <2>3 DEF BatchInv
    <3> QED
      BY <1>n, <3>1
  <2>9. BatchInv'
    BY <2>2, <2>5, <2>8 DEF BatchInv
  <2>10. QueueInv'
    BY <1>t, <2>2 DEF QueueInv
  <2>11. CountInv'
    <3>1. /\ (Len(ran) + 1) + Len(C) + 1 + Len(P) = issued + (next + 1)
          /\ limit + (next + 1) = (Len(ran) + 1) + Len(C) + 1
      BY <1>n, <1>t DEF CountInv
    <3> QED
      BY <2>2, <2>5, <3>1 DEF CountInv
  <2> QED
    BY <2>7, <2>9, <2>10, <2>11 DEF TicketInv
<1>4. CASE FunctorsDone
  <2>1. Len(C') = 0
    BY <1>4, EmptySeq DEF FunctorsDone, ClearBatch
  <2>2. next > Len(C) /\ next <= Len(C) + 1
    BY <1>4 DEF FunctorsDone, PhaseInv
  <2>3. next' = 1 /\ UNCHANGED <<ran, pedding_functors, issued, limit>>
    BY <1>4 DEF FunctorsDone, ClearBatch, history
  <2>4. RanInv' /\ QueueInv'
    BY <1>t, <2>3 DEF RanInv, QueueInv
  <2>5. BatchInv'
    BY <2>1 DEF BatchInv
  <2>6. CountInv'
    <3>1. /\ Len(ran) + 0 + 1 + Len(P) = issued + 1
          /\ limit + 1 = Len(ran) + 0 + 1
      BY <1>n, <1>t, <2>2 DEF CountInv
    <3> QED
      BY <2>1, <2>3, <3>1 DEF CountInv
  <2> QED
    BY <2>4, <2>5, <2>6 DEF TicketInv
<1>5. ASSUME UNCHANGED <<ran, calling_functors, pedding_functors, next, issued,
                         limit>>
      PROVE TicketInv'
  BY <1>t, <1>5 DEF TicketInv, RanInv, BatchInv, QueueInv, CountInv
<1>6. CASE \E t \in Thread : WakeUp(t) \/ Quit(t)
  BY <1>5, <1>6 DEF WakeUp, Quit, functorVars, history
<1>7. CASE Loop \/ CheckDone \/ PollUntil \/ PollReturnsNothing
  BY <1>5, <1>7 DEF Loop, CheckDone, PollUntil, PollReturnsNothing,
                    functorVars, history
<1>8. CASE HandleWakeUpRead \/ HandleIo \/ DoExpired \/ TimerFires
  BY <1>5, <1>8 DEF HandleWakeUpRead, HandleIo, DoExpired, TimerFires,
                    functorVars, history
<1>9. CASE CallbackReturns \/ Destroy \/ IoArrives \/ UNCHANGED vars
  BY <1>5, <1>9 DEF CallbackReturns, Destroy, IoArrives, vars, functorVars,
                    history
<1> QED
  BY <1>1, <1>2, <1>3, <1>4, <1>6, <1>7, <1>8, <1>9 DEF Next, LoopSteps

\* Every step preserves WakeInv.  A push sets owes, or marks the ticket early,
\* or happens in a phase that ends with a swap; the swap empties the queue.
LEMMA WakeStep ==
    TypeOK /\ PhaseInv /\ WakeInv /\ [Next]_vars => WakeInv'
<1> SUFFICES ASSUME TypeOK, PhaseInv, WakeInv, [Next]_vars PROVE WakeInv'
  OBVIOUS
<1> DEFINE P == pedding_functors
           Sleepy == {"outside", "check", "poll", "functors"}
<1>s. P \in Seq(Nat) /\ calling_functors \in Seq(Nat) /\ issued \in Nat
  BY DEF TypeOK
<1>1. ASSUME NEW t \in Thread, QueueInLoop(t) PROVE WakeInv'
  <2>1. CASE NeedsWakeUp(t)
    <3>1. t \in owes'
      BY <1>1, <2>1 DEF QueueInLoop
    <3> QED
      BY <3>1 DEF WakeInv
  <2>2. CASE ~NeedsWakeUp(t)
    <3>1. /\ t = LoopThread /\ phase # "functors" /\ phase' = phase
          /\ owes' = owes /\ wakeup_fd' = wakeup_fd
          /\ inCallback \/ phase \in {"outside", "returned"}
      BY <1>1, <2>2 DEF NeedsWakeUp, QueueInLoop, InUserCode, PhaseInv, loopVars
    <3>2. CASE phase' \notin Sleepy
      BY <3>2 DEF WakeInv
    <3>3. CASE phase' \in Sleepy
      <4>1. phase = "outside"
        BY <3>1, <3>3 DEF PhaseInv
      <4>2. /\ P' = Append(P, issued + 1)
            /\ early' = early \cup {issued + 1}
        BY <1>1, <3>1, <4>1 DEF QueueInLoop
      <4>3. /\ DOMAIN P = 1..Len(P) /\ DOMAIN P' = 1..(Len(P) + 1)
            /\ \A i \in 1..Len(P) : P'[i] = P[i]
            /\ P'[Len(P) + 1] = issued + 1
            /\ Len(P) \in Nat
        BY <1>s, <4>2
      <4>4. \A i \in 1..(Len(P) + 1) : i \in 1..Len(P) \/ i = Len(P) + 1
        BY <4>3
      <4>5. WakefulPending' => WakefulPending
        BY <4>2, <4>3, <4>4 DEF WakefulPending
      <4> QED
        BY <3>1, <4>1, <4>5 DEF WakeInv
    <3> QED
      BY <3>2, <3>3
  <2> QED
    BY <2>1, <2>2
<1>2. ASSUME NEW t \in Thread, WakeUp(t) PROVE WakeInv'
  BY <1>2 DEF WakeInv, WakeUp
<1>3. ASSUME UNCHANGED <<pedding_functors, early, wakeup_fd>>,
             owes \subseteq owes', phase' \in Sleepy => phase \in Sleepy
      PROVE WakeInv'
  BY <1>3 DEF WakeInv, WakefulPending
<1>4. ASSUME NEW t \in Thread, Quit(t) PROVE WakeInv'
  BY <1>3, <1>4 DEF Quit, loopVars, functorVars, history
<1>5. CASE Loop \/ CheckDone \/ PollUntil \/ PollReturnsNothing
  BY <1>3, <1>5 DEF Loop, CheckDone, PollUntil, PollReturnsNothing,
                    functorVars, history
<1>6. CASE HandleWakeUpRead
  BY <1>6 DEF HandleWakeUpRead, WakeInv
<1>7. CASE HandleIo \/ DoExpired \/ TimerFires
  BY <1>3, <1>7 DEF HandleIo, DoExpired, TimerFires, functorVars, history
<1>8. CASE DoPeddingFunctors
  <2>1. Len(P') = 0 /\ P' \in Seq(Nat)
    BY <1>s, <1>8 DEF DoPeddingFunctors, Swap, PhaseInv
  <2>2. DOMAIN P' = 1..0
    BY <2>1
  <2> QED
    BY <2>2 DEF WakeInv, WakefulPending
<1>9. CASE RunFunctor
  BY <1>3, <1>9 DEF RunFunctor
<1>10. CASE FunctorsDone
  BY <1>3, <1>10 DEF FunctorsDone, history
<1>11. CASE CallbackReturns \/ IoArrives \/ UNCHANGED vars
  BY <1>3, <1>11 DEF CallbackReturns, IoArrives, vars, loopVars, functorVars,
                     history
<1>12. CASE Destroy
  BY <1>12 DEF Destroy, WakeInv
<1> QED
  BY <1>1, <1>2, <1>4, <1>5, <1>6, <1>7, <1>8, <1>9, <1>10, <1>11, <1>12
     DEF Next, LoopSteps

\* Every step preserves QuitNotLost: the loop polls only after it saw done_
\* unset, and inside the poll only another thread can set it.
LEMMA QuitStep ==
    TypeOK /\ PhaseInv /\ QuitNotLost /\ [Next]_vars => QuitNotLost'
<1> SUFFICES ASSUME TypeOK, PhaseInv, QuitNotLost, [Next]_vars,
                    phase' = "poll", done'
             PROVE wakeup_fd' \/ owes' # {}
  BY DEF QuitNotLost
<1> USE DEF TypeOK, PhaseInv, QuitNotLost
<1>1. ASSUME NEW t \in Thread, QueueInLoop(t) PROVE wakeup_fd' \/ owes' # {}
  BY <1>1 DEF QueueInLoop, loopVars
<1>2. ASSUME NEW t \in Thread, WakeUp(t) PROVE wakeup_fd' \/ owes' # {}
  BY <1>2 DEF WakeUp
<1>3. ASSUME NEW t \in Thread, Quit(t) PROVE wakeup_fd' \/ owes' # {}
  BY <1>3 DEF Quit, InUserCode, QuitWakes, loopVars
<1>4. CASE CheckDone
  BY <1>4 DEF CheckDone
<1>5. CASE Loop \/ PollUntil \/ PollReturnsNothing \/ HandleWakeUpRead
           \/ HandleIo \/ DoExpired \/ TimerFires
  BY <1>5 DEF Loop, PollUntil, PollReturnsNothing, HandleWakeUpRead, HandleIo,
              DoExpired, TimerFires
<1>6. CASE DoPeddingFunctors \/ RunFunctor \/ FunctorsDone \/ Destroy
  BY <1>6 DEF DoPeddingFunctors, RunFunctor, FunctorsDone, Destroy
<1>7. CASE CallbackReturns \/ IoArrives \/ UNCHANGED vars
  BY <1>7 DEF CallbackReturns, IoArrives, vars, loopVars
<1> QED
  BY <1>1, <1>2, <1>3, <1>4, <1>5, <1>6, <1>7 DEF Next, LoopSteps

\* The invariant is inductive.
LEMMA Inductive == IInv /\ [Next]_vars => IInv'
BY TypeStep, PhaseStep, TicketStep, WakeStep, QuitStep DEF IInv

\* TypeOK holds in every reachable state of EventLoop.
THEOREM TypeCorrect == Spec => []TypeOK
<1>1. IInv => TypeOK
  BY DEF IInv
<1> QED
  BY <1>1, InitIInv, Inductive, PTL DEF Spec

\* For any number of threads and functors, the loop is never asleep on a
\* waiting functor with nobody about to wake it (QueueInLoop, l. 73-84).
THEOREM NoWakeupIsLost == Spec => []NoLostWakeup
<1>1. IInv => NoLostWakeup
  BY DEF IInv, WakeInv, NoLostWakeup
<1> QED
  BY <1>1, InitIInv, Inductive, PTL DEF Spec

\* Nor is it ever asleep with done_ set and nobody about to wake it (Quit,
\* l. 133-138).
THEOREM NoQuitIsLost == Spec => []QuitNotLost
<1>1. IInv => QuitNotLost
  BY DEF IInv
<1> QED
  BY <1>1, InitIInv, Inductive, PTL DEF Spec

\* No functor stored during a batch runs in that batch (DoPeddingFunctors,
\* l. 90-97).
THEOREM BatchesAreFixed == Spec => []BatchIsFixed
<1>1. IInv => BatchIsFixed
  <2> SUFFICES ASSUME IInv PROVE BatchIsFixed
    OBVIOUS
  <2>1. Len(ran) \in Nat /\ Len(calling_functors) \in Nat
    BY DEF IInv, TypeOK
  <2>2. next \in Nat /\ limit \in Nat
    BY DEF IInv, TypeOK
  <2>3. next <= Len(calling_functors) + 1
    BY DEF IInv, PhaseInv
  <2>4. limit + next = Len(ran) + Len(calling_functors) + 1
    BY DEF IInv, TicketInv, CountInv
  <2> QED
    BY <2>1, <2>2, <2>3, <2>4 DEF BatchIsFixed
<1> QED
  BY <1>1, InitIInv, Inductive, PTL DEF Spec

\* A step of EventLoop is a step of FunctorExecutor or changes nothing there.
LEMMA ExecutorStep == IInv /\ [Next]_vars => [Executor!Next]_Executor!vars
<1> SUFFICES ASSUME IInv, [Next]_vars PROVE [Executor!Next]_Executor!vars
  OBVIOUS
<1> DEFINE Open == phase \notin {"returned", "destroyed"}
<1>1. ASSUME NEW t \in Thread, QueueInLoop(t) PROVE Executor!Submit
  BY <1>1 DEF QueueInLoop, loopVars, Executor!Submit
<1>2. CASE RunFunctor
  <2>1. /\ ran' = Append(ran, calling_functors[next]) /\ issued' = issued
        /\ Open /\ Open'
        /\ 1 <= next /\ next <= Len(calling_functors)
    BY <1>2 DEF RunFunctor, IInv, PhaseInv
  <2>2. /\ next \in Nat /\ issued \in Nat /\ Len(ran) \in Nat
        /\ Len(calling_functors) \in Nat /\ Len(pedding_functors) \in Nat
    BY DEF IInv, TypeOK
  <2>3. next \in 1..Len(calling_functors)
    BY <2>1, <2>2
  <2>4. calling_functors[next] \in Nat
    BY <2>3 DEF IInv, TypeOK
  <2>5. calling_functors[next] + next = Len(ran) + 1 + next
    BY <2>3 DEF IInv, TicketInv, BatchInv
  <2>6. calling_functors[next] = Len(ran) + 1
    BY <2>2, <2>4, <2>5
  <2>7. Len(ran) + Len(calling_functors) + 1 + Len(pedding_functors)
            = issued + next
    BY DEF IInv, TicketInv, CountInv
  <2>8. Len(ran) < issued
    BY <2>1, <2>2, <2>7
  <2> QED
    BY <2>1, <2>6, <2>8 DEF Executor!Next, Executor!Execute
<1>3. ASSUME UNCHANGED <<issued, ran>>, Open' => Open
      PROVE Executor!Close \/ UNCHANGED Executor!vars
  BY <1>3 DEF Executor!Close, Executor!vars
<1>4. CASE \E t \in Thread : WakeUp(t) \/ Quit(t)
  BY <1>3, <1>4 DEF WakeUp, Quit, loopVars, history, Executor!Next
<1>5. CASE Loop \/ CheckDone \/ PollUntil \/ PollReturnsNothing
  BY <1>3, <1>5 DEF Loop, CheckDone, PollUntil, PollReturnsNothing, history,
                    Executor!Next
<1>6. CASE HandleWakeUpRead \/ HandleIo \/ DoExpired \/ TimerFires
  BY <1>3, <1>6 DEF HandleWakeUpRead, HandleIo, DoExpired, TimerFires, history,
                    Executor!Next
<1>7. CASE DoPeddingFunctors \/ FunctorsDone \/ Destroy
  BY <1>3, <1>7 DEF DoPeddingFunctors, FunctorsDone, Destroy, history,
                    Executor!Next
<1>8. CASE CallbackReturns \/ IoArrives \/ UNCHANGED vars
  BY <1>3, <1>8 DEF CallbackReturns, IoArrives, vars, loopVars, history,
                    Executor!Next
<1> QED
  BY <1>1, <1>2, <1>4, <1>5, <1>6, <1>7, <1>8 DEF Next, LoopSteps, Executor!Next

\* The two vectors, the mutex and the eventfd implement the plain executor:
\* functors run once, in the order of the pushes, and none after Loop().
THEOREM Refinement == Spec => ImplementsExecutor
<1>1. Init => Executor!Init
  BY DEF Init, Executor!Init
<1> QED
  BY <1>1, InitIInv, Inductive, ExecutorStep, PTL
     DEF Spec, ImplementsExecutor, Executor!Spec
=============================================================================
