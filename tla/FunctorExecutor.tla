--------------------------- MODULE FunctorExecutor ---------------------------
(***************************************************************************)
(* What EventLoop promises the threads that hand it functors, without the  *)
(* two vectors, the mutex and the eventfd: functors run one at a time, in  *)
(* the order in which QueueInLoop stored them, each at most once, and none *)
(* runs after Loop() has returned.                                         *)
(***************************************************************************)
EXTENDS Naturals, Sequences

VARIABLES
    submitted,  \* how many functors have been stored so far
    executed,   \* the functors that ran, by submission number, oldest first
    open        \* FALSE once Loop() has returned for good

vars == <<submitted, executed, open>>

Init ==
    /\ submitted = 0
    /\ executed = <<>>
    /\ open = TRUE

Submit ==
    /\ submitted' = submitted + 1
    /\ UNCHANGED <<executed, open>>

Execute ==
    /\ open
    /\ Len(executed) < submitted
    /\ executed' = Append(executed, Len(executed) + 1)
    /\ UNCHANGED <<submitted, open>>

Close ==
    /\ open
    /\ open' = FALSE
    /\ UNCHANGED <<submitted, executed>>

Next == Submit \/ Execute \/ Close

Spec == Init /\ [][Next]_vars
=============================================================================
