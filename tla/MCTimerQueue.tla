---------------------------- MODULE MCTimerQueue ----------------------------
(* TLC instances of TimerQueue.                                            *)
EXTENDS TimerQueue
=============================================================================
