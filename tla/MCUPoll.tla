------------------------------- MODULE MCUPoll -------------------------------
(* TLC instances of UPoll.                                                 *)
EXTENDS UPoll, FiniteSets, TLC

\* Reading and writing are treated alike.
EventSymmetry == Permutations(Event)

\* Bound: how many registered channels have been disabled.
FewIdled == Cardinality(idled) <= 1
=============================================================================
