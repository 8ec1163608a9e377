---------------------------- MODULE Subsequences ----------------------------
(***************************************************************************)
(* The sequence of the elements at some places of another one.  It is      *)
(* described by the places in increasing order, not by recursion.          *)
(***************************************************************************)
EXTENDS Integers, FiniteSets

\* The increasing enumeration of a finite set of numbers, the only element.
InOrder(S) ==
    {at \in [1..Cardinality(S) -> S] :
        \A i, j \in 1..Cardinality(S) : i < j => at[i] < at[j]}

\* What is left of s when only the places in S are kept, the only element.
Kept(s, S) == {[j \in 1..Cardinality(S) |-> s[at[j]]] : at \in InOrder(S)}
=============================================================================
