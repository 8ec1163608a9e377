------------------------------- MODULE Poller -------------------------------
(***************************************************************************)
(* What a Poller (src/src/include/poller.h) promises the loop, whichever   *)
(* of EPoller and UPoll PollerFactory() made (src/src/poller.cc).  A poll  *)
(* finds channels first and they are handled after it; in between their    *)
(* callbacks change what channels want and which ones are registered.      *)
(***************************************************************************)
EXTENDS Sequences

CONSTANTS
    Channel,    \* the channels, that is their descriptors
    Event       \* the event bits

VARIABLES
    wants,      \* per channel: the events it asks for
    channels,   \* the registered ones
    ready,      \* per descriptor: what it is ready for
    actived     \* what the last poll found and the loop has not handled

vars == <<wants, channels, ready, actived>>

Init ==
    /\ wants = [c \in Channel |-> {}]
    /\ channels = {}
    /\ ready = [c \in Channel |-> {}]
    /\ actived = <<>>

UpdateChannel(c) ==
    /\ \E evs \in SUBSET Event : wants' = [wants EXCEPT ![c] = evs]
    /\ channels' = channels \cup {c}
    /\ UNCHANGED <<ready, actived>>

RemoveChannel(c) ==
    /\ c \in channels /\ wants[c] = {}
    /\ channels' = channels \ {c}
    /\ UNCHANGED <<wants, ready, actived>>

\* A registered channel whose descriptor is ready for something it asks for.
Active(c) == c \in channels /\ wants[c] \cap ready[c] # {}

\* A poll finds some active channels, each once.
PollUntil ==
    /\ actived = <<>>
    /\ actived' # <<>>
    /\ \A i \in DOMAIN actived' :
           /\ Active(actived'[i])
           /\ \A j \in DOMAIN actived' : actived'[j] = actived'[i] => j = i
    /\ UNCHANGED <<wants, channels, ready>>

Handle ==
    /\ actived # <<>>
    /\ actived' = Tail(actived)
    /\ \E left \in SUBSET ready[Head(actived)] :
           ready' = [ready EXCEPT ![Head(actived)] = left]
    /\ UNCHANGED <<wants, channels>>

BecomesReady(c) ==
    /\ \E e \in Event : ready' = [ready EXCEPT ![c] = @ \cup {e}]
    /\ UNCHANGED <<wants, channels, actived>>

Next ==
    \/ \E c \in Channel : UpdateChannel(c) \/ RemoveChannel(c) \/ BecomesReady(c)
    \/ PollUntil \/ Handle

Spec == Init /\ [][Next]_vars
=============================================================================
