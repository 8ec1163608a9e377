------------------------------- MODULE EPoller -------------------------------
(***************************************************************************)
(* EPoller (src/src/epoller.cc) with the Channels registered in it and the *)
(* part of epoll(7) it relies on.  A channel is identified with its        *)
(* descriptor.  Between two polls the loop handles the reported channels   *)
(* in order, and their callbacks enable, disable and remove channels.      *)
(***************************************************************************)
EXTENDS Integers, Sequences, SequencesExt, Subsequences

CONSTANTS
    Channel,    \* the channels, that is their descriptors
    Event,      \* the event bits, reading and writing
    InitialSize \* size of actived_events_ at construction (16 in the code)

ASSUME SizeAssumption == InitialSize \in Nat \ {0}
ASSUME EventAssumption == "absent" \notin Event

VARIABLES
    events,       \* per channel: events_
    index,        \* per channel: index_in_poller_, 1 or -1
    fd_channels,  \* the channels the map knows
    size,         \* actived_events_.size()
    actived,      \* reported channels the loop has not handled yet
    aborted,      \* an assert failed
    \* The kernel.
    epoll,        \* per descriptor: the interest epoll was given, or Absent
    ready,        \* per descriptor: what it is ready for
    readyList     \* epoll's ready list, oldest first

channelVars == <<events, index, fd_channels>>
kernelVars == <<epoll, ready, readyList>>
vars == <<channelVars, size, actived, aborted, kernelVars>>

Absent == {"absent"}

Init ==
    /\ events = [c \in Channel |-> {}]
    /\ index = [c \in Channel |-> -1]
    /\ fd_channels = {}
    /\ size = InitialSize
    /\ actived = <<>>
    /\ aborted = FALSE
    /\ epoll = [c \in Channel |-> Absent]
    /\ ready = [c \in Channel |-> {}]
    /\ readyList = <<>>

-----------------------------------------------------------------------------
(* epoll.                                                                  *)

\* The descriptor has an event epoll was asked for.
Triggered(c) == epoll[c] \cap ready[c] # {}

\* Descriptors join the ready list when they trigger; epoll_wait() drops the
\* ones that no longer do.
Link(c, list) ==
    IF Triggered(c)' /\ ~Contains(list, c) THEN Append(list, c) ELSE list

Unlink(c) == readyList' \in Kept(readyList, {i \in DOMAIN readyList : readyList[i] # c})

\* The environment, or the kernel, makes a descriptor ready.
BecomesReady(c) ==
    /\ \E e \in Event \ ready[c] : ready' = [ready EXCEPT ![c] = @ \cup {e}]
    /\ UNCHANGED <<channelVars, size, actived, aborted, epoll>>
    /\ readyList' = Link(c, readyList)

-----------------------------------------------------------------------------
(* Calls made by callbacks and functors, through Channel.                  *)

\* Mutant: an event once asked for is never taken back.
EPollUpdateAdds(c, evs) ==
    [epoll EXCEPT ![c] = IF @ = Absent THEN evs ELSE @ \cup evs]

\* epoll_ctl() to add or modify.
EPollUpdate(c, evs) == [epoll EXCEPT ![c] = evs]

\* EnableRead(), DisableWrite(), DisableAll() ...: events_ changes, then
\* Channel::Update() -> UpdateChannel().
UpdateChannel(c, evs) ==
    /\ ~aborted
    /\ events' = [events EXCEPT ![c] = evs]
    /\ IF index[c] < 0
       THEN /\ aborted' = (c \in fd_channels)
            /\ index' = [index EXCEPT ![c] = 1]
            /\ fd_channels' = fd_channels \cup {c}
       ELSE /\ aborted' = (c \notin fd_channels)
            /\ UNCHANGED <<index, fd_channels>>
    /\ epoll' = EPollUpdate(c, evs)
    /\ UNCHANGED ready
    /\ readyList' = Link(c, readyList)
    /\ UNCHANGED <<size, actived>>

\* Mutant: index_in_poller_ is not reset.
ForgetKeepsIndex(c) ==
    /\ UNCHANGED index
    /\ fd_channels' = fd_channels \ {c}

Forget(c) ==
    /\ index' = [index EXCEPT ![c] = -1]
    /\ fd_channels' = fd_channels \ {c}

\* RemoveChannel() of a channel that is registered (of another it does
\* nothing); users disable a channel before they remove it.
RemoveChannel(c) ==
    /\ ~aborted
    /\ c \in fd_channels
    /\ events[c] = {}
    /\ aborted' = (index[c] # 1)
    /\ Forget(c)
    /\ epoll' = [epoll EXCEPT ![c] = Absent]
    /\ Unlink(c)
    /\ UNCHANGED <<events, size, actived, ready>>

-----------------------------------------------------------------------------
(* The loop.                                                               *)

LoopMin(a, b) == IF a < b THEN a ELSE b

\* Mutant: the array shrinks below what epoll_wait() returned.
ShrinkTooFar(numEvents) == IF numEvents < size THEN numEvents - 1 ELSE size

\* if (num_events < size) actived_events_.resize(num_events).
Resize(numEvents) == IF numEvents < size THEN numEvents ELSE size

\* epoll_wait() takes at most size triggered descriptors from the front of
\* the ready list; being level triggered they go back to its end.
PollUntil ==
    /\ ~aborted
    /\ actived = <<>>
    /\ \E triggered \in Kept(readyList, {i \in DOMAIN readyList : Triggered(readyList[i])}) :
           LET num == LoopMin(Len(triggered), size)
               reported == SubSeq(triggered, 1, num)
           IN  /\ num > 0
               /\ actived' = reported
               /\ aborted' = \E i \in DOMAIN reported : reported[i] \notin fd_channels
               /\ size' = Resize(num)
               /\ readyList' = SubSeq(triggered, num + 1, Len(triggered)) \o reported
    /\ UNCHANGED <<channelVars, epoll, ready>>

\* Channel::Handle(): the callbacks use up some of what the descriptor was
\* ready for; what else they do are UpdateChannel and RemoveChannel steps.
Handle ==
    LET c == Head(actived)
    IN  /\ actived # <<>>
        /\ ~aborted
        /\ actived' = Tail(actived)
        /\ \E left \in SUBSET ready[c] : ready' = [ready EXCEPT ![c] = left]
        /\ UNCHANGED <<channelVars, size, aborted, epoll, readyList>>

Next ==
    \/ \E c \in Channel :
           \/ BecomesReady(c)
           \/ \E evs \in SUBSET Event : UpdateChannel(c, evs)
           \/ RemoveChannel(c)
    \/ PollUntil \/ Handle

\* The loop polls when something is triggered and handles what was reported.
Fairness == WF_vars(PollUntil) /\ WF_vars(Handle)

Spec == Init /\ [][Next]_vars /\ Fairness

\* The channels of the map are the registered ones, events_ what they want.
Promise == INSTANCE Poller WITH wants <- events, channels <- fd_channels

-----------------------------------------------------------------------------
(* Properties.                                                             *)

TypeOK ==
    /\ events \in [Channel -> SUBSET Event]
    /\ index \in [Channel -> {-1, 1}]
    /\ fd_channels \in SUBSET Channel
    /\ size \in 0..InitialSize
    /\ actived \in Seq(Channel)
    /\ aborted \in BOOLEAN
    /\ epoll \in [Channel -> {Absent} \cup SUBSET Event]
    /\ ready \in [Channel -> SUBSET Event]
    /\ readyList \in Seq(Channel)

\* The asserts of UpdateChannel, RemoveChannel and FillActivedChannels
\* (l. 27-35, 46-48, 122-123) hold and epoll is asked for exactly what the
\* channels want, whatever order of updates and removals callbacks produce.
Consistent ==
    /\ TypeOK
    /\ ~aborted
    /\ \A c \in Channel : epoll[c] = IF c \in fd_channels THEN events[c]
                                     ELSE Absent

\* Although actived_events_ shrinks with every quiet poll and never grows
\* back (l. 103-105), a channel that stays ready for an event it asked for is
\* reported: none starves behind the others.
NoStarvation ==
    \A c \in Channel :
        Triggered(c) ~> (~Triggered(c) \/ Contains(actived, c))

\* A poll finds registered channels that are ready for something they want,
\* each once, although epoll holds the channels and what they want a second
\* time and its ready list is older than the poll.
ImplementsPoller == Promise!Spec
=============================================================================
