-------------------------------- MODULE UPoll --------------------------------
(***************************************************************************)
(* UPoll (src/src/unix_poll.cc), the poller on poll(2).  It keeps an array *)
(* of pollfds; a channel knows its place in it, an entry whose fd is       *)
(* negative is skipped by poll(), and a removal moves the last entry into  *)
(* the hole.  A channel is identified with its descriptor.                 *)
(***************************************************************************)
EXTENDS Integers, Sequences, Subsequences

CONSTANTS
    Channel,      \* the channels, that is their descriptors
    Event         \* the event bits, reading and writing

ASSUME ChannelAssumption == Channel \subseteq Nat

VARIABLES
    events,       \* per channel: events_
    index,        \* per channel: index_in_poller_, 0-based, or -1
    fd_channels,  \* the channels the map knows
    plfds,        \* the pollfd array
    actived,      \* reported channels the loop has not handled yet
    aborted,      \* an assert failed
    ready,        \* per descriptor: what it is ready for
    \* History.
    idled         \* the registered channels that were disabled

vars == <<events, index, fd_channels, plfds, actived, aborted, ready, idled>>

Init ==
    /\ events = [c \in Channel |-> {}]
    /\ index = [c \in Channel |-> -1]
    /\ fd_channels = {}
    /\ plfds = <<>>
    /\ actived = <<>>
    /\ aborted = FALSE
    /\ ready = [c \in Channel |-> {}]
    /\ idled = {}

-----------------------------------------------------------------------------

\* How an entry names its descriptor when poll() is to skip it.
Ignored(fd) == -fd - 1

\* channel->GetIndex() as a position in a sequence.
Place(c) == index[c] + 1

\* A channel that is not in the array: an entry is appended.
AddChannel(c, evs) ==
    /\ index[c] < 0
    /\ events' = [events EXCEPT ![c] = evs]
    /\ aborted' = (c \in fd_channels)
    /\ index' = [index EXCEPT ![c] = Len(plfds)]
    /\ plfds' = Append(plfds, [fd |-> c, events |-> evs])
    /\ fd_channels' = fd_channels \cup {c}
    /\ UNCHANGED idled

\* Mutants: the entry of a channel that still wants something is skipped; the
\* entry keeps the events it had.
UpdatedFlips(entry, evs) == [fd |-> Ignored(entry.fd), events |-> evs]
UpdatedKeepsEvents(entry, evs) ==
    [fd |-> IF evs = {} THEN Ignored(entry.fd) ELSE entry.fd,
     events |-> entry.events]

\* The entry of a channel that wants evs: fd is flipped when it wants nothing.
Updated(entry, evs) ==
    [fd |-> IF evs = {} THEN Ignored(entry.fd) ELSE entry.fd, events |-> evs]

\* A channel that is in the array: its entry is overwritten.
ModifyChannel(c, evs) ==
    /\ index[c] >= 0
    /\ events' = [events EXCEPT ![c] = evs]
    /\ aborted' = \/ c \notin fd_channels
                  \/ Place(c) > Len(plfds)
                  \/ plfds[Place(c)].fd \notin {c, Ignored(c)}
    /\ plfds' = [plfds EXCEPT ![Place(c)] = Updated(@, evs)]
    /\ idled' = IF evs = {} THEN idled \cup {c} ELSE idled
    /\ UNCHANGED <<index, fd_channels>>

\* EnableRead(), DisableWrite(), DisableAll() ...: events_ changes, then
\* Channel::Update() -> UpdateChannel().
UpdateChannel(c) ==
    /\ ~aborted
    /\ \E evs \in SUBSET Event : AddChannel(c, evs) \/ ModifyChannel(c, evs)
    /\ UNCHANGED <<actived, ready>>

\* l. 105-106: the descriptor the last entry stands for.
EndFd(fd) == IF fd > 0 THEN fd ELSE -(fd + 1)

\* Mutant: the moved channel is not told its new place.
IndexAfterKept(c, moved) == [index EXCEPT ![c] = -1]

\* The channel of the last entry takes over c's place; c has none.
IndexAfter(c, moved) ==
    [d \in Channel |-> IF d = c THEN -1
                       ELSE IF d = moved THEN index[c] ELSE index[d]]

\* RemoveChannel(), of a registered channel its user has disabled.
RemoveChannel(c) ==
    LET last == Len(plfds)
        moved == EndFd(plfds[last].fd)
        others == fd_channels \ {c}
    IN  /\ ~aborted
        /\ index[c] >= 0
        /\ events[c] = {}
        /\ aborted' = \/ c \notin fd_channels
                      \/ Place(c) > last
                      \/ plfds[Place(c)].fd \notin {c, Ignored(c)}
                      \/ Place(c) < last /\ moved \notin others
        /\ fd_channels' = others
        /\ index' = IF Place(c) < last THEN IndexAfter(c, moved)
                    ELSE [index EXCEPT ![c] = -1]
        /\ plfds' = SubSeq([plfds EXCEPT ![Place(c)] = plfds[last]], 1, last - 1)
        /\ idled' = idled \ {c}
        /\ UNCHANGED <<events, actived, ready>>

-----------------------------------------------------------------------------
(* The loop.                                                               *)

\* The places of the entries poll() reports: the ones that are not skipped.
Hits == {i \in DOMAIN plfds :
            plfds[i].fd >= 0 /\ plfds[i].events \cap ready[plfds[i].fd] # {}}

\* poll() and FillActivedChannels(), in the order of the array.
PollUntil ==
    /\ ~aborted
    /\ actived = <<>>
    /\ Hits # {}
    /\ \E hit \in Kept(plfds, Hits) :
           /\ actived' = [i \in DOMAIN hit |-> hit[i].fd]
           /\ aborted' = \E i \in DOMAIN hit : hit[i].fd \notin fd_channels
    /\ UNCHANGED <<events, index, fd_channels, plfds, ready, idled>>

\* Channel::Handle(): the callbacks use up some of what the descriptor was
\* ready for; what else they do are UpdateChannel and RemoveChannel steps.
Handle ==
    LET c == Head(actived)
    IN  /\ actived # <<>>
        /\ ~aborted
        /\ actived' = Tail(actived)
        /\ \E left \in SUBSET ready[c] : ready' = [ready EXCEPT ![c] = left]
        /\ UNCHANGED <<events, index, fd_channels, plfds, aborted, idled>>

\* The environment makes a descriptor ready.
BecomesReady(c) ==
    /\ \E e \in Event \ ready[c] : ready' = [ready EXCEPT ![c] = @ \cup {e}]
    /\ UNCHANGED <<events, index, fd_channels, plfds, actived, aborted, idled>>

Next ==
    \/ \E c \in Channel : UpdateChannel(c) \/ RemoveChannel(c) \/ BecomesReady(c)
    \/ PollUntil \/ Handle

Spec == Init /\ [][Next]_vars

\* The channels of the map are the registered ones, events_ what they want.
Promise == INSTANCE Poller WITH wants <- events, channels <- fd_channels

-----------------------------------------------------------------------------
(* Properties.                                                             *)

TypeOK ==
    /\ events \in [Channel -> SUBSET Event]
    /\ index \in [Channel -> -1..(Len(plfds) - 1)]
    /\ fd_channels \in SUBSET Channel
    /\ plfds \in Seq([fd : Int, events : SUBSET Event])
    /\ actived \in Seq(Channel)
    /\ aborted \in BOOLEAN
    /\ ready \in [Channel -> SUBSET Event]
    /\ idled \in SUBSET fd_channels

\* Whatever was added, removed and moved, each registered channel's index is
\* the place of an entry of its own, and no entry is left without a channel.
\* The asserts of UpdateChannel, RemoveChannel and FillActivedChannels hold: a
\* removal finds the channel of the entry it moves (l. 107).
IndexesAgree ==
    /\ TypeOK
    /\ ~aborted
    /\ fd_channels = {c \in Channel : index[c] >= 0}
    /\ \A c \in fd_channels :
           /\ Place(c) \in DOMAIN plfds
           /\ plfds[Place(c)].fd \in {c, Ignored(c)}
    /\ \A i \in DOMAIN plfds : \E c \in fd_channels : Place(c) = i

\* A registered channel that wants events is watched: its entry is not one of
\* those poll() skips and asks for exactly these events, whatever was moved.
\* Not so for one that was disabled and enabled again without a removal: the
\* flip of l. 83-86 that makes poll() skip the entry is not undone.
WantedIsWatched ==
    \A c \in fd_channels \ idled :
        events[c] # {} => /\ plfds[Place(c)].fd >= 0
                          /\ plfds[Place(c)].events = events[c]

\* A poll finds registered channels that are ready for something they want,
\* each once, although a removal moves entries of the array.
ImplementsPoller == Promise!Spec
=============================================================================
