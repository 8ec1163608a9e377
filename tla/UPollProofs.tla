----------------------------- MODULE UPollProofs -----------------------------
(***************************************************************************)
(* Proofs about UPoll for any set of channels and of events: the indexes   *)
(* of channels and the entries of the array always agree, and UPoll        *)
(* implements Poller.                                                      *)
(***************************************************************************)
EXTENDS UPoll, SequenceTheorems, FiniteSetTheorems, TLAPS

\* The entry of a registered channel asks for what the channel wants, also
\* when poll() skips it.
EntriesAgree == \A c \in fd_channels : plfds[Place(c)].events = events[c]

\* The inductive invariant: an entry that moves keeps standing for its channel,
\* with the events the channel wants.
IInv == IndexesAgree /\ EntriesAgree

PollFd == [fd : Int, events : SUBSET Event]

\* The elements of r are those of s at some places of S, in order.
TakenFrom(r, s, S) ==
    \E at \in [1..Len(r) -> S] :
        /\ \A i, j \in 1..Len(r) : i < j => at[i] < at[j]
        /\ \A j \in 1..Len(r) : r[j] = s[at[j]]

\* The elements kept of a sequence: where they come from, and that they are
\* some when a place is kept.
LEMMA KeptProperties ==
    ASSUME NEW T, NEW s \in Seq(T), NEW S \in SUBSET (1..Len(s)),
           NEW r \in Kept(s, S)
    PROVE  /\ r \in Seq(T)
           /\ S # {} => r # <<>>
           /\ TakenFrom(r, s, S)
<1> DEFINE n == Cardinality(S)
<1>0. Len(s) \in Nat /\ \A i \in 1..Len(s) : s[i] \in T
  OBVIOUS
<1>1. IsFiniteSet(S)
  <2>1. IsFiniteSet(1..Len(s))
    BY <1>0, FS_Interval
  <2> QED
    BY <2>1, FS_Subset
<1>2. n \in Nat /\ (n = 0 <=> S = {})
  BY <1>1, FS_CardinalityType, FS_EmptySet
<1>3. PICK at \in InOrder(S) : r = [j \in 1..n |-> s[at[j]]]
  BY DEF Kept
<1>4. /\ at \in [1..n -> S]
      /\ \A i, j \in 1..n : i < j => at[i] < at[j]
  BY <1>3 DEF InOrder
<1> HIDE DEF n
<1>5. \A j \in 1..n : s[at[j]] \in T
  BY <1>0, <1>4
<1>6. r \in Seq(T) /\ Len(r) = n
  BY <1>2, <1>3, <1>5
<1>7. S # {} => r # <<>>
  BY <1>2, <1>6
<1>8. TakenFrom(r, s, S)
  BY <1>3, <1>4, <1>6 DEF TakenFrom
<1> QED
  BY <1>6, <1>7, <1>8

\* A step that updates or removes c leaves the other channels registered as
\* they were, each with its entry and its events.
OthersKept(c) ==
    \A d \in fd_channels' \ {c} :
        /\ d \in fd_channels
        /\ plfds'[index'[d] + 1] = plfds[Place(d)]
        /\ events'[d] = events[d]

\* Two registered channels are never in the same place, and an entry that is
\* not skipped names its channel.
LEMMA PlacesDiffer ==
    ASSUME IndexesAgree
    PROVE  /\ \A c, d \in fd_channels : Place(c) = Place(d) => c = d
           /\ \A c \in fd_channels :
                 plfds[Place(c)].fd >= 0 => plfds[Place(c)].fd = c
<1>1. \A c \in fd_channels :
         c \in Nat /\ (plfds[Place(c)].fd = c \/ plfds[Place(c)].fd = -c - 1)
  BY ChannelAssumption DEF IndexesAgree, TypeOK, Ignored
<1> QED
  BY <1>1

\* The constructor's state.
LEMMA InitIInv == Init => IInv
<1> SUFFICES ASSUME Init PROVE IInv
  OBVIOUS
<1>1. /\ plfds \in Seq(PollFd) /\ actived \in Seq(Channel)
      /\ Len(plfds) = 0 /\ DOMAIN plfds = 1..0
  BY EmptySeq DEF Init
<1>2. /\ events = [c \in Channel |-> {}] /\ index = [c \in Channel |-> -1]
      /\ fd_channels = {} /\ aborted = FALSE /\ ready = [c \in Channel |-> {}]
      /\ idled = {}
  BY DEF Init
<1>3. index \in [Channel -> -1..(Len(plfds) - 1)]
  BY <1>1, <1>2
<1>4. TypeOK
  BY <1>1, <1>2, <1>3 DEF TypeOK, PollFd
<1> QED
  BY <1>1, <1>2, <1>4 DEF IInv, IndexesAgree, EntriesAgree

\* A new channel gets an entry of its own at the end.
LEMMA AddStep ==
    ASSUME IInv, NEW c \in Channel, NEW evs \in SUBSET Event,
           ~aborted, AddChannel(c, evs), UNCHANGED <<actived, ready>>
    PROVE  /\ IInv' /\ OthersKept(c)
           /\ c \notin fd_channels
           /\ plfds'[index'[c] + 1].fd = c
<1> DEFINE e == [fd |-> c, events |-> evs]
           n == Len(plfds)
<1>1. /\ plfds \in Seq(PollFd) /\ index \in [Channel -> -1..(n - 1)]
      /\ c \in Nat /\ Channel \subseteq Nat
  BY ChannelAssumption DEF IInv, IndexesAgree, TypeOK, PollFd
<1>2. /\ index' = [index EXCEPT ![c] = n] /\ plfds' = Append(plfds, e)
      /\ events' = [events EXCEPT ![c] = evs]
      /\ fd_channels' = fd_channels \cup {c} /\ index[c] < 0
      /\ aborted' = (c \in fd_channels) /\ idled' = idled
  BY DEF AddChannel
<1>3. e \in PollFd
  BY <1>1 DEF PollFd
<1>4. /\ plfds' \in Seq(PollFd) /\ Len(plfds') = n + 1 /\ n \in Nat
      /\ \A i \in 1..n : plfds'[i] = plfds[i]
      /\ plfds'[n + 1] = e
  BY <1>1, <1>2, <1>3, AppendProperties, LenProperties
<1>5. c \notin fd_channels
  BY <1>1, <1>2 DEF IInv, IndexesAgree
<1>6. index' \in [Channel -> -1..n] /\ \A d \in Channel \ {c} : index'[d] = index[d]
  BY <1>1, <1>2, <1>4
<1>7. TypeOK'
  BY <1>1, <1>2, <1>4, <1>5, <1>6 DEF IInv, IndexesAgree, TypeOK, PollFd
<1>8. fd_channels' = {d \in Channel : index'[d] >= 0}
  BY <1>1, <1>2, <1>4, <1>6 DEF IInv, IndexesAgree, TypeOK
<1>9. ASSUME NEW d \in fd_channels
      PROVE  Place(d)' = Place(d) /\ Place(d) \in 1..n
  <2>1. d \in Channel \ {c} /\ Place(d) \in DOMAIN plfds
    BY <1>5 DEF IInv, IndexesAgree, TypeOK
  <2> QED
    BY <1>1, <1>6, <2>1 DEF Place
<1>9a. ASSUME NEW d \in fd_channels' \ {c}
       PROVE  /\ d \in fd_channels /\ events'[d] = events[d]
              /\ plfds'[Place(d)'] = plfds[Place(d)]
  <2>1. d \in fd_channels /\ d \in Channel \ {c}
    BY <1>2 DEF IInv, IndexesAgree, TypeOK
  <2> QED
    BY <1>2, <1>4, <1>9, <2>1 DEF IInv, IndexesAgree, TypeOK
<1>10. Place(c)' = n + 1
  BY <1>1, <1>2, <1>4 DEF Place
<1>11. ASSUME NEW d \in fd_channels'
       PROVE  /\ Place(d)' \in 1..(n + 1)
              /\ plfds'[Place(d)'].fd \in {d, Ignored(d)}
              /\ plfds'[Place(d)'].events = events'[d]
  <2>1. CASE d = c
    BY <1>1, <1>2, <1>4, <1>10, <2>1 DEF IInv, IndexesAgree, TypeOK
  <2>2. CASE d # c
    <3>1. d \in fd_channels /\ d \in Channel
      BY <1>2, <2>2 DEF IInv, IndexesAgree, TypeOK
    <3> QED
      BY <1>2, <1>4, <1>9, <1>9a, <2>2, <3>1
         DEF IInv, IndexesAgree, EntriesAgree, TypeOK
  <2> QED
    BY <2>1, <2>2
<1>12. ASSUME NEW i \in 1..(n + 1) PROVE \E d \in fd_channels' : Place(d)' = i
  <2>1. CASE i = n + 1
    BY <1>2, <1>10, <2>1
  <2>2. CASE i \in 1..n
    <3>1. PICK d \in fd_channels : Place(d) = i
      BY <1>1, <1>4, <2>2 DEF IInv, IndexesAgree
    <3> QED
      BY <1>2, <1>9, <3>1
  <2> QED
    BY <1>4, <2>1, <2>2
<1>13. DOMAIN plfds' = 1..(n + 1)
  BY <1>4
<1>14. IndexesAgree'
  BY <1>2, <1>5, <1>7, <1>8, <1>11, <1>12, <1>13 DEF IndexesAgree, Ignored
<1>15. IInv'
  BY <1>11, <1>14 DEF IInv, EntriesAgree
<1>16. OthersKept(c)
  BY <1>9a DEF OthersKept, Place
<1>17. plfds'[index'[c] + 1].fd = c
  BY <1>4, <1>10 DEF Place
<1> QED
  BY <1>5, <1>15, <1>16, <1>17

\* An update of a registered channel overwrites its own entry and no other.
LEMMA ModifyStep ==
    ASSUME IInv, NEW c \in Channel, NEW evs \in SUBSET Event,
           ~aborted, ModifyChannel(c, evs), UNCHANGED <<actived, ready>>
    PROVE  /\ IInv' /\ OthersKept(c)
           /\ c \in fd_channels /\ fd_channels' = fd_channels
           /\ evs # {} => plfds'[index'[c] + 1].fd = plfds[Place(c)].fd
<1> DEFINE n == Len(plfds)
           p == Place(c)
           e == Updated(plfds[p], evs)
<1>1. /\ plfds \in Seq(PollFd) /\ index \in [Channel -> -1..(n - 1)]
      /\ n \in Nat /\ DOMAIN plfds = 1..n
      /\ events \in [Channel -> SUBSET Event] /\ fd_channels \subseteq Channel
  BY LenProperties DEF IInv, IndexesAgree, TypeOK, PollFd
<1>2. c \in fd_channels /\ p \in 1..n /\ plfds[p].fd \in {c, Ignored(c)}
  BY <1>1 DEF ModifyChannel, IInv, IndexesAgree
<1>3. /\ aborted' = FALSE /\ plfds' = [plfds EXCEPT ![p] = e]
      /\ events' = [events EXCEPT ![c] = evs] /\ UNCHANGED <<index, fd_channels>>
  BY <1>1, <1>2 DEF ModifyChannel
<1>4. c \in Nat /\ (plfds[p].fd = c \/ plfds[p].fd = -c - 1)
  BY <1>2, ChannelAssumption DEF Ignored
<1>5. e \in PollFd /\ e.events = evs /\ (e.fd = c \/ e.fd = -c - 1)
  BY <1>4 DEF Updated, Ignored, PollFd
<1> HIDE DEF e
<1>6. /\ plfds' \in Seq(PollFd) /\ Len(plfds') = n
      /\ \A i \in 1..n : plfds'[i] = IF i = p THEN e ELSE plfds[i]
  BY <1>1, <1>2, <1>3, <1>5, ExceptSeq
<1>7. TypeOK'
  <2>1. idled' \in SUBSET fd_channels'
    BY <1>2, <1>3 DEF ModifyChannel, IInv, IndexesAgree, TypeOK
  <2> QED
    BY <1>3, <1>6, <2>1 DEF IInv, IndexesAgree, TypeOK, PollFd
<1>8. \A d \in fd_channels : Place(d)' = Place(d)
  BY <1>3 DEF Place
<1>9a. ASSUME NEW d \in fd_channels \ {c}
       PROVE  /\ Place(d) \in 1..n
              /\ plfds'[Place(d)'] = plfds[Place(d)] /\ events'[d] = events[d]
  <2>1. Place(d) \in 1..n /\ Place(d) # p
    BY <1>1, <1>2, PlacesDiffer DEF IInv, IndexesAgree
  <2> QED
    BY <1>1, <1>3, <1>6, <1>8, <2>1
<1>9. ASSUME NEW d \in fd_channels
      PROVE  /\ Place(d)' \in 1..n
             /\ plfds'[Place(d)'].fd \in {d, Ignored(d)}
             /\ plfds'[Place(d)'].events = events'[d]
  <2>1. CASE d = c
    BY <1>1, <1>2, <1>3, <1>5, <1>6, <1>8, <2>1 DEF Ignored
  <2>2. CASE d # c
    BY <1>8, <1>9a, <2>2 DEF IInv, IndexesAgree, EntriesAgree
  <2> QED
    BY <2>1, <2>2
<1>10. DOMAIN plfds' = 1..n
  BY <1>6
<1>11. \A i \in DOMAIN plfds' : \E d \in fd_channels' : Place(d)' = i
  BY <1>1, <1>3, <1>8, <1>10 DEF IInv, IndexesAgree
<1>12. fd_channels' = {d \in Channel : index'[d] >= 0}
  BY <1>3 DEF IInv, IndexesAgree
<1>13. \A d \in fd_channels' : /\ Place(d)' \in DOMAIN plfds'
                               /\ plfds'[Place(d)'].fd \in {d, Ignored(d)}
                               /\ plfds'[Place(d)'].events = events'[d]
  BY <1>3, <1>9, <1>10
<1>14. IndexesAgree'
  BY <1>3, <1>7, <1>11, <1>12, <1>13 DEF IndexesAgree, Ignored
<1>15. IInv'
  BY <1>13, <1>14 DEF IInv, EntriesAgree
<1>16. OthersKept(c)
  BY <1>3, <1>9a DEF OthersKept, Place
<1>17. evs # {} => plfds'[index'[c] + 1].fd = plfds[p].fd
  <2>1. evs # {} => e.fd = plfds[p].fd
    BY DEF e, Updated
  <2>2. index'[c] + 1 = p
    BY <1>3 DEF Place
  <2> QED
    BY <1>2, <1>6, <2>1, <2>2
<1> QED
  BY <1>2, <1>3, <1>15, <1>16, <1>17

\* The channel of the last entry is found under its descriptor unless that is
\* descriptor 0.
LEMMA EndFdNames ==
    ASSUME IInv, 0 \notin Channel, fd_channels # {}
    PROVE  \E d \in fd_channels : Place(d) = Len(plfds)
                                  /\ EndFd(plfds[Len(plfds)].fd) = d
<1>1. plfds \in Seq(PollFd) /\ DOMAIN plfds = 1..Len(plfds) /\ Len(plfds) \in Nat
  BY LenProperties DEF IInv, IndexesAgree, TypeOK, PollFd
<1>2. Len(plfds) \in DOMAIN plfds
  BY <1>1 DEF IInv, IndexesAgree
<1>3. PICK d \in fd_channels : Place(d) = Len(plfds)
  BY <1>2 DEF IInv, IndexesAgree
<1>4. d \in Nat \ {0} /\ (plfds[Len(plfds)].fd = d \/ plfds[Len(plfds)].fd = -d - 1)
  BY <1>3, ChannelAssumption DEF IInv, IndexesAgree, TypeOK, Ignored
<1>5. EndFd(plfds[Len(plfds)].fd) = d
  BY <1>4 DEF EndFd
<1> QED
  BY <1>3, <1>5

\* A removal moves the last entry and tells its channel.
LEMMA RemoveStep ==
    ASSUME IInv, 0 \notin Channel, NEW c \in Channel, RemoveChannel(c)
    PROVE  /\ IInv' /\ OthersKept(c)
           /\ c \in fd_channels /\ fd_channels' = fd_channels \ {c}
<1> DEFINE n == Len(plfds)
           p == Place(c)
           moved == EndFd(plfds[n].fd)
           others == fd_channels \ {c}
           filled == [plfds EXCEPT ![p] = plfds[n]]
<1>1. /\ plfds \in Seq(PollFd) /\ index \in [Channel -> -1..(n - 1)]
      /\ n \in Nat /\ DOMAIN plfds = 1..n /\ \A i \in 1..n : plfds[i] \in PollFd
      /\ events \in [Channel -> SUBSET Event] /\ fd_channels \subseteq Channel
  BY LenProperties, ElementOfSeq DEF IInv, IndexesAgree, TypeOK, PollFd
<1>2. /\ c \in fd_channels /\ p \in 1..n /\ plfds[p].fd \in {c, Ignored(c)}
      /\ n \in 1..n
  BY <1>1 DEF RemoveChannel, IInv, IndexesAgree
<1>3. PICK last \in fd_channels : Place(last) = n /\ moved = last
  BY <1>2, EndFdNames
<1>4. p < n <=> last # c
  BY <1>1, <1>2, <1>3, PlacesDiffer DEF IInv
<1>5. /\ aborted' = FALSE /\ fd_channels' = others
      /\ UNCHANGED <<events, actived, ready>>
      /\ plfds' = SubSeq(filled, 1, n - 1)
  BY <1>1, <1>2, <1>3, <1>4 DEF RemoveChannel
<1>6. index' = [d \in Channel |-> IF d = c THEN -1
                                  ELSE IF d = last THEN index[c] ELSE index[d]]
  <2>1. CASE p < n
    BY <1>3, <2>1 DEF RemoveChannel, IndexAfter
  <2>2. CASE ~(p < n)
    <3>1. index' = [index EXCEPT ![c] = -1] /\ last = c
      BY <1>3, <1>4, <2>2 DEF RemoveChannel
    <3> QED
      BY <1>1, <3>1
  <2> QED
    BY <2>1, <2>2
<1>7. /\ filled \in Seq(PollFd) /\ Len(filled) = n
      /\ \A i \in 1..n : filled[i] = IF i = p THEN plfds[n] ELSE plfds[i]
  BY <1>1, <1>2, ExceptSeq
<1> HIDE DEF filled
<1>8. /\ plfds' \in Seq(PollFd) /\ Len(plfds') = n - 1
      /\ \A i \in 1..(n - 1) : plfds'[i] = filled[i]
  <2>1. \A i \in 1..(n - 1) : filled[i] \in PollFd
    BY <1>1, <1>2, <1>7
  <2> QED
    BY <1>1, <1>2, <1>5, <2>1, SubSeqProperties
<1>9. DOMAIN plfds' = 1..(n - 1)
  BY <1>8
<1>10. ASSUME NEW d \in others
       PROVE  /\ Place(d)' = IF d = last THEN p ELSE Place(d)
              /\ Place(d)' \in 1..(n - 1)
              /\ plfds'[Place(d)'] = plfds[Place(d)]
  <2>1. d \in Channel /\ d # c /\ Place(d) \in 1..n /\ Place(d) # p
    BY <1>1, <1>2, PlacesDiffer DEF IInv, IndexesAgree
  <2>2. d # last => Place(d) # n
    BY <1>3, PlacesDiffer DEF IInv
  <2>3. Place(d)' = IF d = last THEN p ELSE Place(d)
    BY <1>6, <2>1 DEF Place
  <2>4. Place(d)' \in 1..(n - 1)
    BY <1>1, <1>2, <1>3, <1>4, <2>1, <2>2, <2>3
  <2>5. filled[Place(d)'] = plfds[Place(d)]
    BY <1>2, <1>3, <1>7, <2>1, <2>2, <2>3, <2>4
  <2> QED
    BY <1>8, <2>3, <2>4, <2>5
<1>11. index' \in [Channel -> -1..(n - 2)]
  <2>1. ASSUME NEW d \in Channel PROVE index'[d] \in -1..(n - 2)
    <3>1. CASE d \in others
      <4>1. Place(d)' \in 1..(n - 1) /\ Place(d)' = index'[d] + 1
        BY <1>10, <3>1 DEF Place
      <4>2. index'[d] \in Int
        BY <1>1, <1>6
      <4> QED
        BY <1>1, <4>1, <4>2
    <3>2. CASE d \notin others
      <4>1. index'[d] = -1
        BY <1>1, <1>3, <1>6, <3>2 DEF IInv, IndexesAgree, TypeOK
      <4> QED
        BY <1>1, <1>2, <4>1
    <3> QED
      BY <3>1, <3>2
  <2> QED
    BY <1>6, <2>1
<1>12. TypeOK'
  <2>1. index' \in [Channel -> -1..(Len(plfds') - 1)]
    BY <1>1, <1>8, <1>11
  <2>2. fd_channels' \in SUBSET Channel
    BY <1>1, <1>5
  <2>3. idled' \in SUBSET fd_channels'
    BY <1>5 DEF RemoveChannel, IInv, IndexesAgree, TypeOK
  <2> QED
    BY <1>5, <1>8, <2>1, <2>2, <2>3 DEF IInv, IndexesAgree, TypeOK, PollFd
<1>13. fd_channels' = {d \in Channel : index'[d] >= 0}
  <2>1. ASSUME NEW d \in Channel PROVE d \in others <=> index'[d] >= 0
    <3>1. index[c] >= 0 /\ (d \in fd_channels <=> index[d] >= 0) /\ index[d] \in Int
      BY <1>1, <1>2 DEF IInv, IndexesAgree
    <3> QED
      BY <1>3, <1>6, <3>1
  <2> QED
    BY <1>1, <1>5, <2>1
<1>14. \A d \in fd_channels' : /\ Place(d)' \in DOMAIN plfds'
                               /\ plfds'[Place(d)'].fd \in {d, Ignored(d)}
                               /\ plfds'[Place(d)'].events = events'[d]
  BY <1>5, <1>9, <1>10 DEF IInv, IndexesAgree, EntriesAgree
<1>15. ASSUME NEW i \in 1..(n - 1) PROVE \E d \in others : Place(d)' = i
  <2>1. CASE i = p
    <3>1. last \in others
      BY <1>1, <1>2, <1>4, <2>1
    <3> QED
      BY <1>10, <2>1, <3>1
  <2>2. CASE i # p
    <3>1. PICK d \in fd_channels : Place(d) = i
      <4>1. i \in DOMAIN plfds
        BY <1>1
      <4> QED
        BY <4>1 DEF IInv, IndexesAgree
    <3>2. d \in others /\ d # last
      BY <1>1, <1>3, <2>2, <3>1
    <3> QED
      BY <1>10, <3>1, <3>2
  <2> QED
    BY <2>1, <2>2
<1>16. IndexesAgree'
  BY <1>5, <1>9, <1>12, <1>13, <1>14, <1>15 DEF IndexesAgree, Ignored
<1>17. IInv'
  BY <1>14, <1>16 DEF IInv, EntriesAgree
<1>18. OthersKept(c)
  BY <1>5, <1>10 DEF OthersKept, Place
<1> QED
  BY <1>2, <1>5, <1>17, <1>18

\* A poll reports the descriptors of entries that are not skipped, and these
\* are the channels of the entries.
LEMMA HitIsRegistered ==
    ASSUME IInv, NEW i \in Hits
    PROVE  /\ plfds[i].fd \in fd_channels
           /\ Place(plfds[i].fd) = i
           /\ events[plfds[i].fd] \cap ready[plfds[i].fd] # {}
<1>1. i \in DOMAIN plfds /\ plfds[i].fd >= 0
      /\ plfds[i].events \cap ready[plfds[i].fd] # {}
  BY DEF Hits
<1>2. PICK d \in fd_channels : Place(d) = i
  BY <1>1 DEF IInv, IndexesAgree
<1>3. plfds[i].fd = d /\ plfds[i].events = events[d]
  BY <1>1, <1>2, PlacesDiffer DEF IInv, EntriesAgree
<1> QED
  BY <1>1, <1>2, <1>3

\* What a poll hands to the loop: some channels, registered and ready for
\* something they want, no one twice.
LEMMA PollReports ==
    ASSUME IInv, PollUntil
    PROVE  /\ aborted' = FALSE
           /\ actived' \in Seq(fd_channels)
           /\ actived' # <<>>
           /\ \A j \in 1..Len(actived') : events[actived'[j]] \cap ready[actived'[j]] # {}
           /\ \A j, k \in 1..Len(actived') : actived'[j] = actived'[k] => j = k
<1>1. plfds \in Seq(PollFd) /\ DOMAIN plfds = 1..Len(plfds) /\ Hits # {}
  BY LenProperties DEF IInv, IndexesAgree, TypeOK, PollFd, PollUntil
<1>2. PICK hit \in Kept(plfds, Hits) :
         /\ actived' = [i \in DOMAIN hit |-> hit[i].fd]
         /\ aborted' = \E i \in DOMAIN hit : hit[i].fd \notin fd_channels
  BY DEF PollUntil
<1>3. Hits \in SUBSET (1..Len(plfds))
  BY <1>1 DEF Hits
<1>4. hit \in Seq(PollFd) /\ hit # <<>> /\ TakenFrom(hit, plfds, Hits)
  BY <1>1, <1>2, <1>3, KeptProperties, Zenon
<1>5. PICK at \in [1..Len(hit) -> Hits] :
         /\ \A i, j \in 1..Len(hit) : i < j => at[i] < at[j]
         /\ \A j \in 1..Len(hit) : hit[j] = plfds[at[j]]
  BY <1>4 DEF TakenFrom
<1>6. DOMAIN hit = 1..Len(hit) /\ Len(hit) \in Nat /\ Len(hit) # 0
  BY <1>4, LenProperties, EmptySeq
<1>7. ASSUME NEW j \in 1..Len(hit)
      PROVE  /\ hit[j].fd \in fd_channels
             /\ Place(hit[j].fd) = at[j]
             /\ events[hit[j].fd] \cap ready[hit[j].fd] # {}
  BY <1>5, HitIsRegistered
<1>8. actived' = [j \in 1..Len(hit) |-> hit[j].fd]
  BY <1>2, <1>6
<1>9. /\ actived' \in Seq(fd_channels) /\ Len(actived') = Len(hit)
      /\ \A j \in 1..Len(hit) : actived'[j] = hit[j].fd
  BY <1>6, <1>7, <1>8
<1>10. ASSUME NEW j \in 1..Len(hit), NEW k \in 1..Len(hit), hit[j].fd = hit[k].fd
       PROVE  j = k
  <2>1. at[j] = at[k]
    BY <1>7, <1>10
  <2>2. at[j] \in 1..Len(plfds) /\ Len(plfds) \in Nat
    BY <1>1, <1>3, <1>5, LenProperties
  <2> QED
    BY <1>5, <1>6, <2>1, <2>2
<1>11. aborted' = FALSE
  BY <1>2, <1>6, <1>7
<1> QED
  BY <1>6, <1>7, <1>9, <1>10, <1>11

\* The steps of the loop and of the environment leave the array alone.
LEMMA LoopStep ==
    ASSUME IInv, \/ PollUntil \/ Handle
                 \/ \E c \in Channel : BecomesReady(c)
                 \/ UNCHANGED vars
    PROVE  IInv'
<1>1. UNCHANGED <<events, index, fd_channels, plfds, idled>>
  BY DEF PollUntil, Handle, BecomesReady, vars
<1>2. actived' \in Seq(Channel) /\ aborted' = FALSE
      /\ ready' \in [Channel -> SUBSET Event]
  <2>0. /\ actived \in Seq(Channel) /\ aborted = FALSE
        /\ ready \in [Channel -> SUBSET Event] /\ fd_channels \subseteq Channel
    BY DEF IInv, IndexesAgree, TypeOK
  <2>1. CASE PollUntil
    <3>1. aborted' = FALSE /\ actived' \in Seq(fd_channels) /\ UNCHANGED ready
      BY <2>1, PollReports DEF PollUntil
    <3> QED
      BY <2>0, <3>1
  <2>2. CASE Handle
    <3>1. Head(actived) \in Channel /\ Tail(actived) \in Seq(Channel)
      BY <2>0, <2>2, HeadTailProperties DEF Handle
    <3>2. PICK left \in SUBSET ready[Head(actived)] :
             ready' = [ready EXCEPT ![Head(actived)] = left]
      BY <2>2 DEF Handle
    <3> QED
      BY <2>0, <2>2, <3>1, <3>2 DEF Handle
  <2>3. CASE \E c \in Channel : BecomesReady(c)
    BY <2>0, <2>3 DEF BecomesReady
  <2>4. CASE UNCHANGED vars
    BY <2>0, <2>4 DEF vars
  <2> QED
    BY <2>1, <2>2, <2>3, <2>4
<1>3. TypeOK'
  BY <1>1, <1>2 DEF IInv, IndexesAgree, TypeOK
<1> QED
  BY <1>1, <1>2, <1>3 DEF IInv, IndexesAgree, EntriesAgree, Place

\* Every step keeps the invariant as long as no channel is descriptor 0.
LEMMA NextIInv ==
    ASSUME 0 \notin Channel, IInv, [Next]_vars PROVE IInv'
<1>1. CASE \E c \in Channel : UpdateChannel(c)
  <2>1. PICK c \in Channel, evs \in SUBSET Event :
           /\ ~aborted /\ (AddChannel(c, evs) \/ ModifyChannel(c, evs))
           /\ UNCHANGED <<actived, ready>>
    BY <1>1 DEF UpdateChannel
  <2> QED
    BY <2>1, AddStep, ModifyStep
<1>2. CASE \E c \in Channel : RemoveChannel(c)
  BY <1>2, RemoveStep
<1>3. CASE \/ PollUntil \/ Handle \/ \E c \in Channel : BecomesReady(c)
           \/ UNCHANGED vars
  BY <1>3, LoopStep
<1> QED
  BY <1>1, <1>2, <1>3 DEF Next

\* UpdateChannel(), RemoveChannel() and the poll keep indexes and array in
\* agreement, and their asserts hold, for any number of channels: descriptor 0
\* is the one a removal takes for its complement (l. 105).
THEOREM Agreement ==
    ASSUME 0 \notin Channel PROVE Spec => []IndexesAgree
<1>1. IInv => IndexesAgree
  BY DEF IInv
<1>2. IInv /\ [Next]_vars => IInv'
  BY NextIInv
<1> QED
  BY InitIInv, <1>1, <1>2, PTL DEF Spec

-----------------------------------------------------------------------------
(* Channels that want something are watched.                               *)

\* Only a channel that was disabled is in an entry that poll() skips.
NotSkipped == \A c \in fd_channels \ idled : plfds[Place(c)].fd >= 0

\* An update leaves the descriptor of an entry as it is or disables a channel.
LEMMA UpdateNotSkipped ==
    ASSUME IInv, NotSkipped, NEW c \in Channel, UpdateChannel(c)
    PROVE  NotSkipped'
<1>1. PICK evs \in SUBSET Event :
         /\ ~aborted /\ (AddChannel(c, evs) \/ ModifyChannel(c, evs))
         /\ UNCHANGED <<actived, ready>>
  BY DEF UpdateChannel
<1>2. c \in Nat /\ idled \subseteq idled'
  BY <1>1, ChannelAssumption DEF AddChannel, ModifyChannel
<1>3. OthersKept(c)
  BY <1>1, AddStep, ModifyStep
<1>4. c \notin idled' => plfds'[index'[c] + 1].fd >= 0
  <2>1. CASE AddChannel(c, evs)
    <3>1. plfds'[index'[c] + 1].fd = c
      BY <1>1, <2>1, AddStep
    <3> QED
      BY <1>2, <3>1
  <2>2. CASE ModifyChannel(c, evs)
    <3>1. c \in fd_channels /\ (evs # {} => plfds'[index'[c] + 1].fd = plfds[Place(c)].fd)
      BY <1>1, <2>2, ModifyStep
    <3>2. c \notin idled' => evs # {} /\ c \notin idled
      BY <2>2 DEF ModifyChannel
    <3> QED
      BY <3>1, <3>2 DEF NotSkipped
  <2> QED
    BY <1>1, <2>1, <2>2
<1>5. ASSUME NEW d \in fd_channels', d \notin idled'
      PROVE  plfds'[index'[d] + 1].fd >= 0
  <2>1. CASE d = c
    BY <1>4, <1>5, <2>1
  <2>2. CASE d # c
    BY <1>2, <1>3, <1>5, <2>2 DEF OthersKept, NotSkipped
  <2> QED
    BY <2>1, <2>2
<1> QED
  BY <1>5 DEF NotSkipped, Place

\* A registered channel that wants events, and was not disabled since it was
\* registered, is polled for exactly these: for any number of channels.
THEOREM Watching ==
    ASSUME 0 \notin Channel PROVE Spec => []WantedIsWatched
<1>1. Init => NotSkipped
  BY DEF Init, NotSkipped
<1>2. ASSUME IInv, NotSkipped, [Next]_vars PROVE NotSkipped'
  <2>1. ASSUME NEW c \in Channel, UpdateChannel(c) PROVE NotSkipped'
    BY <1>2, <2>1, UpdateNotSkipped
  <2>2. ASSUME NEW c \in Channel, RemoveChannel(c) PROVE NotSkipped'
    <3>1. /\ OthersKept(c) /\ fd_channels' = fd_channels \ {c}
          /\ idled' = idled \ {c}
      BY <1>2, <2>2, RemoveStep DEF RemoveChannel
    <3> QED
      BY <1>2, <3>1 DEF OthersKept, NotSkipped, Place
  <2>3. CASE \/ PollUntil \/ Handle \/ \E c \in Channel : BecomesReady(c)
             \/ UNCHANGED vars
    BY <1>2, <2>3 DEF PollUntil, Handle, BecomesReady, vars, NotSkipped, Place
  <2> QED
    BY <1>2, <2>1, <2>2, <2>3 DEF Next
<1>3. IInv /\ [Next]_vars => IInv'
  BY NextIInv
<1>4. IInv /\ NotSkipped => WantedIsWatched
  BY DEF IInv, NotSkipped, EntriesAgree, WantedIsWatched
<1> QED
  BY InitIInv, <1>1, <1>2, <1>3, <1>4, PTL DEF Spec

-----------------------------------------------------------------------------
(* Refinement.                                                             *)

\* A step of UPoll is a step of Poller or changes nothing Poller sees.
LEMMA PollerStep ==
    ASSUME 0 \notin Channel, IInv, [Next]_vars
    PROVE  [Promise!Next]_(Promise!vars)
<1>0. events \in [Channel -> SUBSET Event]
  BY DEF IInv, IndexesAgree, TypeOK
<1>1. ASSUME NEW c \in Channel, UpdateChannel(c) PROVE Promise!UpdateChannel(c)
  <2>1. PICK evs \in SUBSET Event :
           /\ ~aborted /\ (AddChannel(c, evs) \/ ModifyChannel(c, evs))
           /\ UNCHANGED <<actived, ready>>
    BY <1>1 DEF UpdateChannel
  <2>2. fd_channels' = fd_channels \cup {c}
    <3>1. CASE AddChannel(c, evs)
      BY <3>1 DEF AddChannel
    <3>2. CASE ModifyChannel(c, evs)
      BY <2>1, <3>2, ModifyStep
    <3> QED
      BY <2>1, <3>1, <3>2
  <2> QED
    BY <2>1, <2>2 DEF AddChannel, ModifyChannel, Promise!UpdateChannel
<1>2. ASSUME NEW c \in Channel, RemoveChannel(c) PROVE Promise!RemoveChannel(c)
  <2>1. c \in fd_channels /\ fd_channels' = fd_channels \ {c}
    BY <1>2, RemoveStep
  <2>2. events[c] = {} /\ UNCHANGED <<events, actived, ready>>
    BY <1>2 DEF RemoveChannel
  <2> QED
    BY <2>1, <2>2 DEF Promise!RemoveChannel
<1>3. ASSUME NEW c \in Channel, BecomesReady(c) PROVE Promise!BecomesReady(c)
  BY <1>3 DEF BecomesReady, Promise!BecomesReady
<1>4. ASSUME PollUntil PROVE Promise!PollUntil
  <2>1. /\ actived' \in Seq(fd_channels) /\ actived' # <<>>
        /\ \A j \in 1..Len(actived') : events[actived'[j]] \cap ready[actived'[j]] # {}
        /\ \A j, k \in 1..Len(actived') : actived'[j] = actived'[k] => j = k
    BY <1>4, PollReports
  <2>2. DOMAIN actived' = 1..Len(actived')
        /\ \A j \in 1..Len(actived') : actived'[j] \in fd_channels
    BY <2>1, LenProperties, ElementOfSeq
  <2> QED
    BY <1>4, <2>1, <2>2 DEF PollUntil, Promise!PollUntil, Promise!Active
<1>5. ASSUME Handle PROVE Promise!Handle
  BY <1>5 DEF Handle, Promise!Handle
<1>6. CASE UNCHANGED vars
  BY <1>6 DEF vars, Promise!vars
<1> QED
  BY <1>1, <1>2, <1>3, <1>4, <1>5, <1>6 DEF Next, Promise!Next

\* UPoll keeps what Poller promises the loop, for any channels and events: it
\* reports registered channels that are ready for what they want, each once.
THEOREM Refinement ==
    ASSUME 0 \notin Channel PROVE Spec => ImplementsPoller
<1>1. Init => Promise!Init
  BY DEF Init, Promise!Init
<1>2. IInv /\ [Next]_vars => IInv'
  BY NextIInv
<1>3. IInv /\ [Next]_vars => [Promise!Next]_(Promise!vars)
  BY PollerStep
<1> QED
  BY InitIInv, <1>1, <1>2, <1>3, PTL DEF Spec, ImplementsPoller, Promise!Spec
=============================================================================
