---------------------------- MODULE EPollerProofs ----------------------------
(***************************************************************************)
(* Proofs about EPoller for any set of channels and of events and any      *)
(* size of actived_events_: its asserts hold, epoll is asked for what the  *)
(* channels want, and EPoller implements Poller.                           *)
(***************************************************************************)
EXTENDS EPoller, SequenceTheorems, FiniteSetTheorems, TLAPS

\* No element of a sequence occurs twice.
Distinct(s) == \A i, j \in 1..Len(s) : s[i] = s[j] => i = j

\* index_in_poller_ says whether the map has the channel.
IndexFollows == \A c \in Channel : index[c] = 1 <=> c \in fd_channels

\* The inductive invariant: which branch UpdateChannel() takes follows the
\* map, and epoll's list holds no descriptor twice, so a poll does not either.
IInv == Consistent /\ IndexFollows /\ Distinct(readyList)

-----------------------------------------------------------------------------
(* Sequences.                                                              *)

\* What is kept of a sequence without repetitions has none, and comes from
\* the places that are kept.
LEMMA KeptDistinct ==
    ASSUME NEW T, NEW s \in Seq(T), Distinct(s), NEW S \in SUBSET (1..Len(s)),
           NEW r \in Kept(s, S)
    PROVE  /\ r \in Seq(T) /\ Distinct(r)
           /\ \A j \in 1..Len(r) : \E i \in S : r[j] = s[i]
<1> DEFINE n == Cardinality(S)
<1>0. Len(s) \in Nat /\ \A i \in 1..Len(s) : s[i] \in T
  OBVIOUS
<1>1. IsFiniteSet(S)
  <2>1. IsFiniteSet(1..Len(s))
    BY <1>0, FS_Interval
  <2> QED
    BY <2>1, FS_Subset
<1>2. n \in Nat
  BY <1>1, FS_CardinalityType
<1>3. PICK at \in InOrder(S) : r = [j \in 1..n |-> s[at[j]]]
  BY DEF Kept
<1>4. /\ at \in [1..n -> S]
      /\ \A i, j \in 1..n : i < j => at[i] < at[j]
  BY <1>3 DEF InOrder
<1> HIDE DEF n
<1>5. \A j \in 1..n : at[j] \in S /\ at[j] \in 1..Len(s) /\ s[at[j]] \in T
  BY <1>0, <1>4
<1>6. r \in Seq(T) /\ Len(r) = n /\ \A j \in 1..n : r[j] = s[at[j]]
  BY <1>2, <1>3, <1>5
<1>7. ASSUME NEW i \in 1..n, NEW j \in 1..n, r[i] = r[j] PROVE i = j
  <2>1. at[i] = at[j] /\ at[i] \in Int
    BY <1>0, <1>5, <1>6, <1>7 DEF Distinct
  <2> QED
    BY <1>2, <1>4, <2>1
<1> QED
  BY <1>5, <1>6, <1>7 DEF Distinct

\* A sequence without repetitions has none after its front was moved behind
\* the rest, nor has the front.
LEMMA RotatedDistinct ==
    ASSUME NEW T, NEW s \in Seq(T), Distinct(s), NEW k \in 0..Len(s)
    PROVE  /\ SubSeq(s, 1, k) \in Seq(T) /\ Distinct(SubSeq(s, 1, k))
           /\ Len(SubSeq(s, 1, k)) = k
           /\ \A i \in 1..k : SubSeq(s, 1, k)[i] = s[i]
           /\ SubSeq(s, k + 1, Len(s)) \o SubSeq(s, 1, k) \in Seq(T)
           /\ Distinct(SubSeq(s, k + 1, Len(s)) \o SubSeq(s, 1, k))
<1> DEFINE n == Len(s)
           front == SubSeq(s, 1, k)
           rest == SubSeq(s, k + 1, n)
           moved == rest \o front
<1>1. n \in Nat /\ k \in Nat /\ k <= n /\ \A i \in 1..n : s[i] \in T
  BY LenProperties, ElementOfSeq
<1>2. /\ front \in Seq(T) /\ Len(front) = k
      /\ \A i \in 1..k : front[i] = s[i]
  <2>1. \A i \in 1..k : s[i] \in T
    BY <1>1
  <2> QED
    BY <1>1, <2>1, SubSeqProperties
<1>3. /\ rest \in Seq(T) /\ Len(rest) = n - k
      /\ \A i \in 1..(n - k) : rest[i] = s[k + i]
  <2>1. \A i \in (k + 1)..n : s[i] \in T
    BY <1>1
  <2>2. /\ rest \in Seq(T) /\ Len(rest) = IF k + 1 <= n THEN n - (k + 1) + 1 ELSE 0
        /\ \A i \in 1..(n - (k + 1) + 1) : rest[i] = s[(k + 1) + i - 1]
    BY <1>1, <2>1, SubSeqProperties
  <2> QED
    BY <1>1, <2>2
<1> HIDE DEF n, front, rest
<1>4. /\ moved \in Seq(T) /\ Len(moved) = n
      /\ \A i \in 1..n : moved[i] = IF i <= n - k THEN s[k + i] ELSE s[i - (n - k)]
  <2>1. /\ moved \in Seq(T) /\ Len(moved) = Len(rest) + Len(front)
        /\ \A i \in 1..(Len(rest) + Len(front)) :
              moved[i] = IF i <= Len(rest) THEN rest[i] ELSE front[i - Len(rest)]
    BY <1>2, <1>3, ConcatProperties
  <2> QED
    BY <1>1, <1>2, <1>3, <2>1
<1> HIDE DEF moved
<1>5. \A i, j \in 1..n : s[i] = s[j] => i = j
  BY DEF Distinct, n
<1>6. ASSUME NEW i \in 1..n, NEW j \in 1..n, moved[i] = moved[j] PROVE i = j
  <2> DEFINE from(x) == IF x <= n - k THEN k + x ELSE x - (n - k)
  <2>1. from(i) \in 1..n /\ from(j) \in 1..n /\ s[from(i)] = s[from(j)]
    BY <1>1, <1>4, <1>6
  <2>2. from(i) = from(j)
    BY <1>5, <2>1
  <2> QED
    BY <1>1, <2>2
<1>7. Distinct(moved)
  BY <1>4, <1>6 DEF Distinct
<1>8. Distinct(front)
  BY <1>1, <1>2, <1>5 DEF Distinct
<1> QED
  BY <1>2, <1>4, <1>7, <1>8 DEF n, front, rest, moved

\* epoll's list never gets a descriptor it has.
LEMMA LinkDistinct ==
    ASSUME NEW c \in Channel, readyList \in Seq(Channel), Distinct(readyList),
           readyList' = Link(c, readyList)
    PROVE  readyList' \in Seq(Channel) /\ Distinct(readyList')
<1> DEFINE n == Len(readyList)
<1>1. CASE readyList' = readyList
  BY <1>1
<1>2. CASE readyList' # readyList
  <2>1. readyList' = Append(readyList, c) /\ \A i \in 1..n : readyList[i] # c
    BY <1>2 DEF Link, Contains
  <2>2. /\ readyList' \in Seq(Channel) /\ Len(readyList') = n + 1 /\ n \in Nat
        /\ \A i \in 1..n : readyList'[i] = readyList[i]
        /\ readyList'[n + 1] = c
    BY <2>1, AppendProperties, LenProperties
  <2>3. ASSUME NEW i \in 1..(n + 1), NEW j \in 1..(n + 1), readyList'[i] = readyList'[j]
        PROVE  i = j
    <3>1. CASE i \in 1..n /\ j \in 1..n
      BY <2>2, <2>3, <3>1 DEF Distinct
    <3>2. CASE i = n + 1 \/ j = n + 1
      BY <2>1, <2>2, <2>3, <3>2
    <3> QED
      BY <2>2, <3>1, <3>2
  <2> QED
    BY <2>2, <2>3 DEF Distinct
<1> QED
  BY <1>1, <1>2

-----------------------------------------------------------------------------
(* The steps.                                                              *)

\* The constructor's state.
LEMMA InitIInv == Init => IInv
<1> SUFFICES ASSUME Init PROVE IInv
  OBVIOUS
<1>1. Len(readyList) = 0 /\ readyList \in Seq(Channel) /\ actived \in Seq(Channel)
  BY EmptySeq DEF Init
<1>2. size \in 0..InitialSize
  BY SizeAssumption DEF Init
<1>3. TypeOK
  BY <1>1, <1>2 DEF Init, TypeOK
<1>4. Distinct(readyList)
  BY <1>1 DEF Distinct
<1> QED
  BY <1>3, <1>4 DEF Init, IInv, Consistent, IndexFollows

\* A descriptor epoll reports belongs to a registered channel.
LEMMA TriggeredIsActive ==
    ASSUME IInv, NEW c \in Channel, Triggered(c)
    PROVE  c \in fd_channels /\ events[c] \cap ready[c] # {}
<1>1. /\ ready[c] \subseteq Event
      /\ epoll[c] = IF c \in fd_channels THEN events[c] ELSE {"absent"}
  BY DEF IInv, Consistent, TypeOK, Absent
<1> QED
  BY <1>1, EventAssumption DEF Triggered

\* What a poll hands to the loop: some channels, registered and ready for
\* something they want, no one twice.
LEMMA PollReports ==
    ASSUME IInv, PollUntil
    PROVE  /\ aborted' = FALSE
           /\ actived' \in Seq(fd_channels) /\ actived' # <<>>
           /\ Distinct(actived')
           /\ \A j \in 1..Len(actived') : events[actived'[j]] \cap ready[actived'[j]] # {}
           /\ size' \in 0..InitialSize
           /\ readyList' \in Seq(Channel) /\ Distinct(readyList')
<1> DEFINE S == {i \in DOMAIN readyList : Triggered(readyList[i])}
<1>1. readyList \in Seq(Channel) /\ Distinct(readyList) /\ size \in Nat /\ size <= InitialSize
  BY SizeAssumption DEF IInv, Consistent, TypeOK
<1>2. PICK t \in Kept(readyList, S) :
         LET num == LoopMin(Len(t), size)
             reported == SubSeq(t, 1, num)
         IN  /\ num > 0
             /\ actived' = reported
             /\ aborted' = \E i \in DOMAIN reported : reported[i] \notin fd_channels
             /\ size' = Resize(num)
             /\ readyList' = SubSeq(t, num + 1, Len(t)) \o reported
  BY DEF PollUntil
<1>3. S \in SUBSET (1..Len(readyList))
  BY <1>1
<1>4. /\ t \in Seq(Channel) /\ Distinct(t)
      /\ \A j \in 1..Len(t) : \E i \in S : t[j] = readyList[i]
  BY <1>1, <1>3, KeptDistinct
<1>5. ASSUME NEW j \in 1..Len(t)
      PROVE  t[j] \in fd_channels /\ events[t[j]] \cap ready[t[j]] # {}
  <2>1. PICK i \in S : t[j] = readyList[i]
    BY <1>4
  <2>2. t[j] \in Channel /\ Triggered(t[j])
    BY <1>4, <2>1, ElementOfSeq
  <2> QED
    BY <2>2, TriggeredIsActive
<1> DEFINE num == LoopMin(Len(t), size)
           reported == SubSeq(t, 1, num)
<1>6. num \in Nat /\ num # 0 /\ num \in 0..Len(t) /\ num <= size
  BY <1>1, <1>2, <1>4, LenProperties DEF LoopMin
<1>7. /\ reported \in Seq(Channel) /\ Distinct(reported) /\ Len(reported) = num
      /\ \A i \in 1..num : reported[i] = t[i]
      /\ readyList' \in Seq(Channel) /\ Distinct(readyList')
  BY <1>2, <1>4, <1>6, RotatedDistinct
<1>8. actived' = reported /\ size' = Resize(num)
      /\ aborted' = \E i \in DOMAIN reported : reported[i] \notin fd_channels
  BY <1>2
<1>9. size' \in 0..InitialSize
  BY <1>1, <1>6, <1>8, SizeAssumption DEF Resize
<1> HIDE DEF num, reported
<1>10. \A i \in 1..num : reported[i] \in fd_channels
                         /\ events[reported[i]] \cap ready[reported[i]] # {}
  BY <1>5, <1>6, <1>7
<1>11. DOMAIN reported = 1..num /\ reported # <<>>
  BY <1>6, <1>7
<1>12. reported \in Seq(fd_channels)
  BY <1>7, <1>10
<1>13. aborted' = FALSE
  BY <1>8, <1>10, <1>11
<1> QED
  BY <1>7, <1>8, <1>9, <1>10, <1>11, <1>12, <1>13

\* epoll_ctl() and the map change together, whichever branch is taken.
LEMMA UpdateStep ==
    ASSUME IInv, NEW c \in Channel, NEW evs \in SUBSET Event, UpdateChannel(c, evs)
    PROVE  IInv' /\ fd_channels' = fd_channels \cup {c}
<1>1. /\ events' = [events EXCEPT ![c] = evs]
      /\ epoll' = [epoll EXCEPT ![c] = evs]
      /\ UNCHANGED <<ready, size, actived>>
      /\ readyList' = Link(c, readyList)
  BY DEF UpdateChannel, EPollUpdate
<1>2. /\ aborted' = FALSE
      /\ index' = [index EXCEPT ![c] = 1]
      /\ fd_channels' = fd_channels \cup {c}
  <2>1. index \in [Channel -> {-1, 1}]
    BY DEF IInv, Consistent, TypeOK
  <2>2. CASE index[c] < 0
    <3>1. c \notin fd_channels
      BY <2>1, <2>2 DEF IInv, IndexFollows
    <3>2. aborted' = (c \in fd_channels)
      BY <2>2 DEF UpdateChannel
    <3>3. index' = [index EXCEPT ![c] = 1] /\ fd_channels' = fd_channels \cup {c}
      BY <2>2 DEF UpdateChannel
    <3>4. aborted' = FALSE
      <4>1. (c \in fd_channels) = FALSE
        BY <3>1
      <4> QED
        BY <3>2, <4>1
    <3> QED
      BY <3>3, <3>4
  <2>3. CASE ~(index[c] < 0)
    <3>1. index[c] = 1 /\ c \in fd_channels
      BY <2>1, <2>3 DEF IInv, IndexFollows
    <3>2. aborted' = FALSE /\ UNCHANGED <<index, fd_channels>>
      BY <2>3, <3>1 DEF UpdateChannel
    <3> QED
      BY <2>1, <3>1, <3>2
  <2> QED
    BY <2>2, <2>3
<1>3. readyList' \in Seq(Channel) /\ Distinct(readyList')
  BY <1>1, LinkDistinct DEF IInv, Consistent, TypeOK
<1>4. TypeOK'
  BY <1>1, <1>2, <1>3 DEF IInv, Consistent, TypeOK
<1>5. \A d \in Channel : epoll'[d] = IF d \in fd_channels' THEN events'[d] ELSE Absent
  BY <1>1, <1>2 DEF IInv, Consistent, TypeOK
<1>6. IndexFollows'
  BY <1>2 DEF IInv, Consistent, TypeOK, IndexFollows
<1> QED
  BY <1>2, <1>3, <1>4, <1>5, <1>6 DEF IInv, Consistent, Absent

\* So do they when a channel is removed.
LEMMA RemoveStep ==
    ASSUME IInv, NEW c \in Channel, RemoveChannel(c)
    PROVE  IInv'
<1>1. /\ epoll' = [epoll EXCEPT ![c] = Absent]
      /\ index' = [index EXCEPT ![c] = -1]
      /\ fd_channels' = fd_channels \ {c}
      /\ UNCHANGED <<events, size, actived, ready>>
  BY DEF RemoveChannel, Forget
<1>2. aborted' = FALSE
  BY DEF RemoveChannel, IInv, IndexFollows
<1>3. readyList' \in Seq(Channel) /\ Distinct(readyList')
  <2>1. readyList \in Seq(Channel) /\ Distinct(readyList)
    BY DEF IInv, Consistent, TypeOK
  <2>2. {i \in DOMAIN readyList : readyList[i] # c} \in SUBSET (1..Len(readyList))
    BY <2>1
  <2>3. readyList' \in Kept(readyList, {i \in DOMAIN readyList : readyList[i] # c})
    BY DEF RemoveChannel, Unlink
  <2> QED
    BY <2>1, <2>2, <2>3, KeptDistinct
<1>4. TypeOK'
  BY <1>1, <1>2, <1>3 DEF IInv, Consistent, TypeOK
<1>5. \A d \in Channel : epoll'[d] = IF d \in fd_channels' THEN events'[d] ELSE Absent
  BY <1>1 DEF IInv, Consistent, TypeOK
<1>6. IndexFollows'
  BY <1>1 DEF IInv, Consistent, TypeOK, IndexFollows
<1> QED
  BY <1>2, <1>3, <1>4, <1>5, <1>6 DEF IInv, Consistent, Absent

\* The steps of the loop and of the environment leave the channels alone.
LEMMA LoopStep ==
    ASSUME IInv, \/ PollUntil \/ Handle
                 \/ \E c \in Channel : BecomesReady(c)
                 \/ UNCHANGED vars
    PROVE  IInv'
<1>0. /\ actived \in Seq(Channel) /\ aborted = FALSE /\ size \in 0..InitialSize
      /\ ready \in [Channel -> SUBSET Event] /\ fd_channels \subseteq Channel
      /\ readyList \in Seq(Channel) /\ Distinct(readyList)
  BY DEF IInv, Consistent, TypeOK
<1>1. UNCHANGED <<events, index, fd_channels, epoll>>
  BY DEF PollUntil, Handle, BecomesReady, vars, channelVars, kernelVars
<1> DEFINE Rest == /\ actived' \in Seq(Channel) /\ aborted' = FALSE
                   /\ size' \in 0..InitialSize /\ ready' \in [Channel -> SUBSET Event]
                   /\ readyList' \in Seq(Channel) /\ Distinct(readyList')
<1>2. Rest
  <2>1. CASE PollUntil
    <3>1. actived' \in Seq(fd_channels) /\ UNCHANGED ready
      BY <2>1, PollReports DEF PollUntil
    <3> QED
      BY <1>0, <2>1, <3>1, PollReports
  <2>2. CASE Handle
    <3>1. Head(actived) \in Channel /\ Tail(actived) \in Seq(Channel)
      BY <1>0, <2>2, HeadTailProperties DEF Handle
    <3>2. PICK left \in SUBSET ready[Head(actived)] :
             ready' = [ready EXCEPT ![Head(actived)] = left]
      BY <2>2 DEF Handle
    <3> QED
      BY <1>0, <2>2, <3>1, <3>2 DEF Handle
  <2>3. ASSUME NEW c \in Channel, BecomesReady(c) PROVE Rest
    <3>1. readyList' = Link(c, readyList) /\ UNCHANGED <<actived, aborted, size>>
      BY <2>3 DEF BecomesReady
    <3>2. ready' \in [Channel -> SUBSET Event]
      BY <1>0, <2>3 DEF BecomesReady
    <3> QED
      BY <1>0, <3>1, <3>2, LinkDistinct
  <2>4. CASE UNCHANGED vars
    BY <1>0, <2>4 DEF vars, channelVars, kernelVars
  <2> HIDE DEF Rest
  <2> QED
    BY <2>1, <2>2, <2>3, <2>4
<1>3. TypeOK'
  BY <1>1, <1>2 DEF IInv, Consistent, TypeOK
<1> QED
  BY <1>1, <1>2, <1>3 DEF IInv, Consistent, IndexFollows

\* Every step keeps the invariant.
LEMMA NextIInv == ASSUME IInv, [Next]_vars PROVE IInv'
<1>1. ASSUME NEW c \in Channel, NEW evs \in SUBSET Event, UpdateChannel(c, evs) PROVE IInv'
  BY <1>1, UpdateStep
<1>2. ASSUME NEW c \in Channel, RemoveChannel(c) PROVE IInv'
  BY <1>2, RemoveStep
<1>3. CASE \/ PollUntil \/ Handle \/ \E c \in Channel : BecomesReady(c)
           \/ UNCHANGED vars
  BY <1>3, LoopStep
<1> QED
  BY <1>1, <1>2, <1>3 DEF Next

\* The asserts of UpdateChannel(), RemoveChannel() and FillActivedChannels()
\* hold and epoll watches what the channels want, for any number of channels.
THEOREM Consistency == Spec => []Consistent
<1>1. IInv => Consistent
  BY DEF IInv
<1>2. IInv /\ [Next]_vars => IInv'
  BY NextIInv
<1> QED
  BY InitIInv, <1>1, <1>2, PTL DEF Spec

-----------------------------------------------------------------------------
(* Refinement.                                                             *)

\* A step of EPoller is a step of Poller or changes nothing Poller sees.
LEMMA PollerStep ==
    ASSUME IInv, [Next]_vars PROVE [Promise!Next]_(Promise!vars)
<1>1. ASSUME NEW c \in Channel, NEW evs \in SUBSET Event, UpdateChannel(c, evs)
      PROVE  Promise!UpdateChannel(c)
  BY <1>1, UpdateStep DEF UpdateChannel, Promise!UpdateChannel
<1>2. ASSUME NEW c \in Channel, RemoveChannel(c) PROVE Promise!RemoveChannel(c)
  BY <1>2 DEF RemoveChannel, Forget, Promise!RemoveChannel
<1>3. ASSUME NEW c \in Channel, BecomesReady(c) PROVE Promise!BecomesReady(c)
  BY <1>3 DEF BecomesReady, Promise!BecomesReady, channelVars
<1>4. ASSUME PollUntil PROVE Promise!PollUntil
  <2>1. /\ actived' \in Seq(fd_channels) /\ actived' # <<>> /\ Distinct(actived')
        /\ \A j \in 1..Len(actived') : events[actived'[j]] \cap ready[actived'[j]] # {}
    BY <1>4, PollReports
  <2>2. DOMAIN actived' = 1..Len(actived')
        /\ \A j \in 1..Len(actived') : actived'[j] \in fd_channels
    BY <2>1, LenProperties, ElementOfSeq
  <2> QED
    BY <1>4, <2>1, <2>2
       DEF PollUntil, Promise!PollUntil, Promise!Active, Distinct, channelVars
<1>5. ASSUME Handle PROVE Promise!Handle
  BY <1>5 DEF Handle, Promise!Handle, channelVars
<1>6. CASE UNCHANGED vars
  BY <1>6 DEF vars, Promise!vars, channelVars, kernelVars
<1> QED
  BY <1>1, <1>2, <1>3, <1>4, <1>5, <1>6 DEF Next, Promise!Next

\* EPoller keeps what Poller promises the loop, for any channels, events and
\* size of its array: it reports registered channels that are ready for what
\* they want, each once.
THEOREM Refinement == Spec => ImplementsPoller
<1>1. Init => Promise!Init
  BY DEF Init, Promise!Init
<1>2. IInv /\ [Next]_vars => IInv'
  BY NextIInv
<1>3. IInv /\ [Next]_vars => [Promise!Next]_(Promise!vars)
  BY PollerStep
<1> QED
  BY InitIInv, <1>1, <1>2, <1>3, PTL DEF Spec, ImplementsPoller, Promise!Spec
=============================================================================
