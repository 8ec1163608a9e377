# A TLA+ model of anoii

anoii is a C++17 network library in the reactor style: one `EventLoop` per
thread waits in `poll()` or `epoll_wait()`, dispatches readiness to `Channel`s,
runs timers, and runs functors that other threads have queued. TCP and UDP
classes and a small HTTP server are built on top. This directory holds a model
of the library and of the HTTP server, TLC configurations that check it on small
instances and TLAPS proofs about ten of its components.

Paths below are relative to the repository root; line numbers are those of the
modelled commit.

## 1. Inventory

| Component | State | Operations | Hard parts |
|---|---|---|---|
| `EventLoop` (`src/event_loop.cc`) | two functor vectors, `done_`, `calling_pedding_functors_`, the eventfd | `Loop`, `RunInLoop`, `QueueInLoop`, `Quit`, `WakeUp` | other threads queue and quit while the loop falls asleep; functors queue functors |
| `TimerQueue` (`src/timer_queue.cc`) | `timers_`, `in_use_`, `expired_`, `next_timer_id_` | `AddTimer`, `Cancel`, `SleepTime`, `DoExpired` | callbacks add and cancel while `DoExpired` iterates; `AddTimer` from other threads; widths |
| `Channel` (`src/channel.cc`) | `events_`, `index_in_poller_`, callbacks | `Enable*/Disable*`, `Handle`, `Reset` | several callbacks per event, removed between two of them |
| `EPoller` (`src/epoller.cc`) | `fd_channels_`, the event array, epoll's own state | `UpdateChannel`, `RemoveChannel`, `PollUntil` | three copies of the interest; an array that only shrinks |
| `UPoll` (`src/unix_poll.cc`) | `fd_channels_`, the `pollfd` array | the same | removal by swapping; ignored entries encoded in the sign of fd |
| `TcpConnection` (`src/tcp_connection.cc`) | `state_`, output buffer, channel | `Send`, `Shutdown`, read, write, close and error handlers, `DestroyConnection` | half shutdown with output waiting, close and write in one event, object lifetime |
| `TcpServer`, `TcpClient` | the owning pointers | `NewConnection`, `RemoveConnection`, `HandleClose`, destructors | who destroys a connection, and when |
| `Connector` (`src/connector.cc`) | socket, channel, retry timer, `state_` | `Start`, `Stop`, `ConnectOnce`, `Retry`, handlers | the timer, the functor that resets the channel and the channel's own event meet in one pass |
| `Poller` (`src/include/poller.h`, `src/poller.cc`) | - | the interface of the two pollers | what a poll may report while callbacks change registrations |
| `Acceptor` (`src/acceptor.cc`) | listening socket, `idle_fd_`, the poller's map | `AcceptHandler`, destructor | the descriptor limit: the spare descriptor is closed, used and opened again; numbers are reused |
| `UdpPeer` (`src/udp_peer.cc`) | a buffer that may grow, whether the socket is bound | `OnMessage`, `SendTo` | a datagram is looked at with one call and taken with another; sizes at the limit |
| `Buffer` (`src/buffer.cc`) | a vector with `head_`, `tail_` | append, pop, prepend, reserve, shrink, `ReadFd` | index arithmetic, growing against moving |
| `contrib/http` parser | `state_`, `type_`, `router_`, fields | `Process`, `ParseTarget` | requests cut anywhere by TCP, bodies, malformed input |
| `contrib/http` server | request and response of a connection | `ReadCb`, `WriteCb` | a file pumped through `write_cb_` while the next request arrives |
| `RingBuffer` | - | - | not built and not used |

How they interact: everything a class does happens in one of the four stages of
a pass of `EventLoop::Loop()` -- poll, channel callbacks, timers, functors -- on
the loop thread. Other threads enter only through `QueueInLoop` (behind
`RunInLoop`, `AddTimer`, `Send`, `Shutdown`, `Stop`) and `Quit`. Classes postpone
work to the functor stage when it must not happen inside a callback
(`DestroyConnection`, `Channel::Reset`, `write_cb_`). Nothing is persistent, so
there is no crash recovery.

What makes each part correct: the loop never sleeps on work and never loses or
repeats a functor; timers are owned once, fire when due and not after an accepted
cancellation; the pollers watch exactly what channels want; a connection sends
what it accepted, then FIN, closes once and leaves nothing behind that points to
it, and what it cannot send is lost for a known reason; a connector releases each attempt before the next and everything when it is
stopped; an acceptor answers every client also without descriptors left and keeps its
spare one; a UDP peer hands over whole datagrams in order; a buffer is a queue of
bytes; the HTTP server handles each request once, in order, however it is cut, and
sends responses whole. `PROJECT.json` lists the hazards at their lines.

## 2. Modules

| Module | Models | State and actions |
|---|---|---|
| `FunctorExecutor` | what `EventLoop` promises about functors | how many were submitted, which were executed; `Submit`, `Execute`, `Close` |
| `EventLoop` | `event_loop.cc` | the vectors, flags and eventfd; `QueueInLoop(t)`, `WakeUp(t)`, `Quit(t)` of any thread, and `Loop()` cut where another thread can get in between |
| `TimerQueue` | `timer_queue.cc` and the parts of the loop that concern timers | objects, ids and entries; `AddTimerLoad`/`AddTimerStore`, `CancelTimer`, `DoExpired` split per callback, a clock |
| `Poller` | what `poller.h` promises the loop | interest, registrations, readiness and the channels a poll found; `UpdateChannel`, `RemoveChannel`, `PollUntil`, `Handle` |
| `EPoller` | `epoller.cc` on a model of level-triggered epoll | map, index, array size and epoll's ready list |
| `UPoll` | `unix_poll.cc` | the `pollfd` array, indexes, map |
| `TcpConnection` | `tcp_connection.cc` with its owner and its channel | `state_`, `events_`, unit counts of the data, the callbacks left in this pass, queued functors, the peer |
| `OutStream` | what `TcpConnection` is to those who send on it | units accepted, written and lost, whether `shutdown()` or `close()` has ended it; `Send`, `Write`, `Shutdown`, `Close`, `Abandon`, `Destroy` |
| `Connector` | `connector.cc` with its channel and timer | `fd_`, `timer_id_`, channel fields, callbacks left, queued functors, open sockets; which descriptors the timer overwrote |
| `ByteQueue` | what a buffer is to its user | a sequence of bytes, and whether it still is one; append, pop, prepend, `Break` |
| `Buffer` | `buffer.cc` | the vector and its two indexes; one action per method, built from operators on the record as the methods call one another |
| `Acceptor` | `acceptor.cc` with `TcpServer` | the process's table of descriptors and the poller's map; `AcceptHandler` cut at its system calls, connections that close, a server that is destroyed and started again on the same or another loop, other threads that open descriptors |
| `UdpPeer` | `udp_peer.cc` on the socket's queue | buffer size, both modes of `OnMessage` cut at its system calls, `SendTo`, the destructor |
| `HttpRequest` | `http_request.cc`, searches of `Buffer` | operators: one turn of the loop of `Process` per parse state, and `Process` |
| `HttpServer` | `http_server.cc`, `http_response.cc` on one connection | the client's script and how much of it was read, request, response, output waiting, queued `write_cb_` functors |
| `Subsequences` | nothing of the code: the elements of a sequence at some of its places, without recursion | `InOrder`, `Kept` |
| `EventLoopProofs`, `TimerQueueProofs`, `EPollerProofs`, `UPollProofs`, `TcpConnectionProofs`, `ConnectorProofs` | the theorems about the module they are named after (section 4) | the inductive invariants |
| `SocketProofs`, `HttpProofs` | the theorems about `Acceptor` and `UdpPeer`, about `Buffer` and `HttpServer` | the inductive invariants |

The modules `MC*` extend them for TLC. Each module abstracts the parts another
module covers: `EventLoop` reduces a callback to "user code runs on the loop
thread", `TimerQueue` assumes the wakeup that `EventLoop` establishes (`PollWoken`),
`TcpConnection` and `Connector` use the pass structure of `EventLoop` and reduce
the poller to "registered or not" with its asserts. `Connector`'s fairness is what
`TimerQueue` checks as `TimersFire`.

Correspondence worth knowing:

* A functor is a *ticket*, its number in the order of the pushes. `RunInLoop` on the
  loop thread is a call and no action of its own. `QueueInLoop(t)` is the critical
  section; the write to the eventfd is a later step, `WakeUp(t)`, and a thread that
  still has to write is in `owes`. The eventfd is a flag because a read takes the
  whole counter.
* A callback is open-ended: `inCallback` stays true while the loop thread makes calls
  of its own.
* `++next_timer_id_` is a load and a store, because `AddTimer()` is called by any
  thread without a lock.
* The pollers go through their arrays in order; what they report, what is left of
  epoll's list, and which datagrams `UdpPeer` has to hand over, is `Kept(s, places)`: the elements at the places that pass the test, in
  the order of the array. It is defined by the increasing enumeration of the places and
  not by `SelectSeq`, which is recursive and closed to the prover. For the same reason
  `Revents` in `TcpConnection` is the concatenation of one `When` per callback.
* A failed assert sets a flag (`aborted`, `ended`, or a phase) and ends the behaviour.
* Where the code keeps a promise only up to some event, the event happens in the model, a
  *history variable* remembers it, and the property names it: `late`, `overwritten` and
  `early` in `Connector`, `destroyed` in `TcpConnection`, `idled` in `UPoll`, `disturbed`
  and `left` in `Acceptor`, `unsent` in `UdpPeer`, `ended` in `Buffer`. Section 3 lists
  these events. The variables are written and never read by the actions, with the
  exception of those that end the behaviour.
* In `TcpConnection` data is counted. `Freed` says when the last `shared_ptr` is gone:
  not in the owner's map, not bound to a queued functor, not held by a running
  callback. Its destructor closes the descriptor, which sends FIN too, so `Ended` is
  "shut down or freed". `Lost` counts the units that were accepted and will never be
  written: those a write error dropped and, once no `HandleWrite()` can follow, all that
  waits. `todo` holds the callbacks the loop still has to make in this pass, those of
  `Channel::Handle()` in its order (read, write, error, close) and one of another
  channel before or behind them, which may destroy the owner of the connection.
* In `TcpConnection` the variable `owner` says whether a `TcpServer` or a `TcpClient`
  holds the connection; it is chosen at the start and never changes.
* In `Acceptor` the kernel hands out the lowest free descriptor, as POSIX says, and
  closing a descriptor somebody else holds ends the model in the phase `"stray"`.
* A datagram of `UdpPeer` is its length; a cut one is recognised, as in the code, by
  filling the buffer, which is one byte longer than what it is meant to hold.
* In `Buffer` the vector may get any capacity from the requested one up to the bound
  (the code uses `capacity()` after `reserve()`), and `Prepend()` that copies outside the vector
  ends the model with `ended = "Prepend"`.
* The HTTP parser works on tokens of length one (words, `SP`, `:`, `CR`, `LF`, ...), so
  that a read may end anywhere, between CR and LF too. `wild` records a step that is
  undefined or throws. `Process` is a recursive function and not a `RECURSIVE`
  operator.
* What a client of `HttpServer` sends is a *script*: its tokens, where in them each
  request ends and what is to become of it (a handler's route and method, or a
  refusal). The outcomes are written down beside the tokens by hand, so that
  `HandledAsSent` compares the parser with something that is not the parser.
* In `OutStream` only the order of units matters and units are counted, so "the first
  `written` of the units accepted" is what has reached the kernel.
* In `Connector` a socket is the number of its attempt. `errno` values are grouped as
  the `switch` groups them: under way, temporary, fatal.

Operators introduced as a *mutant* are wrong versions of the operator after them;
they are not used by any specification.

## 3. Runs

The longest run takes a minute and a half on two workers. `CHECK_DEADLOCK FALSE` everywhere: a loop with
nothing to do, a closed connection and a stopped connector really do stop.

| Run | Bounds | Shows |
|---|---|---|
| `event_loop` | loop thread + 2 others, 3 functors | `TypeOK`, `NoLostWakeup`, `QuitNotLost`, `BatchIsFixed`, the refinement of `FunctorExecutor`, `FunctorsRun`, `QuitStops` |
| `timers` | loop thread + 1 other that take turns in `AddTimer` (`Serialised`), 3 timers, clock to 2 | `OwnedOnce` (with the asserts), `CallsAreDue`, `TimersFire`, `CancelledAreFreed` |
| `epoller` | 3 channels, array of 3 | `Consistent`, `NoStarvation`, the refinement of `Poller` |
| `upoll` | 3 channels, read and write, of which one at a time has been disabled (`FewIdled`) | `IndexesAgree` (with the asserts), `WantedIsWatched`, the refinement of `Poller` |
| `tcp_conn` | both owners, either destroyed by any callback; send buffer 2, sends of 1-3, 5 units, watermark 3 | `OutputIffWriting`, `FinAfterData`, `ClosedOnce`, `ServerReleases`, the refinement of `OutStream`, `WriteCompletes`, `ShutdownCompletes`, `PeerGoneIsClosed` |
| `connector` | 6 attempts | `AssertsHold`, `NoLeak`, `StopReleases`, `ConnectsOnce`, `KeepsTrying` |
| `buffer` | a vector of 3 to 9 bytes, one of them kept in front | `WellFormed`, the refinement of `ByteQueue` |
| `acceptor` | 5 descriptors, 4 clients, 2 descriptors held by others; servers restarted on the same or another loop | `IdleIsReserved`, `MapFollowsDescriptors`, `ClientsAreAnswered` |
| `udp` | datagrams of 0, 1, 2, 3 and 7 bytes, 7 the longest, 4 of them | `WholeInOrder`, `DatagramsAreTaken` |
| `http` | 13 scripts of 1 to 3 requests, cut into reads in every way; chunks of 2 | `HandledAsSent`, `ResponsesAreWhole`, `RequestsAnswered` |

Why these bounds are enough: three functors are one in the batch, one queued
during it and one in between; two remote threads can both be between push and
wakeup. Three timers are the one whose callback runs, one it cancels in the same
pass and one it adds. Three channels are the one removed, the one moved and a
bystander. A send larger than the socket's buffer, one that fits and a total that
needs two drains are all reachable with 5 units. Only `upoll` uses symmetry, between
reading and writing, which `UPoll` does not tell apart: it has safety properties only,
and symmetry is unsound for the liveness properties of the other runs. One channel that
was disabled beside two that were not is what `FewIdled` keeps, enough for such an entry
to be moved and to be the one a removal leaves behind. Six attempts take `retry_ms_` to
its cap of 30000 and let an attempt overwrite another several times. Of five descriptors the server holds two, so that three
connections, or one and two of other threads, fill the table, and the fourth client
is refused. The buffer of a growing `UdpPeer` starts with 3 bytes and needs all
its steps, the capped one included, for a datagram of 7; a fixed one of 2 gets
datagrams that fit, just do not and far do not. Up to 9 bytes a vector of 3 can
grow, be filled, moved and shrunk again. Files of 2 and 3 units with
chunks of 2 end with an empty and with a partial chunk; two chunks are enough for two
`write_cb_` functors of one response, or of two responses, to be queued together.

Fairness. The loop thread keeps taking its steps inside `Loop()` and callbacks
return; a thread that decided to write the eventfd does so; time passes; a
connected peer that has not reset the connection reads. Nobody is obliged to call
anything, and neither timeouts nor I/O are assumed where a property must hold
without them. In `Connector` the time of an armed timer comes (strong fairness,
because it can be armed and not due in many passes). Strong fairness also stands for
system calls that may fail or do part of their work at any time but not every time:
`accept()` in `Acceptor`, `recvfrom()` in `UdpPeer`, the write of a writable socket in
`HttpServer`. `Poller`, `OutStream`, `Buffer` and `ByteQueue` are safety
specifications.

### Disagreements found

These runs are expected to be violated; `PROJECT.json` quotes the line each
contradicts.

| Run | What the code does |
|---|---|
| `tcp_client_dangling` | end of file and writability in one event re-register a closed client connection; its replacement leaves a dangling channel |
| `http_keep_alive` | the body of a request is never taken from the buffer; the next request on the connection starts with it and is refused |

Further disagreements need no run of their own, because they happen in the passing
runs. There the property states what the code does keep and names the event after which
it keeps less:

| Run, property | Event | What the code does, and what it says |
|---|---|---|
| `tcp_conn`, `FinAfterData`, `ImplementsStream` | the peer shuts down its side while output waits | `HandleClose()` drops the output without a reset; the FIXME at l. 132-133 admits it |
| `tcp_conn`, `ImplementsStream` | the object is destroyed | `close()` (l. 66) ends the stream wherever it is; what waits is lost |
| `tcp_conn`, `ServerReleases` | `destroyed = "busy"`: a callback destroys the server ahead of a callback of the connection in the same pass, or while it is half shut down | the loop calls a `Channel` that is gone (event_loop.cc, l. 49); `DestroyConnection()` does not disable a half shut down channel (l. 118), so an assert fails, against tcp_server.h, l. 44-50 |
| `upoll`, `WantedIsWatched` | `idled`: a channel is disabled and enabled without a removal | `poll()` ignores it for good (unix_poll.cc, l. 83-86) |
| `connector`, `NoLeak` | `overwritten`: the retry timer makes an attempt while one is undecided | `fd_` is overwritten and its descriptor never closed; l. 30 says that all is released before a retry |
| `connector`, `AssertsHold` | the same, or `early`: the timer comes between a failure and the functor that resets the channel | `Reset()` or the poller finds a channel in the wrong state |
| `connector`, `StopReleases` | `late`: `Stop()` between poll and the callback of a ready socket | `HandleWrite()` takes `fd_ = -1` for a failed attempt and starts a timer; l. 107-108 speak of any moment |
| `buffer`, `WellFormed` | `Shrink()` after a header took the space in front | the assert of `MoveTo()` fails (l. 57) |
| `buffer`, `ImplementsByteQueue`, `WellFormed` | `Prepend()` that leaves some of the space in front | the header is written to `data() - head_` (l. 70), outside the vector |
| `acceptor`, `IdleIsReserved`, `ClientsAreAnswered` | `disturbed`: while the spare descriptor is given up another thread opens one, or `accept()` fails | `idle_fd_` names somebody else's descriptor or none; the first is the FIXME of l. 62 |
| `acceptor`, `MapFollowsDescriptors` | `left`: an `Acceptor` was destroyed | its channel stays in the poller's map; a server on the same loop that gets the number fails an assert |
| `udp`, `DatagramsAreTaken` | an empty datagram is first in the queue of a growing peer | it is looked at, never taken, and blocks the others; udp_peer.h, l. 18, says that every datagram must be received |
| `udp`, `WholeInOrder` | `unsent`: the first `sendto()` fails | the kernel has bound the socket, the peer takes itself for unbound and ends the program |

What remains outside the passing runs is separated from them by a constant. Each line is
one change away, and the property named then fails:

| Change | Fails | What the code does |
|---|---|---|
| `timers` with `Serialised = FALSE`, `MaxTimers = 2` | `OwnedOnce` | two threads in `AddTimer()` can obtain the same id; the second insertion fails its assert |
| `timers` with `IntModulus = 8`, `Starts = {1, 5}`, `MaxTimers = 2`, `MaxTime = 6` | `TimersFire` | a delay that does not fit in `int` becomes a negative timeout, that is none (a 3-bit `int`; with `IntModulus = 16` the same instance passes) |
| `upoll` with `Channel = {0, 4}` | `IndexesAgree` | with descriptor 0 in the last entry a removal fails its assert |
| `tcp_conn` with `BacklogIsLimited` added | `BacklogIsLimited` | the watermark is not looked at while the channel is writing |
| `tcp_conn` with `NoDanglingChannel` added | `NoDanglingChannel` | for a client, the disagreement above |
| `http` with `Pipelining = TRUE` | `ResponsesAreWhole`, `RequestsAnswered` | a second request in one read waits for the next event, one in the next read replaces a response being sent |
| `http` with a request line of method, space and word only | `HandledAsSent` | the missing second space is found as -1 and used as a length |
| `http` with an empty field value | `HandledAsSent` | `strip()` of an empty value |
| `http` with a `content-length` that is no number | `HandledAsSent` | `std::stoi()` throws |
| `http` with `transfer-encoding`, or a CRLF in front of a request | `RequestsAnswered` | the parser waits for ever |
| `http` with a route of kind `"unreadable"` | `RequestsAnswered` | the header has the length of the file, the body is an error text |

So the passing runs assume this of the use of the library, and no more: threads do not
overlap in `AddTimer()` (`Serialised`), delays fit in `int` (`IntModulus`), descriptor 0
is in use elsewhere (`Channel`), and an HTTP client sends requests the parser can take,
one at a time (`Scripts`, `Routes`, `Pipelining`).

The model of `Connector` ends with its destructor. One that runs during an attempt leaves
a `Channel::Reset()` in the queue of the loop that is bound to a member of the destroyed
object (l. 191); what it then does is undefined and no property is about it.

## 4. Proofs

Eight modules hold the theorems. Each says of every value of the constants what a run
says of one, from the assumptions named in the module that declares the constants
(bounds are natural numbers, the loop thread is not one of the others, and so on)
and, where the theorem has one, a condition. The conditions are those of the
passing runs, at the end of section 3. The events that the properties name themselves are
part of the theorems, which hold whatever the timing and the order of calls.

`SocketProofs` and `HttpProofs` extend two components each, which do not meet. Hence
`UdpPeer` and `Buffer` do not call their specifications `Init`, `Next` and `Spec` but
`UdpInit`, `BufferInit` and so on.

| Module | Theorem | States | Condition |
|---|---|---|---|
| `EventLoopProofs` | `TypeCorrect`, `NoWakeupIsLost`, `NoQuitIsLost`, `BatchesAreFixed` | `TypeOK`, `NoLostWakeup`, `QuitNotLost`, `BatchIsFixed` | - |
| | `Refinement` | `Spec => Executor!Spec` | - |
| `TimerQueueProofs` | `Ownership` | `OwnedOnce` | `Serialised` |
| | `Punctuality` | `CallsAreDue`, an action property | `Serialised` |
| `EPollerProofs` | `Consistency` | `Consistent` | - |
| | `Refinement` | `Spec => Promise!Spec`, the promise of `Poller` | - |
| `UPollProofs` | `Agreement` | `IndexesAgree` | `0 \notin Channel` |
| | `Watching` | `WantedIsWatched` | `0 \notin Channel` |
| | `Refinement` | `Spec => Promise!Spec` | `0 \notin Channel` |
| `TcpConnectionProofs` | `Writing`, `FinIsLast`, `ClosesOnce` | `OutputIffWriting`, `FinAfterData`, `ClosedOnce`, for servers and clients | - |
| | `Releases` | `ServerReleases` | - |
| | `Streaming` | `Spec => Stream!Spec`, the stream of `OutStream` | - |
| `ConnectorProofs` | `Asserts`, `Leaks`, `Releases`, `Connects` | `AssertsHold`, `NoLeak`, `StopReleases`, `ConnectsOnce` | - |
| `SocketProofs` | `KeepsSpare`, `MapIsExact` | `IdleIsReserved`, `MapFollowsDescriptors` of `Acceptor` | - |
| | `WholeDatagrams` | `WholeInOrder` of `UdpPeer` | - |
| `HttpProofs` | `StaysWellFormed` | `WellFormed` of `Buffer` | - |
| | `ActsAsQueue` | `BufferSpec => Queue!Spec`, the queue of `ByteQueue` | - |
| | `WholeResponses` | `ResponsesAreWhole` of `HttpServer` | `[]HandledAsSent`, `~Pipelining`, no route of kind `"unreadable"` |

Every safety argument is an induction: a lemma shows that `Init` establishes `IInv`
(`UdpInv` and `BufferInv` in the modules that hold two components), one lemma per action (or per kind of action) shows that a step keeps it, and the theorem
draws the property from it. What the invariants add to the properties, and why:

* **EventLoop.** `PhaseInv` says which flags can be set in which phase. `TicketInv`:
  tickets `1 .. Len(ran)` have run in order, the batch continues where `ran` ends, the
  queue where the batch ends. Neither the order of execution nor `BatchIsFixed` is
  inductive without it: both need to know which ticket sits at each place. `WakeInv`:
  a wakeful ticket in the queue implies a readable eventfd, a thread that owes a write,
  or a stage from which the swap comes before the next poll; `NoLostWakeup` alone says
  nothing about the stages before the poll.
* **TimerQueue.** The load and the store of `next_timer_id_` are two steps, so the whole
  argument starts with `TakeTurns`: between them nobody else stores. Hence
  `IdsAreNumbers`: an id is the number of its timer, negated once `Cancel()` accepted it.
  `Known` says that the entries of `timers_` and `expired_` together with the running
  callback are exactly the timers of `in_use_`, once each and not freed; `OnTheWay` that
  every functor queued by another thread carries a timer that nobody knows yet. Without
  `OnTheWay` the insertion that the functor makes could meet the id in use. `Passes`
  keeps entries of `expired_` due until their callback starts, which is `CallsAreDue`.
* **EPoller.** `IndexFollows` ties `index_in_poller_`, which chooses between
  `EPOLL_CTL_ADD` and `MOD`, to the map. `Distinct(readyList)` is for the refinement:
  `Poller` reports no channel twice, and the array is filled from epoll's list.
* **UPoll.** `EntriesAgree`: the entry of a channel asks for what the channel wants, even
  while its descriptor is negated. A removal moves the last entry, so agreement has to
  hold for all places at once. `NotSkipped`, used by `Watching`, is about the channels
  that were not disabled since they were added.
* **TcpConnection.** `DataKept` (`accepted = written + output + dropped`, and only a reset
  drops) and `FinLast` (after FIN nothing waits and nothing is accepted) give the first
  half of `FinAfterData`. The second, why units are lost, needs `Causes`: a connection that
  is closed or has lost its owner, and every callback and functor on the way to that, goes
  back to a reset, to the peer's shutdown or to the destruction of the owner. `CloseEnds`: a connection that called `close_cb_` is disconnected for
  good, which is why a second close event cannot call it again. `Server` is the lifetime
  argument for `ServerReleases`, for a server that was not destroyed while busy: the map holds the connection while it is connected;
  once it is not, a channel that is registered (a write handler later in the same event
  may register it again) has a `DestroyConnection()` ahead of it, in the queue or in the
  rest of the batch, and no callback of the connection comes after that one.
  `Streaming` maps the connection's steps to those of `OutStream`, with `Lost` and `Ended`
  for its units lost and its end. Beyond `IInv` it needs to know that no `HandleWrite()`
  follows once the rest counts as lost (`Gone`), and `ShutEnds`: a half shut down connection has sent its FIN exactly when nothing waits.
  That is what `Shutdown()`, the watermark and `HandleWrite()` leave to each other.
* **Connector.** `Base` holds whatever the timing: `Timer` (one retry timer, known by its
  id), `Success` (it hands `fd_` over and ends the timer), `Given` (what a `Stop()` that did
  not come late has left), `NoLeak`. `Calm` holds until the timer meets an attempt:
  `Paired` says that `fd_` is the descriptor the channel watches, that the channel is
  enabled exactly then, and that a queued `Channel::Reset()` finds it unregistered. The
  asserts follow from `Paired` only; the leak, the release and the single connection
  do not need it.
* **Buffer.** `Good(b)`: indexes in order and inside the vector, written bytes between
  them. The lemmas follow the methods of the class: what each does to a good buffer and
  to its content (growing, moving, shrinking keep it; append, prepend and pop change it
  as in `ByteQueue`); `NextCalls` puts them together for the actions. A buffer is good, or
  one of the two calls has ended it: a `Shrink()` that left a good buffer behind, or a
  `Prepend()` after which it is `Misheaded` (`PrependMisses`: the header did
  not fill the space in front).
* **Acceptor.** `Spare`: `idle_fd_` names the one spare descriptor except between giving
  it up and opening it again, and then, unless another thread or a failing `accept()`
  disturbed it, some descriptor is free. `Registered`: the map has the listening socket,
  the connections and what destroyed acceptors left, and a failed assert is about one of
  the latter. `Clients`: a client that is being
  accepted is in the queue. That the kernel's "lowest free descriptor" exists is a lemma
  from the well-foundedness of the order on numbers.
* **UdpPeer.** `Queued`: what waits in the kernel is the end of the history of arrivals,
  so the datagram at the head is the one behind those that are done with; a socket that is
  bound is known to be, unless its first `sendto()` failed. `Looking`:
  between the call that looks and the call that takes, the size seen is that of the
  datagram in front, and the one taken is the one handed over.
  The history is filtered by `Kept`, which is not recursive: lemmas say what happens to
  it when a place is added behind the others, is not wanted, or only the history grows,
  so the induction over data that a recursive filter would need is not there.
* **HttpServer.** A theorem of the form *assume, guarantee*: while `HandledAsSent` holds,
  which TLC checks, `ResponsesAreWhole` does. `Pumping` ties the response object to what
  was sent: one response per request handled, and what was sent of the last one with
  what is left in its file makes its content-length. `AllAnswered` uses the client's
  patience: a request is handled when it has been read, the client has sent it after the
  answers to those before it, so a response is replaced only when it is complete; a
  `write_cb_` of it that is still queued pumps the new one in its place, and no more than
  it has. The parser enters only through `HandledAsSent`.

Only model-checked, and why:

* every liveness property (`FunctorsRun`, `QuitStops`, `TimersFire`,
  `CancelledAreFreed`, `NoStarvation`, `WriteCompletes`, `ShutdownCompletes`,
  `PeerGoneIsClosed`, `KeepsTrying`, `ClientsAreAnswered`, `DatagramsAreTaken`,
  `RequestsAnswered`): liveness under fairness is out of reach of the prover;
* `HandledAsSent` of `HttpServer`: it says what the recursive function `Process` computes
  for every way to cut a script, an induction over data.

Every other property of a passing run, invariant, action property or refinement, is a
theorem.

## 5. Not modelled

* System call wrappers, addresses, logging, formatting: no state. The poller factory only
  chooses between the two implementations of `Poller`.
* `RingBuffer`: not part of the build.
* Failures of `epoll_ctl()`, of the eventfd's `read`/`write`, and POLLERR/POLLHUP on
  channels that asked for nothing: their effect is a log line or depends on errno.
* A clock that steps back. `gettimeofday()` may, and every timer is then late.
* User callbacks that destroy the object whose callback is running.
* What follows undefined behaviour: the functor of a destroyed `Connector`, the owner of a
  descriptor the `Acceptor` closed by mistake, a `Buffer` written outside its vector. The
  models end there.
* `Send()` and `Shutdown()` from other threads: they bind a raw `this`, and the
  library's README lists multithreading as unsupported. (`Connector::Stop()` from other
  threads is modelled, as `StopFromOtherThread`.) A watermark callback set by
  the user (the default one is modelled).
* `int` overflow of `Buffer`'s indexes, which needs a buffer of 2 GB.
* Of HTTP: the values of arguments and of fields other than `content-length` and
  `transfer-encoding`, `DbgPrint()`, the text of headers, the user's callbacks at connect
  and disconnect, a file that changes while it is sent.
* Examples, tools, tests and the web pages.

## 6. Plan

1. Done: all classes of the library that keep state, the HTTP parser and server; the
   abstract specifications `FunctorExecutor`, `Poller`, `OutStream` and `ByteQueue`, with
   the refinements onto them proved; the safety properties of ten components proved.
2. Model next: `Send` and `Shutdown` from other threads, composed with the
   functor queue of `EventLoop`; `HttpServer` on `OutStream` instead of its own
   reduction of a connection.
3. Prove next: the parser, once its loop is an action per turn: then what a cut in the
   input may change is an invariant and not an induction over data.
4. The set of runs stays small on purpose, one per question. An event after which the code
   keeps less than it says is in the passing run and named in its property; a use that
   only a constant excludes is a line of the last table of section 3.
