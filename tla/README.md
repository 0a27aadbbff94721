# A verified model of magpie-cpp

TLA+ modules for the concurrent core of magpie-cpp, TLC configurations that
model-check them on small instances, and TLAPS proofs of their main safety
properties for every instance. Paths below are relative to the repository.

## 1. The system

magpie moves data between robots and programs: *streams* (one-way frames on
topics) and *RPC* (request, acknowledgement, reply), each over ZeroMQ, MQTT or
WebRTC, with *nodes* that add threads and a lifecycle on top.

| Component | State it keeps | Operations | What makes it correct |
|---|---|---|---|
| `StreamReader` (`src/transport/stream_reader.cpp`) | bounded queue, `closed_`, `closeRequested_`, one thread | `read(timeout)`, `close()`, background loop | frames come in order, at most once and recent; timed reads and `close()` return; no reader sleeps beside a frame |
| `StreamWriter` (`src/transport/stream_writer.cpp`) | the same | `write()`, `close()`, background loop | the same order; `close()` flushes; no write on a closed transport |
| `RpcRequester`, `ZmqRpcRequester` (`src/transport/rpc_requester.cpp`, `zmq/zmq_rpc_requester.cpp`) | `pending_` map of calls, `PUSH/PULL` control channel, `DEALER` socket, one I/O thread | `call(request, timeout)`, `close()`, I/O loop | a call gets the answer to its own request or an error, leaves nothing behind, returns when it has timeouts, is released by `close()` |
| `RpcResponder`, `ZmqRpcResponder` | `ROUTER` socket, `closed_` | `receive()`, `send()`, `handleOnce()`, `close()` | one thread on the socket, one close |
| `BaseNode` (`include/magpie/nodes/base_node.hpp`) | atomic flags, pause gate, one thread | `start()`, `pause()`, `resume()`, `terminate()` | one start; terminate returns; nothing runs after the exit |
| `ServerNode` (`server_node.hpp`) | pool of workers, `jobs_`, `replies_`, `stopping_` | the hooks of `BaseNode`, worker loop | a request is handled and answered at most once; none is lost on the way; the pool stops |
| `SourceNode`, `SinkNode`, `ProcessNode` | a reader, a writer, a callback | the hooks of `BaseNode` | terminate unblocks a blocked read |
| `MqttConnection` (`mqtt/mqtt_connection.cpp`) | table of callbacks by topic filter, a broker client with a network thread | `connect()`, `addSubscription()`, `removeSubscription()`, `publish()`, reconnection, topic matching | whoever is registered is subscribed; a message reaches every callback whose filter matches |
| `MqttRpcRequester`, `MqttRpcResponder` (`mqtt/mqtt_rpc_*.cpp`) | `pending_`, `closing_`; a request queue, `reqClosed_` | `call()`, message callback, `close()`; `receive()`, `send()`, `handleOnce()`, `close()` | as the ZeroMQ ones; a worker leaves after `close()` |
| MQTT streams | a `StreamReader` queue, a topic | `write()`, message callback | as the streams |
| `WebRtcConnection` (`webrtc/webrtc_connection.cpp`) | a group's children by remote, marks of those that were ready or connected, restart ids; a child's peer connection, role and queued candidates | signals, discovery thread, negotiation, replacement of a child; routing of calls and data | the peers connect whatever the order; every candidate is applied to the right connection; a mark speaks of the child it is read of; a lost link comes back; replies go to their origin |
| Signalers | a socket, a poll loop | `send()`, callbacks | messages arrive in order, once |
| `ZconfDiscovery` (`discovery/zconf_discovery.cpp`) | tables of nodes, hosts, parked addresses, questions asked | `advertise()`, `close()`, `resolve_node()`, records of a packet | what is advertised is found at its address; an address that left an entry stays away until it is heard of again; callers wake |
| Schemas | tables of methods and tools | `dispatch()` | JSON-RPC rules |
| Serializer, frames, logger | none | conversions, output | round trips |

How they interact. A node *calls* its streams or responder from its own thread,
and from the thread that terminates it. Streams and the requester hand data to
one background thread through a queue guarded by a mutex and a condition
variable, or through a ZeroMQ pipe. Requester and responder exchange
*messages*: request, ack, reply. MQTT and WebRTC deliver through *callbacks* on
library threads; a WebRTC group and mDNS discovery learn of their peers through
messages that may be lost, and repeat theirs.

What is hard is listed, line by line, as the hazards of `PROJECT.json`: flags
tested without the lock under which they are used, notifications sent without
the mutex, `notify_one` with several waiters, full queues, late or invalid
replies, requests forwarded to a peer that is away, broker requests made after
the table's lock was released, two ends of a link that see it fail at different
times, records that arrive before what they refer to, shutdown racing everything.

## 2. Modules

| Module | Models | State and actions against the code |
|---|---|---|
| `BoundedQueue` | the push that both streams share | `Pushed(q, f, bound)` drops the oldest frame of a full queue |
| `LossyFifo` | *abstract*: a FIFO that may lose old elements | `accepted`, `last`; `Take` hands out a later and recent frame |
| `StreamReader` | queued `StreamReader` | one action per critical section; `reader[r]`, `thread`, `closer[k]` say where each thread is in `read()`, `threadLoop()`, `close()` |
| `StreamWriter` | queued `StreamWriter` | the same for `write()` |
| `RpcCall` | *abstract*: what `RpcRequester::call()` promises | `state`, `requested`, `answered` |
| `ZmqRpcRequester` | `call()`, `transportCall()`, `ioLoop_()`, `transportClose()`, and the ZeroMQ peer | `call[c]`, `io`, `closer` are the places; `pending`, `acked`, `replied`, `failed`, `payload` are the map and the fields of a `PendingCall`; `ctrl`, `outgoing`, `inbox` are the channels |
| `BaseNode` | the lifecycle | `node`, `starter[s]`, `terminator[k]`, `resumer[r]` are the places; the flags have their names |
| `RpcService` | *abstract*: what the answering side promises | how often a request was acknowledged, handled, answered |
| `ServerNode` | `ServerNode` over `ZmqRpcResponder` | extends `BaseNode`: each hook becomes several steps, the last of which is `BaseNode`'s own action; `hook[c]` is the place of a thread inside a hook, `worker[w]` inside `workerLoop_()` |
| `MqttTopics` | the topic matcher | `TopicMatches(f, t)` walks filter and topic as the code does; `Accepts` is the rule of MQTT by levels |
| `MqttConnection` | the subscription table, the network thread, the broker's session | `phase[h]` is the place of a registration between lock and broker; `network`, `toSubscribe`, `toCall` are the network thread and the copies it works from; `broker` is what the broker has subscribed |
| `MqttRpc` | both ends of RPC and the broker between | `place[c]` inside `transportCall()`, `asleep` the callers on a condition variable; `stage`, `hand` the network thread and the message it delivers; `closer`, `victims`, `telling` the parts of `transportClose()` and `failAllPending()`; `coming`, `arriving`, `queue` the responder's callback; `worker`, `reqCloser` the rest of it |
| `WebRtcPeers` | two groups, their discovery threads, the negotiation of one link | a record per child: peer connection, role, remote description, candidates, state of the link; `hand` the signal a group has looked up the child for, `opening` the channels that have opened and are not yet marked; one action per signal handler, periodic hello, reaping, event of the link |
| `ZconfDiscovery` | the tables, callers of `resolve_node()`, peers that come, go and crash | the tables have their names and are keyed by ids in lower case (`Lower` is `to_lower()`); `records` is the rest of the packet the worker is parsing, one record per step, with ttl 0 or not; `resolver[r]` the place of a caller; `gone` a history of addresses that left an entry |
| `MCZmqRpcRequester`, `MCMqttConnection`, `MCMqttRpc`, `MCZconfDiscovery` | instances for TLC | functions and strings a cfg cannot write; the other modules are instantiated by their cfg alone |
| `...Proofs` | theorems | see section 5 |

How code becomes actions. A critical section is one step, and so is an access
to an atomic; between two such steps everything may happen. A thread that waits
on a condition variable holds the mutex from the test of its predicate to the
moment it blocks: that is a place of its own ("block"), because a notification
sent without the mutex gets lost there. A mutex is modelled by its holder only
where it is held over more than one step; every action that locks it then
requires it free. `notify_one` picks any waiting thread; spurious wakeups are
actions.

What is abstracted. A frame is its number in the order of arrival; a request,
its request id, its client context and its payload are one name; serialization
and logging are left out. A malformed message is dropped or rejected where the
code does so. Time is left out: a deadline that is set may pass at any moment,
and one that is not set never passes. ZeroMQ is modelled by what the code relies
on: pipes keep the order of one sender, a `PULL` socket takes from its senders
in any order, a `DEALER` holds a bounded number of requests for a peer that
takes none.

Over MQTT one step stands for a request to the broker, which takes effect or
fails because the connection is down. In `MqttRpc` the lookup of a call, what is set
under the mutex of its `PendingCall` and the notification after it are three
steps, of `close()` as well as of a message. In `WebRtcPeers` a group's signal
thread looks a child up or makes it under the group's mutex; that the child starts
and handles the signal, and that the child it replaced is disconnected, are later
steps. So is the mark a link earns after its channel has opened. libdatachannel is
modelled by its promise that two connections which hold each other's description
and a candidate connect. In `ZconfDiscovery` every record of a packet is one step
under `mtx_`; an A and an AAAA record are treated alike, and so are ids that differ
only in case.

Faults are switched by constants. `ZmqRpcRequester`: `SocketsRunOut`
(`zmq_socket` fails), `IoFaults` (`zmq_poll`, `zmq_msg_recv`, `zmq_send` fail),
`AcksGetLost` (a reconnection drops an ack), `SendRoom` (room in the `DEALER`).
`BaseNode`: `SetupThrows`. `MqttConnection`: `MaxDrops` losses of the connection;
the session may start clean or not. `MqttRpc`: any message may be lost, `Deliveries`
says how often a request may be delivered, the calls in `Garbled` may be answered
out of format, and every publish may throw. `WebRtcPeers`: what is said before the
other group has subscribed is lost; `MaxLinkLosses`, `FirstToNotice` (which end sees
a failure first), `EarlyLoss` (a link may fail before both ends saw it up).
`ZconfDiscovery`: any packet may be lost or overtaken; a peer leaves with a
goodbye, as this code sends it, with a withdrawal of its other records, as other
mDNS responders send it, or by a crash.

## 3. Runs

Passing runs:

| Run | Instance | Distinct states | What it shows |
|---|---|---|---|
| `StreamReader` | 3 readers (one timed), 2 racing closers, queue of 2, 3 frames | 21,752 | one `close()` proceeds and none after it (`OneCloserProceeds`); frames read are those of a lossy FIFO (`ImplementsLossyFifo`); calls return (`CallsReturn`); no reader sleeps beside a frame (`SleeperIsServed`) |
| `StreamWriter` | 2 writers, 2 closers, queue of 2, 4 frames | 11,359 | what was accepted before `close()` is drained before the transport closes (`CloseFlushes`); the same order (`ImplementsLossyFifo`); `CloseReturns`; `QueueDrains` |
| `ZmqRpcRequester_safety` | 2 calls, one timed, invalid acks and replies, ZeroMQ faults | 1,303,521 | no leftovers (`NoPendingLeft`), no sleep on a verdict (`NoSleepOnVerdict`), own answers (`ImplementsRpcCall`) |
| `ZmqRpcRequester_liveness` | 2 calls, one timed, acks get lost | 111,074 | the timed one returns (`BoundedCallReturns`); `close()` returns and releases what it finds registered (`CloseCompletes`) |
| `BaseNode` | 2 starters, 2 terminators, 1 resumer, 2 pauses, `setup()` may throw | 12,354 | `OneStart`; at most one `process()` after `pause()` (`PauseStopsProcessing`); `NothingRunsAfterExit`; `TerminateReturns`; `ResumedNodeWakes` |
| `ServerNode` | 2 workers, 2 requests, terminate at any time, `setup()` may throw | 61,423 | an acknowledged request is in exactly one place (`AckedIsHeld`) and is handled and answered at most once (`ImplementsRpcService`); `TerminateReturns`; `AckedIsServed` |
| `MqttConnection` | 3 registrations by 2 threads, 2 overlapping filters, 2 losses of the connection | 180,483 | a registered filter about which nobody is going to talk to the broker is subscribed (`SubscribedWhenQuiet`) and becomes so (`RegisteredIsSubscribed`); the assumptions about the matcher (below) |
| `MqttRpc` | 2 calls, one of them timed, delivered twice and answered out of format, both ends closed at any time | 935,860 | who sleeps on what has come or failed is about to be told (`NoSleepOnVerdict`); `close()` misses only who was past its check (`NobodyStranded`); the responder's worker leaves (`WorkerLeaves`); `ImplementsRpcCall` |
| `WebRtcPeers` | 2 groups, both kinds of signaler, 1 lost link, 3 children each | 454,278 | a child that believes it has a remote description has one (`RemoteDescIsReal`); marks speak of the child they are read of (`ReadyIsOfThisChild`); `PeersConnect`; `Reconnects` |
| `ZconfDiscovery` | 1 peer with a capital in its id, 2 addresses, 3 comings and goings, 2 packets under way, 1 caller | 207,236 | addresses wait only for unknown hosts (`ParkedForUnknownHostOnly`); one that left an entry is not listed unheard (`GoneUntilHeard`); `NoSleepOnResolved`; `ResolveReturns`; a peer is found under its id in lower case (`AdvertisedIsFound`) |

Each is finished in minutes with two workers; the longest, `MqttRpc` and
`WebRtcPeers`, in less than three.

Runs that find a disagreement between the code and what is said of it (each
checks that one statement; `PROJECT.json` quotes it):

| Run | Statement | What happens |
|---|---|---|
| `WebRtcPeers_reconnect` | a dropped link is re-established (`webrtc_options.hpp`) | the offering end sees the failure first, reaps its child and makes a new one, whose only offer goes to the old child of the other end, which still counts as connected and ignores it |
| `MqttConnection_shared` | one connection serves any number of components (`src/README.md`) | two threads use one filter: the unsubscribe of the one overtakes the subscribe of the other, whose callback then gets nothing |

Properties say where they stop. These are limits of the code which the models
contain, unless it says otherwise, and a property excepts:

- `CallsReturn` speaks of readers that sleep when `close()` notifies. A `read()`
  without a timeout that is between its predicate and its wait never returns,
  because the notification is sent without the mutex.
- `CloseFlushes` speaks of frames accepted before the close was requested. A
  `write()` past its `closed_` check may enqueue after the last drain.
- `CloseCompletes` speaks of calls registered when `close()` empties the map, with
  room in the `DEALER`. A call that registers later waits for its own timeouts; an
  I/O thread blocked in `zmq_send()` for a peer that is away never reads the close
  message. `ZmqRpcRequester` has one `close()`: two that race may both pass the test
  of `closed_` (`rpc_requester.cpp:45`) and join and close the same objects, which is
  undefined and not modelled.
- `BoundedCallReturns` speaks of calls whose effective ack timeout is not negative.
- `NoSleepOnVerdict` of `ZmqRpcRequester` is checked where acks do not get lost. That
  of `MqttRpc` is checked with lost acks and leaves out an error about the other
  message: an invalid reply notifies `cvReply` only, so a caller whose ack was lost
  is not told of it, nor one that waits for the reply of a second, invalid ack.
- `NobodyStranded` says whom `close()` misses: a caller past the check of `closing_`
  that registers after the map was emptied. It waits until `ackTimeoutSec_` has
  passed, and for ever if that is negative, although `mqtt_rpc_requester.cpp:247`
  fails pending calls "so callers aren't blocked forever".
- `TerminateReturns` excepts a node whose `setup()` threw: it counts as started and
  has no thread. A second `terminate()` does not wait.
- `AckedIsServed` excepts a node that is terminated: a request received while the
  pool stops stays in the queue.
- `WorkerLeaves` speaks of receives with a timeout; one without may sleep through
  `close()`, which sets its flag without the mutex.
- `Reconnects` is checked where the answering end sees the failure first; the
  other case is the run above. `EarlyLoss` is off for the same reason.
- `RemoteDescIsReal`, `ReadyIsOfThisChild` and `Reconnects` are stated where the relay
  announces no joins: a hello that announces one replaces a child by design.
  The first two also need the answering end to see a lost link first: they are
  violated when the other one does (section 5).
- `GoneUntilHeard` speaks of addresses that were listed. One that waits for its host
  when the goodbye comes survives it, a withdrawn address of an unknown host is
  parked like any other, and those of a peer that crashed or moved are never removed.
- `AdvertisedIsFound` asks for the id in lower case, as the tables are keyed.

The topic matcher keeps no state; it is compared with the rule of MQTT by three
assumptions of `MCMqttConnection`, over all valid filters and topics of up to four
characters. It accepts a topic that begins with `$` for a filter that begins with a
wildcard, and nothing else it should not (`MatcherAccepts`); it misses two cases
(`MatcherMisses`): `a/#` does not match `a`, and a final `+` does not match an empty
level. All three happen (`MatcherErrs`).

Disagreements between the code and what the repository says of it that no run
shows, because they need no run or are excepted above:

- `mqtt_connection.cpp:40` calls the matcher "MQTT topic wildcard matching (MQTT spec
  §4.7)", `mqtt_connection.hpp:91` and `src/README.md:266` support `+` and `#` without an
  exception; the three cases above are exceptions.
- `src/README.md:384`: `reconnect=true` "restarts a failed peer link without replacing
  healthy links". A hello with a new restart id replaces the child whatever its
  state (`webrtc_connection.cpp:877-878`). Without restart ids, when the calling end
  sees a failure first, its offer makes a child at the other end, the link opens, and
  the hello that comes after has that child set up a new peer connection
  (`webrtc_connection.cpp:311-344` does not look at `connected`).
- `ZconfDiscovery` files a node under its id in lower case (`zconf_discovery.cpp:463`,
  `801`), while `resolve_node()` looks up the id it is given (`412`): an id with a capital,
  such as `getUniqueId()` makes (`common.cpp:17`), is advertised and never resolved.

All runs say `CHECK_DEADLOCK FALSE`: after a close or a termination nothing is
left to do, and a reader or caller without a timeout may rightly wait for ever.
A `WebRtcPeers` relay that announces joins falls silent once the peers connect.

Why the bounds are enough. Two closers or terminators, two patient threads and
one timed one give every pair of roles that can meet. A queue of two fills,
overflows and empties. Two calls are what it takes to mix up answers or to
leave a stale one behind; two requests and two workers give a job queued while
another is notified and not yet taken, which is where a wakeup could get lost.
Three registrations for two overlapping filters let a filter
lose its last callback and gain a first one while another one matches the same
message; two losses of the connection let the second one interrupt the
resubscription after the first. Three children per group are the first, one that
replaces it and one that is made while the old one is being disconnected. One
mDNS peer that comes, leaves and returns at its other address meets every table
in every state, as the entries of different nodes share nothing. Two packets under
way can overtake each other; what would be a third pushes one of them out, which
counts as lost. One call whose request is delivered, or delivered twice, and one
whose request never arrives put an answer, its repetition and a wait without one
side by side.
`MaxFrames`, `MaxPauses`, `MaxChanges`, `MaxUnderWay`, `MaxDrops`, `MaxChildren`,
`MaxArriving`, `MaxLinkLosses` and `MaxQueue` bound what could grow without end. `SendRoom` is one where the full
`DEALER` matters and two where it should not fill. A node in the
`ServerNode` run starts paused or not; pausing and resuming while it runs are
explored in the `BaseNode` run. The proofs remove the bounds where they reach.
Temporal properties and symmetry do not go together in TLC, so no run uses
symmetry.

## 4. Fairness

Each specification has `Spec` (safety only) and `FairSpec`. Fairness says that a
thread that can run does run, that a call that was made goes on, that handlers
and hooks return, and that a deadline that was set passes. Steps that lock a
mutex which others take again and again get strong fairness: a mutex that is
free again and again is granted in the end. Nobody is obliged to call anything,
a peer owes no answer, and no spurious wakeup is relied upon.

Three modules need more of their environment. The deadline of an MQTT `receive()`
passes however often it is woken before (strong fairness:
`wait_until` keeps one absolute deadline). `ZconfDiscovery` has strong
fairness on receiving the announcements of a peer that stays: they are repeated
for as long as it runs, and a network that loses every one of them would make
discovery impossible. `WebRtcPeers` assumes that both applications start, that the
discovery and signal threads run, and that peer connections which can reach each
other connect; a signaler delivers to whoever has subscribed. `MqttConnection` owes nobody a
connection: `RegisteredIsSubscribed` speaks of one that is up. A run that finds a
temporal property violated does so under `FairSpec`; `MqttConnection_shared`
violates an invariant.

## 5. Proofs

TLAPS proves these for every value of the constants that their named assumptions
allow (positive queue bounds, distinct names, timeouts any integers):

- `StreamReaderProofs`, `StreamWriterProofs`: `TypeCorrect`, `QueueCorrect`,
  `ReaderIsLossyFifo` / `WriterIsLossyFifo`, `CloseCorrect` / `CloseFlushesQueue`.
  The inductive invariant `QueueInv` adds to the types that the queue is the
  newest accepted frames and lies behind `last`; a step then maps to a step of
  `LossyFifo` or a stutter. The position arithmetic is in two lemmas,
  `PushKeepsNewest` and `TakeKeepsNewest`: both operations keep a queue the newest
  frames, gapless and in order. `CloseInv` adds that at most one closer is past the
  exchange, and how far `close()` has come while the loop still runs; for the
  writer also which frames are due when the close is requested.
- `NodeProofs`, of `BaseNode`: `TypeCorrect`, `StartCorrect`, `ExitCorrect`,
  `PauseCorrect`. `StartInv` says that a thread inside `start()` owns the start.
  `ExitInv` adds that the node leaves its loop only after `terminating_` was set,
  which is what keeps a `start()` after the exit from running `process()`.
  `PauseInv` adds that a node about to call `process()` was found running since the
  last pause. Of `ServerNode`: `ServerIsNode` (every step is a step of `BaseNode` or
  leaves the lifecycle alone), so that `ServerLifecycle` carries those four over to
  any number of workers; `ServerTypeCorrect`, `AckedCorrect`, `ServerIsRpcService`.
  `AckedIsHeld` counts places, which is not inductive. `ServerInv` says instead who
  holds a request and how far that request has come (`StageInv`), that no request is
  in two hands or queues (`OnePlaceInv`), and that one acknowledged and neither
  answered nor dropped is in some place (`PlacedInv`). The stage is what keeps a
  request out of both queues at once; the counts follow, as each of the sets they
  count is empty or a singleton.
- `ZmqRpcRequesterProofs`: `TypeCorrect`, `AnswersAreOwn`, `RequesterIsRpcCall`,
  `CleanedUp`. `ReplyIsOwn` is not inductive: that a reply is a call's own depends
  on where its message came from. `SafeInv` therefore follows a request along its
  way, one conjunct per leg: `RequestInv` (a request in the control channel or in
  the hand of the I/O thread has not reached the peer, so it is sent once),
  `MessageInv` (what is in flight was sent by the peer for the request it names),
  `VerdictInv` (what a `PendingCall` records was received), `ProgressInv` (what a
  caller concluded was recorded). Each leg needs the one before it.
  `NobodySleepsOnVerdict` assumes that acks are not lost on the way
  (`AcksGetLost` is FALSE; the code cannot promise it). Its invariants: while the I/O thread looks a
  call up, every registered call is found (`RouteInv`); the ack is the first message
  about a call, and comes once (`OrderInv`); what the peer answered, the caller
  knows or will be told (`ReportInv`). So no reply finds its caller waiting for an
  ack that has already been consumed.
- `MqttConnectionProofs`: `TypeCorrect`, and `SubscriptionsAgree`, which says
  `SubscribedWhenQuiet` of every number of registrations, filters and losses, under
  the assumption `OneOwnerPerFilter` (the registrations for a filter are made and
  removed by one thread; `MqttConnection_shared` shows that it is needed). The
  invariant is `CoveredInv`: while the connection is up, a filter with callbacks is
  known to the broker or somebody is about to tell it: the network thread, a
  connection event it has yet to see, or the registration that came first.
  `TableInv` adds that a registration about to unsubscribe has left nobody behind,
  which is where the assumption enters.
- `ZconfDiscoveryProofs`: `TypeCorrect`, `ParkedCorrect`, `GoodbyeCorrect`,
  `CallersWoken`, for any ids, any `Lower` that is idempotent, and any number of peers
  whose ids differ in lower case. The types say that every key is in lower case, from
  which the corollary `OnlyLowerCaseFound` concludes that no other id is ever
  resolved. An address is parked only where the mapping of its host is missing, and
  whoever adds a mapping takes what is parked. `GoodbyeCorrect` (`GoneUntilHeard`) needs
  both: `GoneInv` adds that an entry lists addresses only of a host that is mapped, so
  that an address which left an entry is not among those a later SRV record takes
  over. Every record that completes an entry notifies.
- `MqttRpcProofs`: `TypeCorrect`, `NobodySleepsOnVerdict`, `CloseStrandsNobody`,
  `MqttIsRpcCall`. The invariant follows a reply back to the request it answers
  (`AnswerInv`), says what a caller concluded (`OutcomeInv`), that a caller past its
  waits has heard what it waited for (`HeardInv`), and which registered calls
  `close()` has yet to fail (`CloseInv`). `CloseStrandsNobody` needs the last one: a
  call that registers after the map was emptied is never acknowledged, so the only
  wait it can sleep in is that for the ack. Whether that wait ends is up to
  `ackTimeoutSec_`, of which nothing is assumed. `NobodySleepsOnVerdict` is inductive
  with the types: whoever sets a flag or an error a sleeper waits for notifies its
  condition variable before it does anything else.
- `WebRtcPeersProofs`: `TypeCorrect`, and `ReadyCorrect` (`ReadyIsOfThisChild`), for any
  numbers of children and lost links. `ReadyInv` says
  that a mark is worn only by a child in the map whose own link was up, that a
  channel which has opened and is yet to be marked belongs to that child, and that
  the children on their way out have lost their links. The theorem has a premise,
  `OnePeerConnection`: a child sets up at most one peer connection. It holds where the
  hello comes before the offer. When the calling end sees a failure first, its
  offer may reach the answerer after its child was reaped and before a hello
  has made another; the child that the offer makes has a description before it has a
  role, and the hello takes its connection away. The mark and the remote description
  of that connection stay, so that `ReadyIsOfThisChild` and `RemoteDescIsReal` are both
  violated there. In the instance of the run the premise holds.

Only model-checked: all liveness, which is outside the prover's reach,
`RemoteDescIsReal`, and the assumptions about the topic matcher, which need induction
over filters and topics. Every other safety property a passing run checks is
proved: the invariants, the action properties and the refinements.

## 6. Not modelled, and the plan

Not modelled, and why:

- `src/src/schema/json.hpp` is a vendored JSON library of 24,765 lines, most of the
  code by size. It keeps no state of magpie's and is not magpie's own logic; it is why
  the mapped lines are a small share of all lines in the tree.
- Frames, codecs (`audio_frame_*`, `image_frame_*`), `Value` and the serializers are
  sequential conversions of bytes, covered by `tests/`; so are the schemas
  (JSON-RPC, MCP), which dispatch one request to one method.
- Direct mode of the streams (no queue, no thread) passes each call on. The
  streams over ZeroMQ and MQTT are one socket or topic below `StreamReader` and
  `StreamWriter`.
- Routing of calls, data and media over an open WebRTC link, groups of more than
  two peers, `stop()`, and `connect()` of a bare child with its hello loop.
- Signalers: `WebRtcPeers` takes one for an ordered channel to whoever has subscribed.
- `ProcessNode`, `SourceNode`, `SinkNode`: their `process()` is one read and one write.
- Options of connections (TLS, credentials, wills), logging, failing constructors,
  object lifetime (a `ServerNode` destroyed while it runs, a callback called after
  its owner removed it).

The plan, most important first:

1. `WebRtcGroup`: routing of acks and replies by origin among three peers, one of
   which is replaced; the hazard at `webrtc_connection.cpp:1310`.
2. `ProcessNode`: `BaseNode` composed with a reader and a writer.
3. `HttpSignaler`: the poll loop, its cursor and a relay that forgets a
   registration, in the place of the channel of `WebRtcPeers`.
4. `JsonRpc`: dispatch as an operator, checked against the rules in the tests.
