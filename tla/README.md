# Engarde in TLA+

Engarde relays SOCKS5 traffic over several uplinks at once. The client keeps
one multiplexed TCP session to the server on each interface; a logical stream
has one virtual carrier on each session, every carrier carries a complete copy
of the stream, and the first copy of a byte to arrive is the one that counts.
This directory models that machinery, checks it with TLC on small instances
and proves with TLAPS, for any number of carriers, interfaces, connections and
failures, what matters most: the stream and its refinement of an abstract one,
the reassembler and its refinement of a map of bytes, the hand-over of frames,
the opening of a stream, the carrier of a slot, the
path sessions, the server's table of streams, and its connections with the
handshake.

## 1. Inventory

### Components, their state and operations

| Component | Source (`src/internal/`) | State | Operations | Module |
| --- | --- | --- | --- | --- |
| Flow | `tcpstream/stream.go` | carriers, replay history and its byte count, acknowledgement offsets, deferred ACK, inbound queue, FIN flags, closed/done | attach, Start, readEndpoint, broadcast, remember, sendCarrier, acknowledge, enqueueInbound, writeEndpoint, detach, reset | FlowPair, RelayedStream, FlowInbound |
| Carrier | `tcpstream/carrier.go` | outbound queue, pending ACK, stopping flags | readLoop, processLoop, writeLoop, enqueueAck, Close, stop, finishClose | FlowPair, FlowInbound |
| Reassembler | `tcpstream/reassembler.go` | next offset, sorted segments, byte count, FIN offset | Push, SetFIN, DrainTo | Reassembler, ByteBuffer |
| Path session (client) | `clientrole/tcp_group.go` | session, generation, inFlight, retrying, retry count, closed | reconcile, dial, retry, waitToRetry, close, refreshCarrierGroups | PathSession |
| Path manager and its commands (client) | `path/path.go`, `control/control.go` | configured exclusions, swaps | IsExcluded, ToggleExclusion, Include, Exclude, ResetExclusions; refresh reads them | PathSession |
| Carrier group (client) | `clientrole/tcp_group.go` | a slot per interface: path, session, carrier, inFlight, retrying, openRejected; started, committed, failed, closed | assign, syncPaths, reconcile, open, attach, monitorCarrier, retry, waitToRetry, failOpen, watchOpen, close | CarrierSlot, StreamOpen |
| Stream opening (client) | `clientrole/tcp.go`, `socks5/socks5.go` | accepted connections, flows, groups | startAccept, the SOCKS5 negotiation, accept, releaseCarrierGroup, shutdown | StreamOpen |
| Stream table (server) | `serverrole/tcp.go` | streams by identifier, closed identifiers with expiry, pending count | startSessionStream, acceptStream, getOrCreate, expireUnstartedStream, rememberClosed, pruneClosed, shutdown | ServerStreams |
| Connections and sessions (server) | `serverrole/tcp.go` | registries of connections and sessions, semaphore of pending handshakes | accept loop, startAccept, acceptWithHandshakeDone, connectionClosed, shutdown | ServerConnections |
| Traffic cache (server) | `serverrole/tcp.go` | counters by address, how many connections each counts, LRU list of those with none | trafficForConnection, connectionClosed, trim, prune | ServerConnections |
| Session handshake and authentication | `tcpstream/session.go`, `auth.go` | what each end waits for, the principal | DialSessionWithAuth, AcceptSession, AuthenticatePeerClient, AuthenticatePeerServer, deadlines | Handshake |
| Session | `tcpstream/session.go` | smux session, closed | OpenDestination, Close | outcomes in CarrierSlot, StreamOpen |
| Frame and destination codecs, configuration, statistics, socket binding, roles, web front end | see `PROJECT.json` | - | - | not modelled |

### How they interact

The application's connection is the endpoint of a client Flow, the connection
to the destination that of a server Flow. The two exchange DATA, FIN, ACK and
RST frames over carriers. A carrier is a virtual stream of smux, an external
library, modelled as two ordered channels that lose a suffix of what they carry
when the session below ends. On the client a refresh loop tells path sessions
and carrier groups about paths; a path session tells the groups about its
physical session; a group opens a carrier with OPEN / OPEN_RESULT and hands it
to the flow, and the first one starts the flow and answers the application. On
the server an acceptor takes each physical connection through the handshake
and serves its session; an OPEN on it creates the stream, dialling the
destination, or joins it. The management interface excludes and includes
interfaces on the client, which the next refresh turns into paths.

Shared state is guarded by mutexes (`flow.mu`, `group.mu`, `group.startMu`,
`pathSession.mu`, `runtime.mu`, `attachMu`). The hard behaviours are those
between two lock regions: decisions carried out after the unlock, sessions and
paths read in one region and written in the next, timers against late answers,
carriers that join or go while frames are replayed and pruned. `PROJECT.json`
lists each of these hazards with its line and the properties that speak of it.

## 2. Modules

One step of a model is one lock region, one hand-over between goroutines or
one wait of the code. An optional Go value is a set of at most one element.

**FlowPair** - both Flow objects of a stream and the carriers between them.
Bytes are offsets. Actions by goroutine: `ReadEndpoint` (`ReadData`, `ReadEOF`,
`ReadNoCarriers`, `BroadcastReturns`, `BroadcastNoCarriers`), `WriteEndpoint`
(`Deliver`, `SendAck`, `FinishDelivery`), `SendCarrier` (`PickFrame`,
`CommitFrame`), the write loop (`WriteFrame`, `WriteAck`, `StopAtWriteError`),
`ProcessLoop` (`ReceiveAck`, `EnqueueInbound`, `ReceiveRST`), `ReadLoop`
(`StopAtEOF`, `Detach`), attaching (`AcceptOpen`, `RefuseOpen`, `Attach`,
`AttachRejected`, `Start`), the end (`FinishReset`) and the environment
(`Break`, `CloseCarrier`, `ResetFlow`). Abstractions:
frames in the hands of readLoop and processLoop are still on the wire (a write
error keeps up to two of them); checking for completion and claiming the reset
are one step; releasing the last inbound frame and resetting for it are one
step. The last one hides two races, which FlowInbound shows. A read and
`remember` are two steps, so that a read longer than the window (`Oversized`)
can be an instance. The limit of carriers is ServerStreams'.

**RelayedStream** - what a user is promised: two byte streams, each delivered in
order, without loss and without repetition while the stream lives, a graceful
end only when both have arrived with their ends, and no other end unless a
carrier or an endpoint failed. FlowPair implements it under the mapping
`Stream`: what was taken is the offset plus the read in hand, what was
delivered the reassembler's next offset, and how the stream ended `closed`.

**FlowInbound** - the receiving half of one flow goroutine by goroutine: each
carrier's readLoop, processLoop and closer, the counter `pendingInbound`,
writeEndpoint and the four stages of a reset. readEndpoint is there as well
(`sender`), because it resets the stream when no carrier is left to send to,
whatever is pending: `SenderNoCarriers` is the lock region in which `remember`
or `broadcast` finds that, `SenderResets` the later one that claims the reset.
`cause` says who ended the stream: the last release of a frame or carrier,
readEndpoint, or anyone else (`Abort`).

**Reassembler** and **ByteBuffer** - the segments, and the abstract map from
offsets to bytes that they implement under a refinement mapping. The data of a
segment is a function on offsets of the stream, which stands for the slice and
its arithmetic. The gap loop of push (`Pass`) and the loop of mergeSegments
(`Join`) are functions of the number of segments they have taken; the sort may
return any ordering of the segments by their offsets (`Sortings`). Two
properties state it: `ImplementsBuffer` (the abstract specification) and
`SameAnswers`, which ties each call to its own abstract call, because a
next-state relation alone hides which input an answer belongs to.

**CarrierSlot** - one slot of one group on one interface: path changes,
sessions that come and go, calls of `reconcile` at each of their three lock
regions and open attempts. `carrier.Close` is merged with the lock region that
decides it. A failed OPEN other than a refusal closes the session
(`OpenDestination`), so it only happens with the session gone.

**StreamOpen** - one request from its arrival on: the limit of `startAccept`,
the stages of the SOCKS5 negotiation with or without credentials,
`assignCarrierGroup`, and then attempts on several interfaces that race through
`attach` under `startMu` against `watchOpen`, until the group is released. A
reply is what it says with how much of it was written (`How`), since WriteReply
has a deadline. `AnswerFails` is the whole handler: the success goes out in
part or not at all, and failOpenLocked, which finds no commit, writes a second
reply. A refused interface is done or opens again, since reconcile clears
`openRejected` on a new session. The steps of `shutdown` (cancel, sessions and
accepted connections, flows, groups, waits) interleave with all of it; `listed`
is what shutdown found registered. Closed and done of the flow are one step;
bytes of the negotiation and other requests are left out.

**ServerStreams** - the table, one `acceptStream` per virtual stream with
`attachMu` and the carrier limit, open timers, removers, the closed cache with
a clock and the shutdown. `closedItems` is implied by the list: an identifier
is remembered only after its stream left the table, and getOrCreate refuses it
while it is remembered, so the `MoveToBack` branch of `rememberClosedLocked`
cannot be reached through getOrCreate.

**PathSession** - the path sessions of one interface: dial, serve, retry with
backoff, replacement by the one goroutine that refreshes, and shutdown; and the
path manager, whose swaps the commands of the management interface change while
`refresh` reads them (`Tick`) and applies them later (`Refresh`). Delays count
in small units; jitter is left out.

**Handshake** - both ends of the session handshake on every connection, message
by message: prefaces, the server's demand for authentication, challenge,
response and result, deadlines on either side, closed ends. A MAC stands for
the credential it was computed with. The server's `session` means that it has
sent its last message; the calls after that one (`session.go:123-131`) fail
only on a connection closed at this end or an invalid configuration, and such
an end counts as a session that ends at once.

**ServerConnections** - extends Handshake, whose server end its acceptors run:
the accept loop with the semaphore of pending connections, the registries, the
session limit, the counters per client address with their LRU list, and the
shutdown. `Accept` to `Leave` are the lock regions of one acceptor in order;
`ConnectionClosed` is the second half of `tcpServerConn.Close`. `pending` counts
tokens also without a limit, where the code has no semaphore. Shutdown's loops
over sessions and connections are one list, since closing either closes both;
the streams it closes and waits for are ServerStreams'.

The modules do not share state. What one of them takes as an environment step
is another's subject: a `Break` in FlowPair is `SessionEnds` in CarrierSlot and
PathSession, a path change is `Refresh` in both, a dial in PathSession is the
client's end of Handshake, `flow` in StreamOpen and ServerStreams is a FlowPair
seen from outside. ServerConnections and Handshake are composed.

Definitions named as mutants (`...Never`, `...Early` and so on) are variants of
the definition that follows them; a property is trusted only because replacing
the definition by its variant makes TLC report it violated.

## 3. Runs

| Run | Instance | Shows |
| --- | --- | --- |
| `flow_faults` | 2 carriers joining at any time, 1 byte and FIN, one carrier lost or closed at any step | `StreamInv` (the invariant of the proofs), `NothingForgotten`, `CarrierCopyComplete`, `NeverOutOfOrder`, `Uninterrupted`, `NeverStuck` |
| `flow_ends` | 1 carrier, 2 bytes one way through a window of 1 in reads of 1 or 2, FIN both ways, any failure | `GracefulMeansDelivered`, `HistoryBounded`, `ImplementsStream`, `EventuallyDone` |
| `reassembler` | offsets 0..4, window 3, payloads up to 3 of 2 bytes | `SegmentsInv`, `SameAnswers`, `ImplementsBuffer` |
| `inbound_races` | 2 carriers, one joining at any time, one closable, an endpoint that sends, an abort | `InboundInv`, `NothingAfterDiscard`, `ReceivedIsDelivered`, `FailedCarriersClose`, `EverythingExits` |
| `slot_races` | 2 sessions, a path change, 2 failures | `SlotInv`, `FirstSessionGetsCarrier` |
| `open_races` | 2 interfaces, 3 failures, 2 refusals, any stage of the negotiation, shutdown at any step | `GroupInv`, `OneReply`, `StartsOrFails`, `EverySettled`, `ShutdownCompletes` |
| `server_streams` | 3 OPENs, 3 identifiers, limits of 2 streams, 2 pending, 1 carrier, a clock | `TableInv`, `NoSecondDial`, `TimerSparesStarted`, `OpenPromiseKept` |
| `server_settles` | 2 OPENs, equal or different destinations, stopped at any step | `EveryOpenSettles`, `ShutdownCompletes` |
| `server_conns` | 2 connections, 1 pending place, 1 session, room for 1 address; four setups of users, credentials and addresses | `Agreement`, `ConnectionsInv`, `TrafficInv`, `PlacesComeFree`, `ShutdownCompletes` |
| `path_races` | 2 paths, 2 commands or interface changes, 2 failures, shutdown | `PathInv`, `NoOrphanSession`, `PathGetsSession`, `ShutdownCompletes` |
| `inbound_lost_reset` | 2 carriers, one closed on purpose | `LastCarrierCloses` is violated |
| `slot_stale_path` | 1 session, a path change | `HealthySessionGetsCarrier` is violated |

The last two state a sentence of the repository's README and find it violated
(section 5). Deadlock is not reported where the system may stop, which is
everywhere but in the reassembler: streams end.

The properties named `...Inv` are invariants that join the type invariant of
their module with what the proofs of section 4 need. `StreamInv` is `FlowInv`
(what is in transit is true) with `OrderInv` (and in order). `InboundInv` has
the exact count of pending frames and `HandOverOK`, who of the goroutines is
where. `GroupInv` gives every carrier an owner, and `RequestInv` every stage of
a request its state. `PathInv` is `DrivenInv` (one goroutine drives a path
session), `FailuresCounted` and `Backoff` (it waits as long as it should).
`ConnectionsInv` joins the two ends of the handshake (`ExchangeInv`), the
server's types and limits, the tokens (`PendingExact`) and the counters
(`TrafficInv`). `SlotInv` says that a working carrier and its slot name each
other, that nothing is in flight or waits beside it, and that no busy flag is
left behind on a live session. `TableInv` joins the server's types and limits,
what its streams (`ObjectsOK`) and carriers (`CarriersOK`) may be doing, the
order of the closed identifiers against the history of what closed when
(`ClosedInOrder`), and that nothing served is forgotten too early
(`NothingForgotten`). `SegmentsInv` says that segments are sorted, apart and
inside the window, that the panic of mergeSegments is not reached, and that
`buffered` is the number of bytes kept.

`OneReply` says that the first reply is a success or the most telling refusal
there is, and that a second one, a general failure, follows only a success that
was not written completely.

`NeverStuck` says that while the peer lacks something, some goroutine of the
stream can take a step. Each of these steps uses up something finite (a byte to
read, a frame to send, a copy on a wire, an ACK to carry), so a stream that
keeps a carrier delivers everything in the end; `flow_ends` checks the temporal
form, `EventuallyDone`, where the fairness below is needed. Both make one
exception, `Oversized`: a read longer than the window waits in `remember` until
the stream has lost its carriers (section 5).

`FailedCarriersClose` and `ReceivedIsDelivered` are stated for streams whose
carriers only fail and for which no carrier joined after the last one was gone
(`OnlyFailures`, `rescued`); section 5 says what happens otherwise. Such a
stream, unless somebody else ends it, ends only when its carriers have handed
over everything they received. That writeEndpoint has delivered it too holds
when the last release ends the stream, and not when readEndpoint does: that is
`LastFramesDelivered` (section 5). `FirstSessionGetsCarrier` likewise speaks of
the first session while no path changes.

**Bounds.** Two carriers are the least with redundancy and the case of every
race between a carrier that goes and one that stays or joins; window 1 with two
bytes fills the history, and a read of two does not fit it; capacity 1 blocks
an enqueuer; one failure at any step covers each crash point, and two or more
consecutive failures are taken where retries count. Three OPENs on three
identifiers with limits of two reach every refusal and overflow the cache; two
sessions are an old and a new one. Two connections against limits of one reach
every refusal of the accept loop and of the session limit, share one address or
overflow the traffic cache with two. Two interfaces are a first carrier and a
competitor. `flow_faults` sends one byte one way, so a full history and a read
that does not fit are the business of `flow_ends`. Two full directions, whose
acknowledgements wait behind the data at both ends, arise in neither;
`flow_faults.cfg` with `Carrier = {c1}`, `Total <- BothWays`, `Window <-
Window2`, both ends in `Finishes`, no failures and without symmetry has them,
and `NeverStuck` holds there (473,845 states). `slot_stale_path` has one
session; the stale session of `reconcile` is in `slot_races`. Three OPENs do
not reach a redial after an eviction by the limit, for which `OneConnection` is
proved. Every bound is a constant (`MaxFailures`, `MaxFrames`, `MaxRefreshes`,
`MaxChanges`, `MaxSessions`, `MaxTime`, `MaxOffset`, `MaxPayload`). Carriers
and identifiers are symmetric and are permuted only in runs that check
invariants.

**Fairness.** Weak fairness per goroutine: the Go scheduler runs every
goroutine that can run. Failures, new sessions, commands, path changes, ends of
streams, clients that close and the clock of ServerStreams are never forced.
OPENs, dials, negotiations and writes end because the code gives each a timeout,
which the configuration requires to be positive (`config.go:115-123`). In
FlowPair the endpoints keep reading and writing, and the write loop alternates
between ACKs and frames (`preferAck`), which gives each of them weak fairness.
In StreamOpen `startMu` needs no more than weak fairness: an attempt can take
it a bounded number of times before it or the request is over. Shutdown is fair
from the cancellation on. In ServerStreams and ServerConnections the timers
fire only by a hypothesis (`TimerFairness` of `EveryOpenSettles`, `Deadlines`
of `PlacesComeFree`), so that no `ShutdownCompletes` leans on them.

## 4. Proofs

Every theorem holds for all values of the constants that satisfy the module's
`...Assumption`, from which nothing else is assumed but `FramesFit` where it is
named. The assumptions say what the configuration ensures: sets of carriers,
interfaces and connections are finite, limits are natural numbers, windows and
queues have room for something. Two are more than that: in PathSession
`MaxDelay` is even, as the code's five seconds are (`tcp_group.go:17-18`), and
in Handshake a client has one credential at most.

Each proof has the same layout. One lemma says that the initial states satisfy
the inductive invariant, and one per action that its step preserves it, with a
step per conjunct that the action can disturb; `...Facts` lemmas say what an
operator returns, `...Keeps` and `...Stable` lemmas carry what a step leaves
alone; a theorem joins them.

**FlowPairProofs** - `Invariance` (`FlowInv`), `TypeCorrect`,
`NothingIsForgotten`, `GracefulIsDelivered`. Neither of the last two is
inductive. That pruning is safe depends on acknowledgements being true wherever
they are: in a carrier's pending slot, on the wire, deferred, or in
writeEndpoint's hands. That a FIN means the end depends on every copy of it
lying at the sender's offset. So `FlowInv` adds:

- `FramesOK`: every frame remembered, in flight, on a wire or queued is data its
  side has read, its FIN at the end, or a true ACK;
- `AcksOK`: every ACK kept or taken claims no more than was delivered, and one
  with the FIN bit only after the whole stream was;
- `ReceiverOK`: a receiver is never ahead of its sender;
- `HistoryOK`: the history covers everything from the acknowledged offset on,
  and the FIN while it is not acknowledged and the flow is open.

The second half of the module is about order: `OrderInvariance` and
`StreamInvariance`, from which follow `StreamImplemented` (below),
`OrderIsKept` (`NeverOutOfOrder`), `CopiesAreComplete`, `HistoryStaysBounded`
and `LossDoesNotInterrupt` (`Uninterrupted`). The truth of frames is not enough
for any of them: what a carrier counts as sent has arrived only if every wire
holds the frames between the receiver and the carrier's place in order and
without a gap, and the queue behind it too. So `OrderInv` says for the history,
the frame in each sendCarrier's hands, each wire and the inbound queue that
frames follow each other (`HistorySeqOK`, `SendingSeqOK`, `WireInOrder`,
`SendingInOrder`, `QueueInOrder`), that their sizes are those that were read
(`SizesOK`), and that a stream whose failures leave a carrier alone ends only
when everything is delivered (`CalmUntilDelivered`). The bytes in the history
are counted as the cardinality of a set of offsets, so that no fold is needed.

`StreamImplemented`: where `FramesFit` holds, the flows implement
RelayedStream; the mapping of section 2 takes the initial states to initial
states and each step to a step or a stutter. Without it the theorem would be
false (section 5).

**ReassemblerProofs** - `SegmentsInvariant` (`SegmentsInv`), `BufferImplemented`
(`ImplementsBuffer`) and `AnswersSame` (`SameAnswers`), for any set of bytes,
window, limit and payloads. `SegmentsInv` is inductive as it stands, but its
steps contain two loops and a sort, and each loop needs an invariant of its own:

- `Passed`: after some segments of the gap loop, the pieces added are disjoint
  from each other and from every segment, have the bytes of the payload, cover
  together with the segments all of the payload below the cursor, and are
  counted;
- `Merged`: after some sorted segments, mergeSegments holds their bytes in
  segments that are apart and end where the last one taken ends, and has not
  panicked.

`LoopExists` and `LoopInvariant` say that a loop has a run and that an invariant
kept by each turn holds after it. They are proved from `EveryNumber`, induction
over a set of naturals, which follows from the well-foundedness of the subset
ordering (`WFMin`) and needs no theorem with an operator parameter.
`WholeFacts` joins segments and pieces; `SortedFacts` says that disjoint
segments sorted by offset follow each other, whatever order the sort gives to
equal ones (there are none). For the refinement, `SegmentRuns` counts: segments
that are apart are the separate runs of the offsets they cover, so the limit on
segments is a limit on runs.

**FlowInboundProofs** - `InboundInvariance`, `ReceivedFramesDelivered`,
`NothingLeftBehind`. The counter of pending frames is exact only together with
where each reader, processLoop and closer is; `HandOverOK` says who of them is
left to carry out a reset that is due, and that a readEndpoint which found no
carrier is right until it resets, as long as none joins.

**PathSessionProofs** - `PathInvariance` and `NoSessionOrphaned`. A path session
is driven by exactly one goroutine (`OneDriver`) whose place the flags
inFlight, retrying and session give away (`DriverOK`); from that follows that
every physical session is owned. The retry counter cannot be compared with the
number of failures once it has stopped to matter, so `FailuresCounted` lets the
two differ after the delay has reached its maximum. The delays are a function
on the naturals; which value it has is proved by induction over a set of
naturals, because the library's induction rule takes an operator.

**StreamOpenProofs** - `GroupInvariance`, `RepliesOnce` (`OneReply`) and
`NeverStartsRefused` (`StartsOrFails`), for any set of interfaces. What an
attempt found when it took `startMu` is still true when it acts on it; that is
`RequestInv`. `LeastNumber` picks the most telling refusal. `RepliesOnce` rests
on replies being written only under `startMu`, each with the failure or the
commit it stands for.

**CarrierSlotProofs** - `SlotInvariance` (`SlotInv`), for any paths and any
number of sessions, path changes, failures, attempts and calls of `reconcile` at
once. A stale call or attempt harms nothing because each step of an attempt
looks for the slot it was started for (`Mine`, the path and the session); what
such a step may do to that slot is `Turned`, proved once to keep the invariant
and then shown of each step. Two facts make it inductive: the carrier of a slot
was started for the slot's path as well as for its session, and a slot that
waits to be retried has neither a carrier nor an attempt in flight, so that the
timer's end cannot leave a flag without an owner. Both are part of `OneCarrier`.

**ServerConnectionsProofs** - `EndsAgree` (`Agreement`),
`ConnectionsInvariance`, `TokensExact` (`PendingExact`) and `TrafficExact`
(`TrafficInv`). What an end of the handshake believes is true of the other only
because of what may be on the wire between them: `ServerKnows` and
`ClientKnows` list, for each message an end waits for, what it can find, so
that no answer is to something it has not said. The tokens need only that an
acceptor's place tells whether it holds one. For the counters `Counted` adds
that no two addresses share an object; that a new one is free is an argument by
cardinality (`NewObjectFacts`): addresses beyond the limit all have a
connection, so the objects in use are no more than the limit and the
connections together.

**ServerStreamsProofs** - `TableInvariant` (`TableInv`), `OneConnection`
(`NoSecondDial`), `TimerSafe` (`TimerSparesStarted`), `PromiseSafe`
(`OpenPromiseKept`), for any virtual streams, identifiers, limits and TTL. That
an identifier is not dialled twice needs to know why the server could have
forgotten it. `ended` is the history of what was closed and when; the list of
closed identifiers rises along the last time each of them was closed (`Rising`,
`Latest`), which is an order of positions and not of the clock, whose ticks are
shared. What rememberClosedLocked evicts from the front has therefore been
followed by all the others of a full list and the new one: Limit of them closed
since (`EvictedLate`). What pruneClosedLocked takes from the front has expired.
`NoSecondDial` becomes inductive with what each stream knew when it was created
being a part of the history (`Dials`). The list is handled by lemmas about
sequences alone (`RisingTail`, `RisingUnlisted`, `RisingAppend`), its length
against the map by cardinality (`RisingLength`).

Only model-checked, and why:

- every liveness property: liveness under fairness is beyond this prover;
- `NeverStuck` (`ENABLED`).

## 5. Where code and documents disagree

1. `inbound_lost_reset` (`stream.go:332`): the result of `releaseInbound` is
   dropped when a closed carrier abandons a frame. If the last other carrier
   detached meanwhile, nobody resets the stream, against "If all active
   carriers disappear, the logical stream closes."
2. `slot_stale_path` (`tcp_group.go:217`): assignCarrierGroup applies a copy of
   the paths after a refresh has applied newer ones, against "every logical TCP
   stream gets one virtual carrier on each healthy session."

Three more disagreements show when a configuration is changed:

- `inbound_lost_reset.cfg` with `Initial = {c1}` and `Closable = {}`:
  writeEndpoint returns even when `resetAfterLastCarrier` declines because a
  carrier joined (`stream.go:362`), so nobody reads what that carrier brings
  and nobody resets when it is gone.
- `slot_stale_path.cfg` with `MaxSessions = 2` and `MaxRefreshes = 0`: a
  reconcile that read the old session overwrites the new one
  (`tcp_group.go:530`) and leaves the slot busy on a dead session.
- `inbound_races.cfg` with `Carrier = {c1}`, `Initial = {c1}`, `Closable = {}`,
  `MayAbort = FALSE` and the invariant `LastFramesDelivered`: a failed last
  carrier leaves the reset to whoever delivers the last frame it brought, but a readEndpoint that has
  something to send resets at once (`stream.go:247,259`) and drops the frames
  that wait. The tests `TestFlowDeliversLastFrameBeforePeerClose` and
  `TestFlowDeliversGracefulEOFTailWhenInboundQueueIsFull` expect such frames to
  be delivered; but their endpoints send nothing meanwhile.

All but the last need a narrow interleaving. Three remarks contradict no
document:

- `docs/configuration.md:204,206` accepts a reorder window below the chunk size,
  and a read longer than the window then waits in `remember` until the carriers
  are gone. `flow_ends` has such reads, and `EventuallyDone` without its
  exception for `Oversized` fails there.
- The two ends are configured independently: a client may read and send more in
  one frame than the server's window takes, and `Push` fails the stream for such
  a frame (`reassembler.go:70`). `Uninterrupted` is stated, and
  `StreamImplemented` proved, for ends whose windows take each other's frames
  (`FramesFit`).
- When the success cannot be written before its deadline, failOpenLocked writes
  a second reply, possibly behind a part of the first, and always a general
  failure, even when a more telling refusal is recorded
  (`tcp_group.go:630-636`): the error is not ErrNoCarriers, so
  `preferredOpenErrorLocked` is not asked.

## 6. Not modelled, and plan

Not modelled for good: codecs and parsers (frames, destinations, the bytes of
SOCKS5, configuration), which are sequential and fuzzed; statistics and the
rendering of a status, HTTP, the web front end, socket options, process start:
no control over the data path. Offsets near 2^64 and the platform tables of
errors are out as well. Cryptography is taken at its word: a MAC proves a
credential.

What is left out of a modelled part:

- an OPEN that times out closes its session and every carrier on it. CarrierSlot
  and StreamOpen follow one stream and show what happens to that one; no
  document promises the others anything.
- a side that has completed closes its carriers while its last acknowledgement
  may be unread, so the peer may end with an error although all was delivered.
  `RelayedStream` allows that end (`MayEnd`).
- the bounded outbound queue of a carrier: one frame is in flight per carrier.

The order followed so far: the stream (FlowPair and its proofs, Reassembler,
FlowInbound), the client's carriers (CarrierSlot, StreamOpen), the server's
table (ServerStreams), the path sessions and their commands, the server's
connections with the handshake, the client's acceptance and shutdown, the
abstract stream, and the proofs of section 4. Every safety property and every
refinement that the passing runs check is proved, but `NeverStuck`. What would
come next are the composition of FlowInbound with the order of FlowPair, whose
two merged races it shows, and more than one frame in the outbound queue of a
carrier.

## Running

    tlc -workers 2 -config flow_faults.cfg MCFlowPair
    tlapm FlowPairProofs.tla

and `tlapm` likewise for the other modules named `...Proofs`.

`PROJECT.json` names module and configuration of every run, maps each
definition to the lines it models, and lists hazards, findings and theorems.
