--------------------------- MODULE ServerStreams ---------------------------
(***************************************************************************)
(* The table of logical streams of the server (internal/serverrole/tcp.go) *)
(* and the goroutines that work on it: one acceptStream per virtual stream *)
(* that a session accepts, the open timer of each logical stream, the      *)
(* goroutine that removes a stream once its flow is done, the maintenance  *)
(* tick and the shutdown.  runtime.mu makes each lock region one step;     *)
(* attachMu is held over several.                                          *)
(*                                                                         *)
(* What a flow does with its carriers is module FlowPair: here it is live, *)
(* its carriers come and go, and at some time after it started it is done. *)
(***************************************************************************)
EXTENDS Integers, Sequences, FiniteSets, Functions, TLC

CONSTANTS
  Conn,        \* the virtual streams that sessions accept
  StreamId,    \* stream identifiers
  Destination, \* what an OPEN asks for: destination and principal
  MaxStreams,  \* cfg.Transfer.TCP.MaxStreams, 0 for unlimited
  MaxPending,  \* cfg.Transfer.TCP.MaxPendingStreams, 0 for unlimited
  MaxCarriers, \* cfg.Transfer.TCP.MaxCarriersPerStream, 0 for unlimited
  SafetyLimit, \* tcpServerClosedCacheSafetyLimit
  TTL,         \* tcpServerClosedTTL
  MaxTime,     \* bound: ticks of the clock
  Nobody       \* attachMu is free

ASSUME ServerAssumption ==
  /\ {MaxStreams, MaxPending, MaxCarriers, MaxTime} \subseteq Nat
  /\ {SafetyLimit, TTL} \subseteq Nat \ {0}
  /\ Nobody \notin Conn /\ IsFiniteSet(Conn)

VARIABLES
  conns,     \* each virtual stream: where acceptStream is, and on which object
  objects,   \* every tcpServerStream created, in order
  streams,   \* runtime.streams: the object of an identifier
  closed,    \* runtime.closed: when each remembered identifier expires
  order,     \* runtime.closedOrder
  now,       \* the clock
  closing,   \* runtime.closing
  cancelled, \* runtime.ctx is done
  doomed,    \* flows that shutdown has listed and not closed yet
  finished,  \* shutdown returned
  ended      \* history: every identifier remembered as closed, with the time

table == <<streams, closed, order, ended>>
control == <<closing, cancelled, doomed, finished>>
vars == <<conns, objects, table, now, control>>

Init ==
  /\ conns = [c \in Conn |-> [at |-> "idle", stream |-> 0]]
  /\ objects = <<>> /\ streams = <<>> /\ closed = <<>> /\ order = <<>>
  /\ now = 0 /\ ended = <<>>
  /\ closing = FALSE /\ cancelled = FALSE /\ doomed = {} /\ finished = FALSE

\* acceptStream is running: the virtual stream counts in pendingStreams.
Pending == {c \in Conn : conns[c].at \in {"open", "dial", "wait", "lock", "write", "attach"}}
Stopping == closing \/ cancelled
Move(c, at) == conns' = [conns EXCEPT ![c].at = at]
Return(c, how) == conns' = [conns EXCEPT ![c] = [at |-> how, stream |-> 0]]
Ready(o) == objects[o].flow # "dialing"

\* A flow that is done has closed its carriers.
DropCarriers(o) ==
  conns' = [c \in Conn |-> IF conns[c] = [at |-> "attached", stream |-> o]
                           THEN [at |-> "closed", stream |-> 0] ELSE conns[c]]

\* startSessionStream: at the limit the virtual stream is closed at once.
Arrive(c) ==
  /\ conns[c].at = "idle" /\ ~Stopping
  /\ Move(c, IF MaxPending > 0 /\ Cardinality(Pending) >= MaxPending
             THEN "closed" ELSE "open")
  /\ UNCHANGED <<objects, table, now, control>>

\* The first frame is missing, is not an OPEN or names no destination.
NoOpen(c) ==
  /\ conns[c].at = "open"
  /\ Return(c, "closed")
  /\ UNCHANGED <<objects, table, now, control>>

-----------------------------------------------------------------------------
(* Closed identifiers.                                                     *)

Limit == IF MaxStreams = 0 THEN SafetyLimit ELSE MaxStreams

\* Mutant of Forget: the list keeps the identifiers.
ForgetFromMap(ids, left) ==
  /\ closed' = [i \in DOMAIN closed \ ids |-> closed[i]]
  /\ UNCHANGED order

\* removeClosedLocked, which leaves these in the list.
Forget(ids, left) ==
  /\ closed' = [i \in DOMAIN closed \ ids |-> closed[i]]
  /\ order' = left

\* The first n identifiers of the list, and the others.
Oldest(n) == {order[m] : m \in 1 .. n}
Later(n) == SubSeq(order, n + 1, Len(order))

\* The list without the element of identifier id, if it has one.
Unlisted(list, id) ==
  IF \E n \in 1 .. Len(list) : list[n] = id
  THEN LET n == CHOOSE m \in 1 .. Len(list) : list[m] = id
       IN SubSeq(list, 1, n - 1) \o SubSeq(list, n + 1, Len(list))
  ELSE list

\* How many of the oldest identifiers make room for id.
Evicted(id) ==
  IF id \in DOMAIN closed \/ Len(order) < Limit THEN 0 ELSE Len(order) - Limit + 1

\* closedOrder with id moved, or added, to the back.
Reordered(id) == Append(Unlisted(Later(Evicted(id)), id), id)

\* rememberClosedLocked, which is skipped once the server is stopping.
RememberClosed(id) ==
  IF Stopping THEN UNCHANGED <<closed, order, ended>>
  ELSE /\ closed' = [i \in (DOMAIN closed \ Oldest(Evicted(id))) \cup {id} |->
                       IF i = id THEN now + TTL ELSE closed[i]]
       /\ order' = Reordered(id)
       /\ ended' = Append(ended, [id |-> id, at |-> now])

\* Mutant of Expired: an identifier expires a tick early.
ExpiredEarly(id) == closed[id] <= now + 1

Expired(id) == closed[id] <= now

\* pruneClosedLocked: from the front, up to the first that has not expired.
PruneClosed ==
  /\ ~cancelled
  /\ \E n \in 1 .. Len(order) :
       /\ \A m \in 1 .. n : Expired(order[m])
       /\ n < Len(order) => ~Expired(order[n + 1])
       /\ Forget(Oldest(n), Later(n))
  /\ UNCHANGED <<conns, objects, streams, now, control, ended>>

-----------------------------------------------------------------------------
(* acceptStream.                                                           *)

\* getOrCreate, first lock region: the OPEN is refused when the server stops,
\* while the identifier is remembered as closed, when it names another
\* destination than the stream it joins, or at MaxStreams.
Refuses(id, destination) ==
  \/ Stopping
  \/ id \in DOMAIN closed /\ ~Expired(id)
  \/ id \in DOMAIN streams /\ objects[streams[id]].destination # destination
  \/ /\ id \notin DOMAIN streams
     /\ MaxStreams > 0 /\ Cardinality(DOMAIN streams) >= MaxStreams

ForgetExpired(id) ==
  IF id \in DOMAIN closed /\ Expired(id) /\ ~Stopping
  THEN Forget({id}, Unlisted(order, id)) ELSE UNCHANGED <<closed, order>>

OpenRefused(c, id, destination) ==
  /\ conns[c].at = "open" /\ Refuses(id, destination)
  /\ Return(c, "closed")
  /\ ForgetExpired(id)
  /\ UNCHANGED <<objects, streams, now, control, ended>>

\* Another carrier of a stream that exists, or that is being dialled.
OpenJoins(c, id, destination) ==
  /\ conns[c].at = "open" /\ ~Refuses(id, destination)
  /\ id \in DOMAIN streams
  /\ conns' = [conns EXCEPT ![c] = [at |-> "wait", stream |-> streams[id]]]
  /\ ForgetExpired(id)
  /\ UNCHANGED <<objects, streams, now, control, ended>>

\* A stream of its own; born records what was known when it was created.
OpenCreates(c, id, destination) ==
  /\ conns[c].at = "open" /\ ~Refuses(id, destination)
  /\ id \notin DOMAIN streams
  /\ objects' = Append(objects,
       [id |-> id, destination |-> destination, flow |-> "dialing",
        started |-> FALSE, timer |-> "off", mu |-> Nobody, removed |-> "no",
        expired |-> FALSE, born |-> [at |-> now, after |-> Len(ended)]])
  /\ conns' = [conns EXCEPT ![c] = [at |-> "dial", stream |-> Len(objects')]]
  /\ streams' = [i \in DOMAIN streams \cup {id} |->
                   IF i = id THEN Len(objects') ELSE streams[i]]
  /\ ForgetExpired(id)
  /\ UNCHANGED <<now, control, ended>>

Without(id) == [i \in DOMAIN streams \ {id} |-> streams[i]]

\* The destination cannot be reached; every carrier that waits is refused.
DialFails(c) ==
  LET o == conns[c].stream IN
  /\ conns[c].at = "dial"
  /\ objects' = [objects EXCEPT ![o].flow = "failed"]
  /\ streams' = Without(objects[o].id)
  /\ RememberClosed(objects[o].id)
  /\ Return(c, "closed")
  /\ UNCHANGED <<now, control>>

\* Mutant of DialAbandoned: what changed during the dial is not looked at.
DialAbandonedNever == FALSE

\* The server began to stop during the dial.
DialAbandoned == Stopping

\* The endpoint is connected: it becomes a flow with an open timer, unless
\* the server is stopping, which closes it.
DialSucceeds(c) ==
  LET o == conns[c].stream IN
  /\ conns[c].at = "dial"
  /\ IF DialAbandoned
     THEN /\ objects' = [objects EXCEPT ![o].flow = "failed"]
          /\ streams' = Without(objects[o].id)
          /\ Return(c, "closed")
     ELSE /\ objects' = [objects EXCEPT ![o].flow = "live", ![o].timer = "armed"]
          /\ Move(c, "lock")
          /\ UNCHANGED streams
  /\ UNCHANGED <<closed, order, ended, now, control>>

\* A waiting carrier: the dial is over, or the context is done.
WaitEnds(c) ==
  /\ conns[c].at = "wait"
  /\ \/ /\ Ready(conns[c].stream)
        /\ IF objects[conns[c].stream].flow = "failed" THEN Return(c, "closed")
                                                       ELSE Move(c, "lock")
     \/ /\ cancelled
        /\ Return(c, "closed")
  /\ UNCHANGED <<objects, table, now, control>>

\* CarrierCount against the limit.
Carriers(o) == {c \in Conn : conns[c] = [at |-> "attached", stream |-> o]}
Full(o) == MaxCarriers > 0 /\ Cardinality(Carriers(o)) >= MaxCarriers

\* Mutant of MuFree: acceptStream does not wait for attachMu.
MuFreeAlways(o) == TRUE

MuFree(o) == objects[o].mu = Nobody

\* Under attachMu the stream must still be usable and have room for a carrier.
AttachBegins(c) ==
  LET o == conns[c].stream IN
  /\ conns[c].at = "lock" /\ MuFree(o)
  /\ IF Stopping \/ objects[o].flow = "done" \/ Full(o)
     THEN /\ Return(c, "closed")
          /\ UNCHANGED objects
     ELSE /\ Move(c, "write")
          /\ objects' = [objects EXCEPT ![o].mu = c]
  /\ UNCHANGED <<table, now, control>>

\* Mutant of WriteResult: a failed write returns with attachMu locked.
WriteResultKeepsLock(c) ==
  /\ conns[c].at = "write"
  /\ Move(c, "attach") \/ Return(c, "closed")
  /\ UNCHANGED <<objects, table, now, control>>

\* The successful OPEN_RESULT is written, or the carrier breaks under it.
WriteResult(c) ==
  /\ conns[c].at = "write"
  /\ \/ /\ Move(c, "attach")
        /\ UNCHANGED objects
     \/ /\ Return(c, "closed")
        /\ objects' = [objects EXCEPT ![conns[c].stream].mu = Nobody]
  /\ UNCHANGED <<table, now, control>>

\* timer.Stop: a callback that has begun is not taken back.
Stopped(timer) == IF timer = "armed" THEN "off" ELSE timer

\* The carrier is attached and the flow started, unless the flow is done or
\* has, after all, no room.
Attach(c) ==
  LET o == conns[c].stream IN
  /\ conns[c].at = "attach"
  /\ IF objects[o].flow = "done" \/ Full(o)
     THEN /\ Return(c, "closed")
          /\ objects' = [objects EXCEPT ![o].mu = Nobody]
     ELSE /\ Move(c, "attached")
          /\ objects' = [objects EXCEPT ![o].mu = Nobody, ![o].started = TRUE,
                                        ![o].timer = Stopped(@)]
  /\ UNCHANGED <<table, now, control>>

-----------------------------------------------------------------------------
(* The streams.                                                            *)

TimerFires(o) ==
  /\ objects[o].timer = "armed"
  /\ objects' = [objects EXCEPT ![o].timer = "fired"]
  /\ UNCHANGED <<conns, table, now, control>>

\* Mutant of MayExpire: the timer does not ask whether the stream started.
MayExpireStarted(o) == objects[o].flow # "done"

MayExpire(o) == objects[o].flow # "done" /\ ~objects[o].started

\* expireUnstartedStream, under attachMu; expired records what it reset.
Expire(o) ==
  /\ objects[o].timer = "fired" /\ objects[o].mu = Nobody
  /\ objects' = [objects EXCEPT ![o].timer = "off",
                   ![o].flow = IF MayExpire(o) THEN "done" ELSE @,
                   ![o].expired = MayExpire(o)]
  /\ UNCHANGED <<conns, table, now, control>>

\* A carrier of a stream is lost or closed.
CarrierGone(c) ==
  /\ conns[c].at = "attached"
  /\ Return(c, "closed")
  /\ UNCHANGED <<objects, table, now, control>>

\* A stream that has started ends, for any reason of module FlowPair.
FlowEnds(o) ==
  /\ objects[o].flow = "live" /\ objects[o].started
  /\ objects' = [objects EXCEPT ![o].flow = "done"]
  /\ DropCarriers(o)
  /\ UNCHANGED <<table, now, control>>

\* The goroutine that waits for flow.Done stops the timer ...
RemoveBegins(o) ==
  /\ objects[o].flow = "done" /\ objects[o].removed = "no"
  /\ objects[o].mu = Nobody
  /\ objects' = [objects EXCEPT ![o].timer = Stopped(@), ![o].removed = "timer"]
  /\ UNCHANGED <<conns, table, now, control>>

\* ... and takes the stream out of the table.
Remove(o) ==
  LET id == objects[o].id IN
  /\ objects[o].removed = "timer"
  /\ objects' = [objects EXCEPT ![o].removed = "yes"]
  /\ streams' = IF id \in DOMAIN streams /\ streams[id] = o THEN Without(id)
                                                          ELSE streams
  /\ RememberClosed(id)
  /\ UNCHANGED <<conns, now, control>>

-----------------------------------------------------------------------------
(* Shutdown and the clock.                                                 *)

\* The context is cancelled, from outside or by shutdown.
Cancel ==
  /\ ~cancelled /\ cancelled' = TRUE
  /\ UNCHANGED <<conns, objects, table, now, closing, doomed, finished>>

\* shutdown lists the flows under its lock ...
ShutdownBegins ==
  /\ ~closing /\ closing' = TRUE
  /\ doomed' = {o \in Range(streams) : objects[o].flow # "dialing"}
  /\ UNCHANGED <<conns, objects, table, now, cancelled, finished>>

\* ... closes them once the context is cancelled ...
CloseFlow(o) ==
  /\ closing /\ cancelled /\ o \in doomed
  /\ doomed' = doomed \ {o}
  /\ objects' = [objects EXCEPT ![o].flow = "done"]
  /\ DropCarriers(o)
  /\ UNCHANGED <<table, now, closing, cancelled, finished>>

\* ... and returns when streamWG and flowWG are zero.
ShutdownReturns ==
  /\ closing /\ cancelled /\ doomed = {} /\ ~finished
  /\ Pending = {}
  /\ \A o \in DOMAIN objects : objects[o].flow = "failed" \/ objects[o].removed = "yes"
  /\ finished' = TRUE
  /\ streams' = <<>> /\ closed' = <<>> /\ order' = <<>>
  /\ UNCHANGED <<conns, objects, now, closing, cancelled, doomed, ended>>

Tick ==
  /\ now < MaxTime /\ ~Stopping
  /\ now' = now + 1
  /\ UNCHANGED <<conns, objects, table, control>>

Open(c) == \E id \in StreamId, destination \in Destination :
             \/ OpenRefused(c, id, destination)
             \/ OpenJoins(c, id, destination)
             \/ OpenCreates(c, id, destination)

\* One goroutine each.
AcceptStream(c) ==
  \/ NoOpen(c) \/ Open(c) \/ DialFails(c) \/ DialSucceeds(c) \/ WaitEnds(c)
  \/ AttachBegins(c) \/ WriteResult(c) \/ Attach(c)
OpenTimer(o) == TimerFires(o) \/ Expire(o)
Remover(o) == RemoveBegins(o) \/ Remove(o)
Shutdown == (closing /\ Cancel) \/ (\E o \in doomed : CloseFlow(o)) \/ ShutdownReturns

Next ==
  \/ \E c \in Conn : Arrive(c) \/ AcceptStream(c) \/ CarrierGone(c)
  \/ \E o \in DOMAIN objects : OpenTimer(o) \/ FlowEnds(o) \/ Remover(o)
  \/ Cancel \/ ShutdownBegins \/ Shutdown \/ PruneClosed \/ Tick

Spec == Init /\ [][Next]_vars

\* Every goroutine keeps running, a dial and a write end by their timeouts and
\* Shutdown, once begun, goes on.  Nothing makes a stream end, the server stop
\* or the clock move.
Fairness ==
  /\ \A c \in Conn : WF_vars(AcceptStream(c))
  /\ \A o \in 1 .. Cardinality(Conn) : WF_vars(o \in DOMAIN objects /\ Remover(o))
  /\ WF_vars(Shutdown)

\* The open timer fires after its timeout.
TimerFairness ==
  \A o \in 1 .. Cardinality(Conn) : WF_vars(o \in DOMAIN objects /\ OpenTimer(o))

FairSpec == Spec /\ Fairness

-----------------------------------------------------------------------------
(* Properties.                                                             *)

\* A logical stream of the table (tcpServerStream).
Object == [id : StreamId, destination : Destination,
           flow : {"dialing", "live", "done", "failed"}, started : BOOLEAN,
           timer : {"off", "armed", "fired"}, mu : Conn \cup {Nobody},
           removed : {"no", "timer", "yes"}, expired : BOOLEAN,
           born : [at : Nat, after : Nat]]

ConnsOK ==
  /\ conns \in [Conn -> [at : {"idle", "open", "dial", "wait", "lock", "write",
                               "attach", "attached", "closed"}, stream : Nat]]
  /\ \A c \in Conn : IF conns[c].at \in {"idle", "open", "closed"}
                     THEN conns[c].stream = 0
                     ELSE conns[c].stream \in DOMAIN objects

\* Type correctness, with the limits the configuration sets: logical streams
\* (MaxStreams) and virtual streams whose OPEN is being processed (MaxPending).
TypeOK ==
  /\ ConnsOK
  /\ objects \in Seq(Object)
  /\ streams \in [DOMAIN streams -> DOMAIN objects]
  /\ DOMAIN streams \subseteq StreamId /\ IsFiniteSet(DOMAIN streams)
  /\ closed \in [DOMAIN closed -> Nat] /\ order \in Seq(StreamId)
  /\ ended \in Seq([id : StreamId, at : Nat]) /\ now \in 0 .. MaxTime
  /\ {closing, cancelled, finished} \subseteq BOOLEAN
  /\ doomed \subseteq DOMAIN objects
  /\ MaxStreams > 0 => Cardinality(DOMAIN streams) <= MaxStreams
  /\ MaxPending > 0 => Cardinality(Pending) <= MaxPending

\* A stream that is not connected has no timer and no carrier, one that was
\* expired never had any, and one that is being removed is done.
ObjectOK(s) ==
  /\ s.flow \in {"dialing", "failed"} => s.timer = "off" /\ ~s.started
  /\ s.expired => s.flow = "done" /\ ~s.started
  /\ s.removed # "no" => s.flow = "done" /\ s.timer # "armed"

\* The table holds exactly the streams that are not over, each under its own
\* identifier; shutdown lists none that is still being dialled.
ObjectsOK ==
  /\ \A o \in DOMAIN objects :
       /\ ObjectOK(objects[o])
       /\ (objects[o].flow # "failed" /\ objects[o].removed # "yes") <=>
            (objects[o].id \in DOMAIN streams /\ streams[objects[o].id] = o)
  /\ \A i \in DOMAIN streams : objects[streams[i]].id = i
  /\ \A o \in doomed : objects[o].flow \in {"live", "done"}

\* One acceptStream dials a stream; a carrier goes on with a stream that is
\* connected; between its check and AttachLimited it holds attachMu.
CarriersOK ==
  \A c \in Conn :
    /\ conns[c].at = "dial" =>
         /\ objects[conns[c].stream].flow = "dialing"
         /\ \A d \in Conn : (conns[d].at = "dial" /\ conns[d].stream = conns[c].stream) => d = c
    /\ conns[c].at \in {"lock", "write", "attach", "attached"} =>
         objects[conns[c].stream].flow \in {"live", "done"}
    /\ conns[c].at \in {"write", "attach"} =>
         objects[conns[c].stream].mu = c /\ ~Full(conns[c].stream)

\* When identifier id was last remembered as closed, among the first n times of
\* history h, and which identifiers were after the k-th.
LastEnded(h, id, n) == {k \in 1 .. n : /\ h[k].id = id
                                       /\ \A m \in k + 1 .. n : h[m].id # id}
EndedAfter(h, k, n) == {h[m].id : m \in k + 1 .. n}

\* The list of closed identifiers holds exactly the remembered ones, each once
\* and in the order in which they were last closed, so oldest expiry first -
\* which is what lets pruneClosedLocked stop at the first that has not expired
\* and rememberClosedLocked evict from the front - and never more than the limit.
ClosedInOrder ==
  /\ Range(order) = DOMAIN closed /\ Len(order) = Cardinality(DOMAIN closed)
  /\ Len(order) <= Limit
  /\ \A m, n \in DOMAIN order : m < n => closed[order[m]] <= closed[order[n]]
  /\ \A m \in DOMAIN order : \E k \in LastEnded(ended, order[m], Len(ended)) :
       /\ closed[order[m]] = ended[k].at + TTL
       /\ \A n \in m + 1 .. Len(order) :
            \A l \in LastEnded(ended, order[n], Len(ended)) : k < l
  /\ \A m, n \in DOMAIN ended : m < n => ended[m].at <= ended[n].at
  /\ \A m \in DOMAIN ended : ended[m].at <= now

\* Until the server stops it knows every identifier it has served: it is in the
\* table, or remembered, or was forgotten after its TTL or for Limit others.
NothingForgotten ==
  ~Stopping =>
    /\ \A o \in DOMAIN objects :
         (objects[o].flow = "failed" \/ objects[o].removed = "yes") =>
           LastEnded(ended, objects[o].id, Len(ended)) # {}
    /\ \A i \in StreamId : \A k \in LastEnded(ended, i, Len(ended)) :
         \/ i \in DOMAIN closed /\ closed[i] = ended[k].at + TTL
         \/ now >= ended[k].at + TTL
         \/ Cardinality(EndedAfter(ended, k, Len(ended))) >= Limit

\* The table is well-formed: types and limits, what its streams and carriers
\* may be doing, and what it remembers of the streams that are over.
TableInv == TypeOK /\ ObjectsOK /\ CarriersOK /\ ClosedInOrder /\ NothingForgotten

\* One stream, one connection to the destination: the server creates a stream
\* for an identifier it has served before only when the earlier one is over
\* and its TTL has passed, or when Limit other identifiers closed since.  An
\* OPEN delayed by a slow path joins the stream or is refused (getOrCreate).
NoSecondDial ==
  \A o, p \in DOMAIN objects :
    (o < p /\ objects[o].id = objects[p].id) =>
      /\ objects[o].flow \in {"failed", "done"}
      /\ \E k \in LastEnded(ended, objects[p].id, objects[p].born.after) :
           \/ objects[p].born.at >= ended[k].at + TTL
           \/ Cardinality(EndedAfter(ended, k, objects[p].born.after)) >= Limit

\* A carrier whose OPEN was answered with success is not turned away for the
\* carrier limit any more: attachMu spans acceptStream's check, its answer and
\* AttachLimited, however many OPENs of the stream there are at once.
OpenPromiseKept == \A c \in Conn : conns[c].at = "attach" => ~Full(conns[c].stream)

\* The open timer never resets a stream that a carrier has started, however
\* the callback and the OPEN race for attachMu (expireUnstartedStream), and
\* never fires for one that has been removed.
TimerSparesStarted ==
  \A o \in DOMAIN objects :
    /\ ~(objects[o].expired /\ objects[o].started)
    /\ objects[o].removed = "yes" => objects[o].timer # "armed"

\* If the open timers fire, every OPEN is answered, and a stream whose carriers
\* all failed before they were attached does not keep its connection to the
\* destination (acceptStream, expireUnstartedStream).
EveryOpenSettles ==
  TimerFairness =>
    /\ \A c \in Conn : (c \in Pending) ~> (c \notin Pending)
    /\ \A o \in 1 .. Cardinality(Conn) :
         (o \in DOMAIN objects) ~> (/\ o \in DOMAIN objects
                                    /\ \/ objects[o].started
                                       \/ objects[o].flow \in {"failed", "done"})

\* shutdown returns, and without waiting for the open timers: no dial, carrier
\* or flow escapes the list it made while the others were still running.
ShutdownCompletes == closing ~> finished
=============================================================================
