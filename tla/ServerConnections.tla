------------------------- MODULE ServerConnections -------------------------
(***************************************************************************)
(* The server's physical connections (internal/serverrole/tcp.go): the     *)
(* accept loop of runTCP with the semaphore of pending handshakes, one     *)
(* acceptor goroutine per connection, the registries of connections and    *)
(* sessions, the cache of traffic counters per client address, and the     *)
(* shutdown.  The handshake itself is module Handshake, whose server end   *)
(* the acceptors run.  runtime.mu makes each lock region one step.         *)
(*                                                                         *)
(* The virtual streams that a session carries are module ServerStreams.    *)
(* Expiry of counters is not timed: the clock is read outside the lock, so *)
(* maintenance may find any prefix of the inactive list expired.           *)
(***************************************************************************)
EXTENDS Handshake, SequencesExt

CONSTANTS
  Address,      \* client addresses
  Allowed,      \* those in the server's client allow list
  MaxPending,   \* cfg.Transfer.TCP.MaxPendingConnections, 0 for unlimited
  MaxSessions,  \* cfg.Transfer.TCP.MaxSessions, 0 for unlimited
  TrafficLimit  \* trafficLimit()

ASSUME ConnectionsAssumption ==
  /\ {MaxPending, MaxSessions} \subseteq Nat
  /\ TrafficLimit \in Nat \ {0}
  /\ IsFiniteSet(Conn) /\ Allowed \subseteq Address
  /\ \A p \in Peers : p.address \in [Conn -> Address]

VARIABLES
  address,     \* address[c]: where the client of c dials from
  at,          \* at[c]: how far the acceptor of c is
  loop,        \* the accept loop: "accept", "start", "stopping", "closing", "done"
  pending,     \* tokens in runtime.pending
  connections, \* runtime.connections: the registered connections
  sessions,    \* runtime.sessions: the connections whose session is served
  held,        \* tcpServerConn.traffic: the counters c was counted in, if any
  active,      \* the active field of each counters object
  traffic,     \* runtime.traffic: the object of an address
  inactive,    \* runtime.inactiveTraffic: addresses, least recently used first
  cancelled,   \* runtime.ctx is done
  doomed       \* connections that shutdown has listed and not closed yet

registryVars == <<connections, sessions>>
trafficVars == <<held, active, traffic, inactive>>
stopVars == <<cancelled, doomed, address>>
vars == <<handshakeVars, at, loop, pending, registryVars, trafficVars, stopVars>>

\* Counters objects: those of the table, those still held, and a new one.
Object == 1 .. TrafficLimit + Cardinality(Conn) + 1

Init ==
  /\ HandshakeInit
  /\ \E p \in Peers : /\ p.required = required /\ p.credentials = credentials
                      /\ address = p.address
  /\ at = [c \in Conn |-> "idle"] /\ loop = "accept" /\ pending = 0
  /\ connections = {} /\ sessions = {}
  /\ held = [c \in Conn |-> {}] /\ active = [o \in Object |-> 0]
  /\ traffic = <<>> /\ inactive = <<>>
  /\ cancelled = FALSE /\ doomed = {}

Closing == loop \in {"closing", "done"}
Stopping == Closing \/ cancelled
Move(c, where) == at' = [at EXCEPT ![c] = where]

-----------------------------------------------------------------------------
(* The cache of traffic counters.                                          *)

\* How many addresses trimTrafficLocked takes from the front of the inactive
\* list: until the table fits, or nobody is left to go.
Excess(table, list) ==
  LET excess == Cardinality(DOMAIN table) - TrafficLimit
  IN IF excess <= 0 THEN 0
     ELSE IF excess < Len(list) THEN excess ELSE Len(list)

\* The n least recently used addresses go.
Drop(table, list, n) ==
  /\ traffic' = [a \in DOMAIN table \ {list[i] : i \in 1 .. n} |-> table[a]]
  /\ inactive' = SubSeq(list, n + 1, Len(list))

Trim(table, list) == Drop(table, list, Excess(table, list))

\* The list without the element of address a, if it has one.
Without(list, a) ==
  IF \E i \in 1 .. Len(list) : list[i] = a
  THEN LET i == CHOOSE j \in 1 .. Len(list) : list[j] = a
       IN SubSeq(list, 1, i - 1) \o SubSeq(list, i + 1, Len(list))
  ELSE list

\* Mutant of Counts: a connection that was closed meanwhile is counted too.
CountsAnyway(c) == held[c] = {}

\* Only a connection that is still registered is counted.
Counts(c) == c \in connections /\ held[c] = {}

NewObject == CHOOSE o \in Object : o \notin Range(traffic) \cup UNION Range(held)

\* trafficForConnection: the counters of the address are found or created and
\* become the most recently used ones, or the connection is counted in them.
TakeTraffic(c) ==
  LET a     == address[c]
      o     == IF a \in DOMAIN traffic THEN traffic[a] ELSE NewObject
      count == (IF a \in DOMAIN traffic THEN active[o] ELSE 0)
                 + (IF Counts(c) THEN 1 ELSE 0)
      table == [b \in DOMAIN traffic \cup {a} |-> IF b = a THEN o ELSE traffic[b]]
      rest  == Without(inactive, a)
  IN /\ held' = [held EXCEPT ![c] = IF Counts(c) THEN {o} ELSE @]
     /\ active' = [active EXCEPT ![o] = count]
     /\ Trim(table, IF count > 0 THEN rest ELSE Append(rest, a))

\* connectionClosed: the connection is no longer counted; the last one leaves
\* the counters in the inactive list.
ConnectionClosed(c) ==
  LET a == address[c] IN
  /\ "server" \in closedEnds[c] /\ c \in connections
  /\ connections' = connections \ {c}
  /\ held' = [held EXCEPT ![c] = {}]
  /\ active' = [o \in DOMAIN active |->
                  IF o \in held[c] THEN active[o] - 1 ELSE active[o]]
  /\ IF \E o \in held[c] : active[o] = 1
     THEN IF a \in DOMAIN traffic /\ traffic[a] \in held[c]
          THEN Trim(traffic, Append(Without(inactive, a), a))
          ELSE Trim(traffic, inactive)
     ELSE UNCHANGED <<traffic, inactive>>
  /\ UNCHANGED <<handshakeVars, at, loop, pending, sessions, stopVars>>

\* pruneTrafficLocked, from maintain or status.
PruneTraffic ==
  /\ \E n \in 1 .. Len(inactive) : Drop(traffic, inactive, n)
  /\ UNCHANGED <<handshakeVars, at, loop, pending, registryVars, held, active,
                 stopVars>>

-----------------------------------------------------------------------------
(* The accept loop.                                                        *)

\* A dialled connection gets a token and becomes the loop's, or is closed.
Accept(c) ==
  /\ loop = "accept" /\ at[c] = "idle" /\ client[c] # "idle"
  /\ IF MaxPending > 0 /\ pending >= MaxPending
     THEN /\ Move(c, "returned")
          /\ CloseServer(c)
          /\ UNCHANGED <<loop, pending>>
     ELSE /\ Move(c, "start") /\ loop' = "start" /\ pending' = pending + 1
          /\ UNCHANGED <<toServer, closedEnds>>
  /\ UNCHANGED <<peerVars, toClient, registryVars, trafficVars, stopVars>>

\* startAccept: a server that stops closes the connection, else an acceptor
\* starts.
StartAccept(c) ==
  /\ loop = "start" /\ at[c] = "start"
  /\ loop' = "accept"
  /\ IF Stopping
     THEN /\ Move(c, "returned") /\ pending' = pending - 1
          /\ CloseServer(c)
          /\ UNCHANGED connections
     ELSE /\ Move(c, "checks") /\ connections' = connections \cup {c}
          /\ UNCHANGED <<pending, toServer, closedEnds>>
  /\ UNCHANGED <<peerVars, toClient, sessions, trafficVars, stopVars>>

\* The listener fails, or was closed because the context is done.
AcceptFails ==
  /\ loop = "accept" /\ loop' = "stopping"
  /\ UNCHANGED <<handshakeVars, at, pending, registryVars, trafficVars, stopVars>>

-----------------------------------------------------------------------------
(* acceptWithHandshakeDone.                                                *)

\* A server that stops or an address that is not allowed: closed at once.
Check(c) ==
  /\ at[c] = "checks"
  /\ IF Stopping \/ address[c] \notin Allowed
     THEN /\ Move(c, "refused") /\ CloseServer(c)
          /\ UNCHANGED <<peerVars, toClient>>
     ELSE Move(c, "handshake") /\ ServerStarts(c)
  /\ UNCHANGED <<loop, pending, registryVars, trafficVars, stopVars>>

\* AcceptSession, message by message.
Shake(c) ==
  /\ at[c] = "handshake" /\ ServerHandshake(c)
  /\ UNCHANGED <<at, loop, pending, registryVars, trafficVars, stopVars>>
ShakeTimeout(c) ==
  /\ at[c] = "handshake" /\ ServerTimeout(c)
  /\ UNCHANGED <<at, loop, pending, registryVars, trafficVars, stopVars>>

\* It failed, or there was none: once Close has returned, so does the acceptor.
GiveUp(c) ==
  /\ \/ at[c] = "refused"
     \/ at[c] = "handshake" /\ server[c] = "failed"
  /\ c \notin connections
  /\ Move(c, "returned")
  /\ pending' = pending - 1
  /\ UNCHANGED <<handshakeVars, loop, registryVars, trafficVars, stopVars>>

\* finishHandshake: the connection does not count as pending any more.
FinishHandshake(c) ==
  /\ at[c] = "handshake" /\ server[c] = "session"
  /\ Move(c, "traffic")
  /\ pending' = pending - 1
  /\ UNCHANGED <<handshakeVars, loop, registryVars, trafficVars, stopVars>>

TrafficForConnection(c) ==
  /\ at[c] = "traffic"
  /\ Move(c, "admit")
  /\ TakeTraffic(c)
  /\ UNCHANGED <<handshakeVars, loop, pending, registryVars, stopVars>>

\* The session is registered unless the server stops or has MaxSessions.
Admit(c) ==
  /\ at[c] = "admit"
  /\ IF Stopping \/ (MaxSessions > 0 /\ Cardinality(sessions) >= MaxSessions)
     THEN Move(c, "leaving") /\ UNCHANGED sessions
     ELSE Move(c, "serving") /\ sessions' = sessions \cup {c}
  /\ UNCHANGED <<handshakeVars, loop, pending, connections, trafficVars, stopVars>>

StopServing(c) ==
  /\ at[c] = "serving"
  /\ Move(c, "leaving") /\ sessions' = sessions \ {c}
  /\ UNCHANGED <<handshakeVars, loop, pending, connections, trafficVars, stopVars>>

\* AcceptStream fails once an end is closed.
ServeEnds(c) == closedEnds[c] # {} /\ StopServing(c)

\* A virtual stream arrives while the server stops: startSessionStream refuses.
StreamRefused(c) == Stopping /\ StopServing(c)

\* The deferred session.Close closes the connection ...
LeaveCloses(c) ==
  /\ at[c] = "leaving" /\ "server" \notin closedEnds[c]
  /\ Move(c, "closing") /\ CloseServer(c)
  /\ UNCHANGED <<peerVars, toClient, loop, pending, registryVars, trafficVars, stopVars>>

\* Mutant of Leaves: finishHandshake has forgotten that it was called.
LeavesTwice == pending > 0 /\ pending' = pending - 1

\* The deferred finishHandshake finds the token returned.
Leaves == UNCHANGED pending

\* ... and waits for it, unless somebody else has begun to close the session.
Leave(c) ==
  /\ \/ at[c] = "leaving" /\ "server" \in closedEnds[c]
     \/ at[c] = "closing" /\ c \notin connections
  /\ Move(c, "returned")
  /\ Leaves
  /\ UNCHANGED <<handshakeVars, loop, registryVars, trafficVars, stopVars>>

\* smux closes a session whose peer is silent for too long.
KeepaliveFails(c) ==
  /\ server[c] = "session" /\ "server" \notin closedEnds[c]
  /\ CloseServer(c)
  /\ UNCHANGED <<peerVars, toClient, at, loop, pending, registryVars, trafficVars, stopVars>>

-----------------------------------------------------------------------------
(* Shutdown.                                                               *)

Cancel ==
  /\ ~cancelled /\ cancelled' = TRUE
  /\ UNCHANGED <<handshakeVars, at, loop, pending, registryVars, trafficVars, address, doomed>>

\* Mutant of Listed: shutdown forgets connections without a session.
ListedSessions == sessions

Listed == connections

\* shutdown lists what to close under its lock, and cancels the context.
ShutdownBegins ==
  /\ loop = "stopping" /\ loop' = "closing"
  /\ doomed' = Listed
  /\ cancelled' = TRUE
  /\ UNCHANGED <<handshakeVars, at, pending, registryVars, trafficVars, address>>

\* Each listed connection is closed, if nobody has begun to close it ...
CloseListed(c) ==
  /\ c \in doomed /\ "server" \notin closedEnds[c]
  /\ CloseServer(c)
  /\ UNCHANGED <<peerVars, toClient, at, loop, pending, registryVars, trafficVars, stopVars>>

\* ... and Close returns once it is out of the registry.
ListedClosed(c) ==
  /\ c \in doomed /\ c \notin connections
  /\ doomed' = doomed \ {c}
  /\ UNCHANGED <<handshakeVars, at, loop, pending, registryVars, trafficVars, address, cancelled>>

\* acceptWG is zero: what is left is dropped.
ShutdownReturns ==
  /\ loop = "closing" /\ doomed = {}
  /\ \A c \in Conn : at[c] \in {"idle", "returned"}
  /\ loop' = "done"
  /\ connections' = {} /\ sessions' = {} /\ traffic' = <<>> /\ inactive' = <<>>
  /\ UNCHANGED <<handshakeVars, at, pending, held, active, stopVars>>

-----------------------------------------------------------------------------
Client(c) ==
  /\ ClientHandshake(c)
  /\ UNCHANGED <<at, loop, pending, registryVars, trafficVars, stopVars>>

\* Clients dial, give up and close sessions when they like.
ClientChooses(c) ==
  /\ Dial(c) \/ ClientTimeout(c) \/ ClientCloses(c)
  /\ UNCHANGED <<at, loop, pending, registryVars, trafficVars, stopVars>>

Acceptor(c) ==
  \/ Check(c) \/ Shake(c) \/ GiveUp(c) \/ FinishHandshake(c)
  \/ TrafficForConnection(c) \/ Admit(c) \/ ServeEnds(c)
  \/ LeaveCloses(c) \/ Leave(c)

Shutdown ==
  \/ ShutdownBegins \/ ShutdownReturns
  \/ \E c \in Conn : CloseListed(c) \/ ListedClosed(c)

Next ==
  \/ \E c \in Conn :
       \/ Client(c) \/ ClientChooses(c)
       \/ Accept(c) \/ StartAccept(c) \/ Acceptor(c) \/ ShakeTimeout(c)
       \/ StreamRefused(c) \/ ConnectionClosed(c) \/ KeepaliveFails(c)
  \/ AcceptFails \/ Cancel \/ Shutdown \/ PruneTraffic

Spec == Init /\ [][Next]_vars

\* Goroutines keep running; the listener fails once the context is done.
Fairness ==
  /\ \A c \in Conn : /\ WF_vars(Acceptor(c)) /\ WF_vars(ConnectionClosed(c))
                     /\ WF_vars(StartAccept(c))
  /\ WF_vars(cancelled /\ AcceptFails)
  /\ WF_vars(Shutdown)

\* openTimeoutMillis is positive: a deadline that was set passes.
Deadlines == \A c \in Conn : WF_vars(ShakeTimeout(c))

FairSpec == Spec /\ Fairness

-----------------------------------------------------------------------------
(* Properties.                                                             *)

\* Type correctness, with the limit of established sessions.
TypeOK ==
  /\ HandshakeTypeOK
  /\ address \in [Conn -> Address]
  /\ at \in [Conn -> {"idle", "start", "checks", "refused", "handshake", "traffic",
                     "admit", "serving", "leaving", "closing", "returned"}]
  /\ loop \in {"accept", "start", "stopping", "closing", "done"}
  /\ pending \in Nat /\ cancelled \in BOOLEAN
  /\ connections \subseteq Conn /\ sessions \subseteq Conn /\ doomed \subseteq Conn
  /\ held \in [Conn -> SUBSET Object] /\ active \in [Object -> Nat]
  /\ DOMAIN traffic \subseteq Address /\ IsFiniteSet(DOMAIN traffic)
  /\ traffic \in [DOMAIN traffic -> Object]
  /\ inactive \in Seq(Address)
  /\ MaxSessions > 0 => Cardinality(sessions) <= MaxSessions
  /\ loop = "done" =>
       /\ connections = {} /\ inactive = <<>>
       /\ \A c \in Conn : at[c] \in {"idle", "returned"}

\* Connections between the accept loop and the end of their handshake.
Pending == {c \in Conn : at[c] \in {"start", "checks", "handshake", "refused"}}

\* Every pending connection holds one token of the semaphore, and nobody else:
\* a token is neither lost (the server would stop to accept) nor returned
\* twice (the acceptor would block on the empty channel).
PendingExact ==
  /\ pending = Cardinality(Pending)
  /\ MaxPending > 0 => pending <= MaxPending

\* What is established before the shutdown has dropped everything: no two
\* addresses share counters, and a connection is counted once.
Counted ==
  /\ \A o \in Object : active[o] = Cardinality({c \in Conn : o \in held[c]})
  /\ \A c \in Conn : \A o \in held[c] :
       c \in connections /\ address[c] \in DOMAIN traffic /\ traffic[address[c]] = o
  /\ \A a, b \in DOMAIN traffic : traffic[a] = traffic[b] => a = b
  /\ ToSet(inactive) = {a \in DOMAIN traffic : active[traffic[a]] = 0}
  /\ \A i, j \in 1 .. Len(inactive) : inactive[i] = inactive[j] => i = j
  /\ Cardinality(DOMAIN traffic) > TrafficLimit => inactive = <<>>

\* The counters of an address count exactly the registered connections that
\* were counted in them; they are in the inactive list, once, when that is
\* none; a connection's counters are the ones the table shows; and beyond the
\* limit only addresses with a connection stay.
TrafficInv == loop # "done" => Counted

\* The inductive invariant of the server's connections.
ConnectionsInv == ExchangeInv /\ TypeOK /\ PendingExact /\ TrafficInv

\* c is in its handshake, or keeps the place of a session its client has left.
Occupies(c) == c \in Pending \/ (c \in sessions /\ "client" \in closedEnds[c])

\* A handshake ends by its deadline even when the client says nothing, and
\* gives its token back; and a session whose client is gone, for instance
\* because the client's deadline passed just before the server's answer
\* arrived, gives up its place among the sessions.
PlacesComeFree ==
  Deadlines => \A c \in Conn : Occupies(c) ~> ~Occupies(c)

\* Once the context is cancelled, or the listener has failed, the server stops
\* without waiting for the deadline of a handshake: every connection is in the
\* list that shutdown closes, or its acceptor notices.
ShutdownCompletes == (cancelled \/ loop = "stopping") ~> (loop = "done")
=============================================================================
