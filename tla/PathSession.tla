---------------------------- MODULE PathSession ----------------------------
(***************************************************************************)
(* How the client keeps one physical session on one interface              *)
(* (internal/clientrole/tcp_group.go): the tcpPathSession of each path the *)
(* interface has had, the goroutines that dial, serve and wait to retry,   *)
(* the refresh that replaces the path, and the shutdown; and the path      *)
(* manager (internal/path) with the commands of the management interface   *)
(* that include and exclude the interface.  One step is one lock region,   *)
(* one call of startGroupWorker or one wait.                               *)
(*                                                                         *)
(* Module CarrierSlot models what the groups of carriers make of the       *)
(* sessions.                                                               *)
(***************************************************************************)
EXTENDS Integers, Sequences, FiniteSets

CONSTANTS
  Path,         \* the paths (address and destination) of the interface
  NoPath,       \* the interface is down or excluded
  InitialDelay, \* tcpSessionRetryInitialDelay
  MaxDelay,     \* tcpSessionRetryMaxDelay
  MaxChanges,   \* bound: commands, and changes of the interface
  MaxFailures   \* bound: dials that fail and sessions that end

ASSUME PathAssumption ==
  /\ NoPath \notin Path
  /\ InitialDelay \in Nat \ {0} /\ MaxDelay \in Nat /\ InitialDelay <= MaxDelay
  /\ MaxDelay % 2 = 0
  /\ MaxChanges \in Nat /\ MaxFailures \in Nat

VARIABLES
  available, \* the path that the interface offers
  barred,    \* the configuration excludes the interface
  swapped,   \* manager.swaps has the interface
  changes,   \* commands and changes of the interface so far
  seen,      \* the path that refresh has read
  path,      \* runtime.paths of the interface
  objects,   \* every tcpPathSession created; the last one is in the table
  held,      \* runtime.sessions has the last one
  refresh,   \* where refresh and refreshCarrierGroups are
  workers,   \* the goroutines, each with the session and generation it is for
  failures,  \* dials that failed and sessions that ended, so far
  live,      \* <<object, generation>> of every physical session that is open
  closing,   \* runtime.closing
  cancelled, \* runtime.ctx is done
  streak,    \* history: failures since an established session was stable
  delays     \* history: the base delay of the retry an object waits for

manager == <<available, barred, swapped, changes>>
table == <<manager, seen, path, held, refresh>>
control == <<closing, cancelled>>
history == <<streak, delays>>
vars == <<table, objects, workers, failures, live, control, history>>

Fresh(p) == [path |-> p, session |-> 0, generation |-> 0, inFlight |-> FALSE,
             retrying |-> FALSE, retryCount |-> 0, closed |-> FALSE]

Init ==
  /\ available \in Path \cup {NoPath} /\ barred \in BOOLEAN
  /\ swapped = FALSE /\ changes = 0 /\ seen = NoPath
  /\ path = NoPath /\ held = FALSE /\ refresh = "idle"
  /\ objects = <<>> /\ workers = {} /\ failures = 0 /\ live = {}
  /\ closing = FALSE /\ cancelled = FALSE
  /\ streak = 0 /\ delays = 0

Worker(o, g, at) == [of |-> o, generation |-> g, at |-> at]
Goto(w, at) == workers' = (workers \ {w}) \cup {[w EXCEPT !.at = at]}
Exit(w) == workers' = workers \ {w}
Set(o, new) == objects' = [objects EXCEPT ![o] = new]

\* The physical session that worker w established.
Its(w) == <<w.of, w.generation>>

\* The refusal of a runtime that stops.
Refused == closing \/ cancelled

-----------------------------------------------------------------------------
(* The interface and the path manager.                                     *)

\* isExcludedLocked: a swap turns the configuration round.
IsExcluded == barred # swapped

MayChange == changes < MaxChanges /\ changes' = changes + 1

Swap(new) ==
  /\ MayChange /\ swapped' = new
  /\ UNCHANGED <<available, barred, seen, path, held, refresh, objects, workers,
                 failures, live, control, history>>

ToggleExclusion == Swap(~swapped)
Include == IsExcluded /\ Swap(~swapped)
Exclude == ~IsExcluded /\ Swap(~swapped)
ResetExclusions == swapped /\ Swap(FALSE)

\* The interface comes, goes or gets another address.
InterfaceChanges(p) ==
  /\ p # available /\ MayChange /\ available' = p
  /\ UNCHANGED <<barred, swapped, seen, path, held, refresh, objects, workers,
                 failures, live, control, history>>

-----------------------------------------------------------------------------
(* The path: refresh, by the one goroutine that refreshes.                 *)

\* Mutant of Wanted: only the configuration excludes the interface.
WantedConfigured == IF barred THEN NoPath ELSE available

\* The path that refresh makes of what it reads.
Wanted == IF IsExcluded THEN NoPath ELSE available

\* A tick of refreshLoop.  One that finds the path unchanged does nothing.
Tick ==
  /\ refresh = "idle" /\ ~Refused /\ Wanted # path
  /\ seen' = Wanted /\ refresh' = "read"
  /\ UNCHANGED <<manager, path, held, objects, workers, failures, live, control, history>>

\* refreshCarrierGroups under runtime.mu: the session of the old path leaves
\* the table, one for the new path enters; what was read may be out of date.
Refresh ==
  /\ refresh = "read"
  /\ IF Refused
     THEN refresh' = "idle" /\ UNCHANGED <<path, objects, held, history>>
     ELSE /\ path' = seen
          /\ objects' = IF seen = NoPath THEN objects ELSE Append(objects, Fresh(seen))
          /\ held' = (seen # NoPath)
          /\ refresh' = IF held THEN "stale" ELSE "start"
          /\ streak' = 0 /\ delays' = 0
  /\ UNCHANGED <<manager, seen, workers, failures, live, control>>

\* close of a tcpPathSession, its session included.
Closed(o) == [objects[o] EXCEPT !.closed = TRUE, !.session = 0]

\* Mutant of Unserved: the session that close took away stays open.
UnservedNone(o) == {}

Unserved(o) == {s \in live : s[1] = o /\ s[2] = objects[o].session}

CloseStale(o) ==
  /\ refresh = "stale"
  /\ o = IF held THEN Len(objects) - 1 ELSE Len(objects)
  /\ Set(o, Closed(o))
  /\ live' = live \ Unserved(o)
  /\ refresh' = "start"
  /\ UNCHANGED <<manager, seen, path, held, workers, failures, control, history>>

\* reconcile starts an attempt unless there is one, or nothing to do.
MayDial(o) ==
  LET s == objects[o] IN
  ~(s.closed \/ s.session # 0 \/ s.inFlight \/ s.retrying)

Dialing(o) == [objects[o] EXCEPT !.inFlight = TRUE, !.generation = @ + 1]

\* ... and the refresh reconciles the session it has created.
RefreshStarts ==
  LET o == Len(objects) IN
  /\ refresh = "start"
  /\ refresh' = "idle"
  /\ IF held /\ MayDial(o)
     THEN /\ Set(o, Dialing(o))
          /\ workers' = workers \cup {Worker(o, objects'[o].generation, "spawnDial")}
     ELSE UNCHANGED <<objects, workers>>
  /\ UNCHANGED <<manager, seen, path, held, failures, live, control, history>>

-----------------------------------------------------------------------------
(* The goroutines of a path session.                                       *)

\* startGroupWorker for dial; if it refuses, finishAttempt.
SpawnDial(w) ==
  /\ w.at = "spawnDial"
  /\ IF Refused
     THEN /\ Exit(w)
          /\ objects' = [objects EXCEPT ![w.of].inFlight =
                           @ /\ objects[w.of].generation # w.generation]
     ELSE Goto(w, "dial") /\ UNCHANGED objects
  /\ UNCHANGED <<table, failures, live, control, history>>

\* The dial or the handshake fails: for as long as the bound allows, and
\* whenever the context of the path session is done.
DialFails(w) ==
  /\ w.at = "dial"
  /\ \/ cancelled \/ objects[w.of].closed
     \/ failures < MaxFailures
  /\ failures' = IF failures < MaxFailures THEN failures + 1 ELSE failures
  /\ streak' = IF w.of = Len(objects) THEN streak + 1 ELSE streak
  /\ Goto(w, "retry")
  /\ UNCHANGED <<table, objects, live, control, delays>>

\* There is a session, which dial has not looked at yet.
DialSucceeds(w) ==
  /\ w.at = "dial"
  /\ live' = live \cup {Its(w)}
  /\ Goto(w, "commit")
  /\ UNCHANGED <<table, objects, failures, control, history>>

\* Mutant of Overtaken: what happened during the dial is not looked at.
OvertakenNever(w) == FALSE

\* The path session was closed, or moved on, during the dial.
Overtaken(w) ==
  LET s == objects[w.of] IN s.closed \/ ~s.inFlight \/ s.generation # w.generation

\* dial after the handshake: the session is kept, or closed again.
Commit(w) ==
  /\ w.at = "commit"
  /\ IF Overtaken(w)
     THEN /\ Exit(w) /\ live' = live \ {Its(w)}
          /\ UNCHANGED objects
     ELSE /\ Goto(w, "serve") /\ UNCHANGED live
          /\ Set(w.of, [objects[w.of] EXCEPT !.session = w.generation,
                                    !.inFlight = FALSE, !.retrying = FALSE])
  /\ UNCHANGED <<table, failures, control, history>>

\* A physical session ends: keepalive, peer or network.
SessionEnds(s) ==
  /\ s \in live /\ failures < MaxFailures
  /\ failures' = failures + 1
  /\ live' = live \ {s}
  /\ UNCHANGED <<table, objects, workers, control, history>>

\* dial, when its session is done or its path session closed.  A session
\* that was stable (it lasted MaxDelay) starts the backoff afresh.
Served(w, stable) ==
  LET s == objects[w.of]
      current == s.session = w.generation IN
  /\ w.at = "serve" /\ (Its(w) \notin live \/ s.closed)
  /\ objects' = IF current
                THEN [objects EXCEPT ![w.of].session = 0,
                        ![w.of].retryCount = IF stable THEN 0 ELSE @]
                ELSE objects
  /\ IF current /\ ~s.closed THEN Goto(w, "retry") ELSE Exit(w)
  /\ streak' = IF w.of # Len(objects) THEN streak
               ELSE IF stable THEN 1 ELSE streak + 1
  /\ UNCHANGED <<table, failures, live, control, delays>>

\* tcpSessionRetryDelay: the delay doubles with each retry, up to the maximum.
RetryDelay[n \in Nat] ==
  IF n = 0 THEN InitialDelay
  ELSE IF RetryDelay[n - 1] >= MaxDelay \div 2 THEN MaxDelay ELSE 2 * RetryDelay[n - 1]

\* retry counts a failure until the delay has reached its maximum.
NextCount(count) == IF RetryDelay[count] < MaxDelay THEN count + 1 ELSE count

\* retry, the lock region.
Retry(w) ==
  LET s == objects[w.of]
      moved == s.closed \/ s.generation # w.generation \/ s.session # 0 IN
  /\ w.at = "retry"
  /\ IF moved \/ s.retrying
     THEN /\ Exit(w)
          /\ objects' = [objects EXCEPT ![w.of].inFlight = @ /\ moved]
          /\ UNCHANGED delays
     ELSE /\ Goto(w, "spawnWait")
          /\ Set(w.of, [s EXCEPT !.inFlight = FALSE, !.retrying = TRUE,
                                 !.retryCount = NextCount(@)])
          /\ delays' = IF w.of = Len(objects) THEN RetryDelay[s.retryCount] ELSE delays
  /\ UNCHANGED <<table, failures, live, control, streak>>

\* retry's startGroupWorker; if it refuses, nobody waits.
SpawnWait(w) ==
  /\ w.at = "spawnWait"
  /\ IF Refused
     THEN /\ Exit(w)
          /\ objects' = [objects EXCEPT ![w.of].retrying =
                           @ /\ objects[w.of].generation # w.generation]
     ELSE Goto(w, "wait") /\ UNCHANGED objects
  /\ UNCHANGED <<table, failures, live, control, history>>

\* waitToRetry: the timer ticks, or the wait is given up.
WaitEnds(w) ==
  LET s == objects[w.of] IN
  /\ w.at = "wait"
  /\ \/ Goto(w, "woken")
     \/ (s.closed \/ cancelled) /\ Exit(w)
  /\ UNCHANGED <<table, objects, failures, live, control, history>>

\* Mutant of Awake: a retry that takes its turn stays marked as waiting.
AwakeStillRetrying(s) == s

\* The retry takes its turn.
Awake(s) == [s EXCEPT !.retrying = FALSE]

\* waitToRetry after the tick, under the lock ...
Woken(w) ==
  LET s == objects[w.of] IN
  /\ w.at = "woken"
  /\ IF s.closed \/ s.generation # w.generation \/ ~s.retrying \/ s.session # 0
     THEN Exit(w) /\ UNCHANGED objects
     ELSE Goto(w, "reconcile") /\ Set(w.of, Awake(s))
  /\ UNCHANGED <<table, failures, live, control, history>>

\* ... and then reconcile.
Reconcile(w) ==
  /\ w.at = "reconcile"
  /\ IF MayDial(w.of)
     THEN /\ Set(w.of, Dialing(w.of))
          /\ workers' = (workers \ {w}) \cup
                          {Worker(w.of, objects'[w.of].generation, "spawnDial")}
     ELSE Exit(w) /\ UNCHANGED objects
  /\ UNCHANGED <<table, failures, live, control, history>>

-----------------------------------------------------------------------------
(* Shutdown.                                                               *)

\* The context is cancelled, from outside or by shutdown.
Cancel ==
  /\ ~cancelled /\ cancelled' = TRUE
  /\ UNCHANGED <<table, objects, workers, failures, live, closing, history>>

ShutdownBegins ==
  /\ ~closing /\ closing' = TRUE
  /\ UNCHANGED <<table, objects, workers, failures, live, cancelled, history>>

\* shutdown closes the path session of the table.
ShutdownCloses ==
  LET o == Len(objects) IN
  /\ closing /\ cancelled /\ held /\ ~objects[o].closed
  /\ Set(o, Closed(o))
  /\ live' = live \ Unserved(o)
  /\ UNCHANGED <<table, workers, failures, control, history>>

-----------------------------------------------------------------------------
Step(w) ==
  \/ SpawnDial(w) \/ DialFails(w) \/ DialSucceeds(w) \/ Commit(w)
  \/ \E stable \in BOOLEAN : Served(w, stable)
  \/ Retry(w) \/ SpawnWait(w) \/ WaitEnds(w) \/ Woken(w) \/ Reconcile(w)

Command == ToggleExclusion \/ Include \/ Exclude \/ ResetExclusions
Refresher == Tick \/ Refresh \/ (\E o \in DOMAIN objects : CloseStale(o)) \/ RefreshStarts
Shutdown == (closing /\ Cancel) \/ ShutdownCloses

Next ==
  \/ Command
  \/ \E p \in Path \cup {NoPath} : InterfaceChanges(p)
  \/ \E w \in workers : Step(w)
  \/ \E s \in live : SessionEnds(s)
  \/ Refresher \/ Cancel \/ ShutdownBegins \/ Shutdown

Spec == Init /\ [][Next]_vars

\* Every goroutine keeps running; a dial ends by its timeout and the retry
\* timer ticks.  Nothing makes an operator or an interface act, a dial fail or a session end.
Fairness ==
  /\ \A o \in 1 .. MaxChanges + 1 : WF_vars(\E w \in workers : w.of = o /\ Step(w))
  /\ WF_vars(Refresher) /\ WF_vars(Shutdown)

FairSpec == Spec /\ Fairness

-----------------------------------------------------------------------------
(* Properties.                                                             *)

\* Type correctness; the count of retries stops growing once the delay has
\* reached its maximum, so that it cannot overflow on a path that is down for
\* long.
Session == [path : Path, session : Nat, generation : Nat, inFlight : BOOLEAN,
            retrying : BOOLEAN, retryCount : Nat, closed : BOOLEAN]
TypeOK ==
  /\ {path, seen, available} \subseteq Path \cup {NoPath} /\ held = (path # NoPath)
  /\ objects \in Seq(Session)
  /\ \A o \in DOMAIN objects :
       objects[o].retryCount > 0 => RetryDelay[objects[o].retryCount - 1] < MaxDelay
  /\ \A w \in workers : /\ w = Worker(w.of, w.generation, w.at)
                        /\ w.of \in DOMAIN objects /\ w.generation \in Nat \ {0}
  /\ live \subseteq (DOMAIN objects) \X (Nat \ {0})

\* A path session that is open never stops trying and never tries twice at
\* once: exactly one goroutine drives it, and the flags that keep others away
\* (inFlight, retrying) say where that goroutine is.  Once the runtime stops
\* the goroutine may have gone.
OneDriver ==
  \A o \in DOMAIN objects :
    LET mine == {w \in workers : w.of = o} IN
    (~objects[o].closed /\ objects[o].generation > 0) =>
      /\ Cardinality(mine) <= 1
      /\ ~Refused => Cardinality(mine) = 1
      /\ \A w \in mine :
           /\ w.generation = objects[o].generation
           /\ objects[o].retrying = (w.at \in {"spawnWait", "wait", "woken"})
           /\ w.at \in {"spawnDial", "dial", "commit"} => objects[o].inFlight
           /\ (objects[o].session # 0) = (w.at = "serve")

\* What the goroutines rely on, also for path sessions that were closed: each
\* is for the attempt its path session counted last, and nobody else drives it.
DriverOK ==
  /\ \A w, v \in workers : w.of = v.of => w = v
  /\ \A w \in workers :
       /\ w.generation = objects[w.of].generation
       /\ ~objects[w.of].closed /\ w.at \in {"serve", "spawnWait", "wait", "woken", "reconcile"}
            => ~objects[w.of].inFlight
  /\ \A o \in DOMAIN objects :
       /\ objects[o].session \in {0, objects[o].generation}
       /\ objects[o].closed => objects[o].session = 0
  /\ held => objects # <<>>
  /\ held /\ refresh \in {"stale", "start"} => objects[Len(objects)].generation = 0

\* The type invariant and the goroutine behind each path session.
DrivenInv == TypeOK /\ OneDriver /\ DriverOK

Doubled[n \in Nat] == IF n = 0 THEN InitialDelay ELSE 2 * Doubled[n - 1]

\* Exponential backoff: the n-th failure in a row is followed by InitialDelay
\* doubled n - 1 times, up to MaxDelay, whether dials failed or sessions broke
\* before they were stable (retry, tcpSessionRetryDelay).
Backoff ==
  (held /\ objects[Len(objects)].retrying /\ ~objects[Len(objects)].closed) =>
    LET doubled == Doubled[streak - 1]
    IN streak > 0 /\ delays = IF doubled > MaxDelay THEN MaxDelay ELSE doubled

\* What the backoff rests on: a path session in the table has counted the
\* failures in a row, but for the one that its goroutine takes to retry, and
\* those after the delay has reached its maximum.
Counted(n, k) == n <= k /\ (n = k \/ RetryDelay[n] = MaxDelay)
FailuresCounted ==
  /\ streak \in Nat
  /\ held => LET o == Len(objects)
                 failed == {w \in workers : w.of = o /\ w.at = "retry"}
                 taken == IF failed = {} THEN streak ELSE streak - 1
             IN objects[o].closed \/ (taken >= 0 /\ Counted(objects[o].retryCount, taken))

\* One goroutine drives each path session, with the delays that it should have.
PathInv == DrivenInv /\ FailuresCounted /\ Backoff

\* A physical session belongs to an open path session that names it, or to
\* the goroutine that has just established it and will keep or close it; a
\* path has never two (dial, close, refreshCarrierGroups).
NoOrphanSession ==
  /\ \A s \in live : \/ ~objects[s[1]].closed /\ objects[s[1]].session = s[2]
                     \/ \E w \in workers : Its(w) = s /\ w.at = "commit"
  /\ \A s, t \in live : s[1] = t[1] => s = t

\* When commands, interfaces and failures come to rest, the client uses the
\* path that the last command asks for, however refresh, dials, retries and
\* commands crossed: it has a session on an interface that is up and not
\* excluded, keeps it, and has none on any other; unless it stops.
PathGetsSession ==
  <>[](\/ Refused
       \/ /\ path = IF IsExcluded THEN NoPath ELSE available
          /\ IF held THEN \E s \in live : s[1] = Len(objects) ELSE live = {})

\* The client can stop: every goroutine ends and every session is closed,
\* whatever was going on.
ShutdownCompletes == closing ~> (workers = {} /\ live = {})
=============================================================================
