---------------------------- MODULE CarrierSlot ----------------------------
(***************************************************************************)
(* How the client keeps one carrier of one stream on one interface         *)
(* (internal/clientrole/tcp_group.go): the slot of a tcpCarrierGroup, the  *)
(* refresh of the interface's path, the physical sessions that come and    *)
(* go, and the goroutines that reconcile the slot with them, open a        *)
(* carrier, watch it and retry.  The locks are those of the code: what     *)
(* reconcile reads before it locks the group again may be out of date.     *)
(*                                                                         *)
(* The module follows the slot while its stream lives; module StreamOpen   *)
(* models how a stream starts, fails to open and ends.                     *)
(***************************************************************************)
EXTENDS Integers, Sequences

CONSTANTS
  Path,         \* the paths (address and destination) of the interface
  NoPath,       \* the interface is down or excluded
  MaxSessions,  \* bound: physical sessions established
  MaxRefreshes, \* bound: changes of the path
  MaxFailures   \* bound: carriers that fail and OPEN requests refused

ASSUME SlotAssumption ==
  /\ NoPath \notin Path /\ Path # {}
  /\ MaxSessions \in Nat /\ MaxRefreshes \in Nat /\ MaxFailures \in Nat

VARIABLES
  path,       \* runtime.paths of the interface, and its tcpPathSession's path
  session,    \* tcpPathSession.session: a session number, 0 for nil
  live,       \* sessions that are not closed
  created,    \* sessions established so far
  dialing,    \* the tcpPathSession has been told to reconcile
  assign,     \* where assignCarrierGroup is
  copied,     \* its copy of runtime.paths
  refresh,    \* where refreshCarrierGroups is
  refreshes,  \* path changes so far
  failures,   \* carriers that failed and OPEN requests refused so far
  slot,       \* group.slots of the interface: a set of at most one slot
  calls,      \* the calls of group.reconcile under way
  workers     \* the open attempts, each with the goroutine that carries it on

sessionVars == <<path, session, live, created, dialing>>
callerVars == <<assign, copied, refresh, refreshes>>
vars == <<path, session, live, created, dialing, assign, copied, refresh,
          refreshes, failures, slot, calls, workers>>

\* A tcpFlowSlot; carrier is the worker that attached it, 0 for nil.
FreshSlot(p) == [path |-> p, session |-> 0, carrier |-> 0, inFlight |-> FALSE,
                 retrying |-> FALSE, openRejected |-> FALSE]

\* A call of reconcile by a goroutine, at the first of its three lock regions.
Call(who) == [by |-> who, at |-> "slot", path |-> NoPath, session |-> 0]

Init ==
  /\ path \in Path /\ session = 0 /\ live = {} /\ created = 0
  /\ dialing = TRUE
  /\ assign = "copied" /\ copied = path
  /\ refresh = "idle" /\ refreshes = 0 /\ failures = 0
  /\ slot = {} /\ calls = {} /\ workers = <<>>

\* carrier.Close, or the end of the connection under a carrier.
Down(ws, S) == [n \in DOMAIN ws |-> IF n \in S THEN [ws[n] EXCEPT !.up = FALSE]
                                               ELSE ws[n]]
OnSession(s) == {n \in DOMAIN workers : workers[n].session = s}

-----------------------------------------------------------------------------
(* Physical sessions: dial, seen from the group.                           *)

\* dial has a session and calls reconcileGroups.
Establish ==
  /\ dialing /\ session = 0 /\ created < MaxSessions
  /\ created' = created + 1
  /\ session' = created'
  /\ live' = live \cup {created'}
  /\ calls' = calls \cup {Call(<<"session", created'>>)}
  /\ UNCHANGED <<path, dialing, callerVars, failures, slot, workers>>

\* A session ends, and with it the streams inside it: the network, the
\* keepalive, or OpenDestination after an OPEN that was not answered.
SessionEnds(s) ==
  /\ s \in live
  /\ live' = live \ {s}
  /\ workers' = Down(workers, OnSession(s))
  /\ UNCHANGED <<path, session, created, dialing, callerVars, failures, slot,
                 calls>>

\* dial, back from reconcileGroups, sees that its session is done.
SessionCleared ==
  /\ session # 0 /\ session \notin live
  /\ \A call \in calls : call.by # <<"session", session>>
  /\ session' = 0
  /\ UNCHANGED <<path, live, created, dialing, callerVars, failures, slot,
                 calls, workers>>

-----------------------------------------------------------------------------
(* Paths.                                                                  *)

\* syncPaths: what becomes of the slot, and (Stale) the carriers it closes.
Synced(p) == IF \E s \in slot : s.path = p THEN slot
             ELSE IF p = NoPath THEN {} ELSE {FreshSlot(p)}
Stale(p) == {s.carrier : s \in {t \in slot : t.path # p}}

SyncPaths(p) ==
  /\ slot' = Synced(p)
  /\ workers' = Down(workers, Stale(p))

\* refreshCarrierGroups under its lock: the path changes and the session of
\* the old one is closed.  A refresh that finds no change does nothing.
Refresh(p) ==
  /\ refresh = "idle" /\ p # path /\ refreshes < MaxRefreshes
  /\ refreshes' = refreshes + 1
  /\ path' = p
  /\ session' = 0 /\ live' = live \ {session}
  /\ workers' = Down(workers, IF session = 0 THEN {} ELSE OnSession(session))
  /\ dialing' = FALSE
  /\ refresh' = "sync"
  /\ UNCHANGED <<created, assign, copied, failures, slot, calls>>

\* ... then it brings every group it saw up to date ...
RefreshSync ==
  /\ refresh = "sync"
  /\ SyncPaths(path)
  /\ calls' = calls \cup {Call(<<"refresh">>)}
  /\ refresh' = "reconcile"
  /\ UNCHANGED <<sessionVars, assign, copied, refreshes, failures>>

\* ... and starts the sessions of the new path.
RefreshDone ==
  /\ refresh = "reconcile" /\ \A call \in calls : call.by # <<"refresh">>
  /\ dialing' = (path # NoPath)
  /\ refresh' = "idle"
  /\ UNCHANGED <<path, session, live, created, assign, copied, refreshes,
                 failures, slot, calls, workers>>

\* assignCarrierGroup after its lock: syncPaths with the copy of the paths.
\* reconcileAll returns at once, for the group has no flow yet.
AssignSync ==
  /\ assign = "copied"
  /\ SyncPaths(copied)
  /\ assign' = "synced"
  /\ UNCHANGED <<sessionVars, copied, refresh, refreshes, failures, calls>>

\* group.assign: the group has its flow and reconciles all its slots.
AssignFlow ==
  /\ assign = "synced"
  /\ assign' = "assigned"
  /\ calls' = calls \cup {Call(<<"assign">>)}
  /\ UNCHANGED <<sessionVars, copied, refresh, refreshes, failures, slot, workers>>

-----------------------------------------------------------------------------
(* reconcile: three lock regions, with nothing held between them.          *)

Move(call, moved) == calls' = (calls \ {call}) \cup moved

\* group.mu: the slot's path.
ReadSlot(call) ==
  /\ call.at = "slot"
  /\ Move(call, {[call EXCEPT !.at = "session", !.path = s.path] :
                   s \in {t \in slot : assign = "assigned"}})
  /\ UNCHANGED <<sessionVars, callerVars, failures, slot, workers>>

\* currentPathSession: the healthy session of that path, if there is one.
ReadSession(call) ==
  /\ call.at = "session"
  /\ Move(call, {[call EXCEPT !.at = "commit", !.session = s] :
                   s \in {t \in live : t = session /\ call.path = path}})
  /\ UNCHANGED <<sessionVars, callerVars, failures, slot, workers>>

\* The slot has that session's carrier, is getting it or may not have it.
AlreadyServed(s, call) ==
  /\ s.session = call.session
  /\ s.carrier # 0 \/ s.inFlight \/ s.retrying \/ s.openRejected

\* The slot, pointed at another session.
Pointed(s, call) ==
  [s EXCEPT !.carrier = 0, !.session = call.session, !.inFlight = TRUE,
            !.retrying = @ /\ s.session = call.session,
            !.openRejected = @ /\ s.session = call.session]

\* Mutant of Replaced: the old carrier stays open.
ReplacedNone(S) == {}

\* The carriers of the slots S, which reconcile closes.
Replaced(S) == {s.carrier : s \in S}

\* group.mu again: point the slot at the session and start an open worker,
\* closing the carrier it had.
CommitSlot(call) ==
  LET idle == {s \in slot : s.path = call.path /\ ~AlreadyServed(s, call)}
  IN /\ call.at = "commit"
     /\ Move(call, {})
     /\ IF idle = {} THEN UNCHANGED <<slot, workers>>
        ELSE /\ slot' = {Pointed(s, call) : s \in idle}
             /\ workers' = Append(Down(workers, Replaced(idle)),
                  [path |-> call.path, session |-> call.session,
                   at |-> "open", up |-> FALSE])
     /\ UNCHANGED <<sessionVars, callerVars, failures>>

-----------------------------------------------------------------------------
(* The goroutines of an open attempt.                                      *)

\* The slot that attempt n was started for, if it is still there.
Mine(n) == {s \in slot : s.path = workers[n].path /\ s.session = workers[n].session}

\* validOpenAttemptLocked.
Valid(n) == \E s \in Mine(n) : s.inFlight

At(n, where) == workers' = [workers EXCEPT ![n].at = where]

SetMine(n, changed) == slot' = IF Mine(n) = {} THEN slot ELSE changed

\* open: the attempt is out of date before it began, and finishOpenAttempt.
OpenAbandoned(n) ==
  /\ workers[n].at = "open" /\ ~Valid(n)
  /\ At(n, "exited")
  /\ SetMine(n, {[s EXCEPT !.inFlight = FALSE] : s \in Mine(n)})
  /\ UNCHANGED <<sessionVars, callerVars, failures, calls>>

OpenSends(n) ==
  /\ workers[n].at = "open" /\ Valid(n)
  /\ At(n, "opening")
  /\ UNCHANGED <<sessionVars, callerVars, failures, slot, calls>>

\* The server refuses the OPEN, and rejectOpenAttempt.
OpenRejected(n) ==
  /\ workers[n].at = "opening" /\ workers[n].session \in live
  /\ failures < MaxFailures /\ failures' = failures + 1
  /\ At(n, "exited")
  /\ SetMine(n, {[s EXCEPT !.inFlight = FALSE, !.openRejected = TRUE] : s \in Mine(n)})
  /\ UNCHANGED <<sessionVars, callerVars, calls>>

\* Mutant of Retry: the slot stays in flight while the timer runs.
RetryInFlight(n) ==
  LET again == {s \in Mine(n) : s.carrier = 0 /\ workers[n].session \in live}
      waits == again # {} /\ \A s \in again : ~s.retrying
  IN /\ At(n, IF waits THEN "wait" ELSE "exited")
     /\ slot' = IF again = {} THEN slot ELSE {[s EXCEPT !.retrying = TRUE] : s \in again}

\* retry: after a delay, unless the slot moved on or its session is gone.
Retry(n) ==
  LET again == {s \in Mine(n) : s.carrier = 0 /\ workers[n].session \in live}
      waits == again # {} /\ \A s \in again : ~s.retrying
  IN /\ At(n, IF waits THEN "wait" ELSE "exited")
     /\ slot' = IF again = {} THEN slot
                ELSE {[s EXCEPT !.inFlight = FALSE, !.retrying = TRUE] : s \in again}

\* The OPEN fails.  OpenDestination closes the whole session when it is not
\* answered in time or the session breaks, which is SessionEnds; then retry.
OpenFails(n) ==
  /\ workers[n].at = "opening" /\ workers[n].session \notin live
  /\ Retry(n)
  /\ UNCHANGED <<sessionVars, callerVars, failures, calls>>

\* The OPEN succeeds, and attach gives the connection to the flow.
Attach(n) ==
  /\ workers[n].at = "opening" /\ workers[n].session \in live
  /\ IF Valid(n)
       THEN workers' = [workers EXCEPT ![n].at = "attached", ![n].up = TRUE]
       ELSE At(n, "exited")
  /\ UNCHANGED <<sessionVars, callerVars, failures, slot, calls>>

\* attach looks again: the slot may have moved on, the carrier may be done.
Attached(n) ==
  /\ workers[n].at = "attached"
  /\ \/ /\ ~Valid(n)
        /\ workers' = [workers EXCEPT ![n].at = "exited", ![n].up = FALSE]
        /\ UNCHANGED slot
     \/ Valid(n) /\ ~workers[n].up /\ Retry(n)
     \/ /\ Valid(n) /\ workers[n].up
        /\ At(n, "monitor")
        /\ slot' = {[s EXCEPT !.carrier = n, !.inFlight = FALSE,
                              !.openRejected = FALSE] : s \in Mine(n)}
  /\ UNCHANGED <<sessionVars, callerVars, failures, calls>>

\* A carrier ends by itself: its stream failed or the server closed it.
CarrierEnds(n) ==
  /\ workers[n].up
  /\ failures < MaxFailures /\ failures' = failures + 1
  /\ workers' = Down(workers, {n})
  /\ UNCHANGED <<sessionVars, callerVars, slot, calls>>

\* monitorCarrier: removeCarrier, and retry if the slot still had it.
Monitor(n) ==
  /\ workers[n].at = "monitor" /\ ~workers[n].up
  /\ IF \E s \in Mine(n) : s.carrier = n
       THEN At(n, "retry") /\ slot' = {[s EXCEPT !.carrier = 0] : s \in Mine(n)}
       ELSE At(n, "exited") /\ UNCHANGED slot
  /\ UNCHANGED <<sessionVars, callerVars, failures, calls>>

MonitorRetries(n) ==
  /\ workers[n].at = "retry"
  /\ Retry(n)
  /\ UNCHANGED <<sessionVars, callerVars, failures, calls>>

\* waitToRetry: the timer fires, or the session is done.
WaitToRetry(n) ==
  LET again == {s \in Mine(n) : s.retrying /\ s.carrier = 0
                                /\ workers[n].session \in live}
  IN /\ workers[n].at = "wait"
     /\ At(n, "exited")
     /\ slot' = IF again = {} THEN slot
                ELSE {[s EXCEPT !.retrying = FALSE] : s \in again}
     /\ calls' = IF again = {} THEN calls ELSE calls \cup {Call(<<"worker", n>>)}
     /\ UNCHANGED <<sessionVars, callerVars, failures>>

-----------------------------------------------------------------------------
Reconcile == \E call \in calls : ReadSlot(call) \/ ReadSession(call) \/ CommitSlot(call)

\* What the goroutines of attempt n do; an OPEN is answered or times out.
WorkerStep(n) ==
  \/ OpenAbandoned(n) \/ OpenSends(n) \/ OpenRejected(n) \/ OpenFails(n)
  \/ Attach(n) \/ Attached(n) \/ Monitor(n) \/ MonitorRetries(n)
  \/ WaitToRetry(n)

Assign == AssignSync \/ AssignFlow

RefreshStep == RefreshSync \/ RefreshDone

Next ==
  \/ Establish \/ SessionCleared \/ Reconcile \/ Assign \/ RefreshStep
  \/ \E s \in 1 .. MaxSessions : SessionEnds(s)
  \/ \E p \in Path \cup {NoPath} : Refresh(p)
  \/ \E n \in DOMAIN workers : WorkerStep(n) \/ CarrierEnds(n)

Spec == Init /\ [][Next]_vars

\* Every goroutine goes on, timers fire, OPEN requests are answered.  Nothing
\* is assumed of sessions, of paths or of carriers that fail.  Each attempt
\* ends after finitely many steps, so none is starved by the others.
FairSpec ==
  /\ Spec /\ WF_vars(Reconcile) /\ WF_vars(Assign) /\ WF_vars(RefreshStep)
  /\ WF_vars(SessionCleared)
  /\ WF_vars(\E n \in DOMAIN workers : WorkerStep(n))

-----------------------------------------------------------------------------
(* Properties.                                                             *)

Busy == {"open", "opening", "attached"}

\* A slot, an open attempt and a call of reconcile, of sessions up to n and
\* attempts up to m.
Slot(n, m) == [path : Path, session : 0 .. n, carrier : 0 .. m, inFlight : BOOLEAN,
               retrying : BOOLEAN, openRejected : BOOLEAN]
Attempt(n) == [path : Path, session : 1 .. n, up : BOOLEAN,
               at : Busy \cup {"monitor", "retry", "wait", "exited"}]
Caller == {<<"assign">>, <<"refresh">>} \cup ({"session", "worker"} \X Nat)
PendingCall(n) == [by : Caller, at : {"slot", "session", "commit"},
                   path : Path \cup {NoPath}, session : 0 .. n]

\* Every field has its type, a slot names an attempt and a session, and an
\* interface has one slot at most.
TypeOK ==
  /\ path \in Path \cup {NoPath} /\ copied \in Path
  /\ created \in Nat /\ session \in 0 .. created /\ live \subseteq 1 .. created
  /\ slot \subseteq Slot(created, Len(workers)) /\ \A s, t \in slot : s = t
  /\ workers \in Seq(Attempt(created))
  /\ calls \subseteq PendingCall(created)
  /\ \A call \in calls : call.at = "commit" => call.session # 0

\* A carrier that works and is past its checks is the one its slot names.
\* No carrier outlives its path or the attempt that replaced it.
NoOrphanCarrier ==
  \A n \in DOMAIN workers : workers[n].at = "monitor" /\ workers[n].up =>
    \E s \in slot : s.carrier = n /\ s.path = workers[n].path

\* The carrier a slot names belongs to the path and the session the slot names,
\* and no attempt is in flight or waits to be repeated beside it.
OneCarrier ==
  \A s \in slot :
    /\ s.carrier # 0 =>
         /\ workers[s.carrier].path = s.path /\ workers[s.carrier].session = s.session
         /\ workers[s.carrier].at = "monitor" /\ ~s.inFlight
    /\ s.retrying => s.carrier = 0 /\ ~s.inFlight

\* A slot on a live session that says it is busy has a goroutine that works
\* on it: the flags inFlight and retrying, which keep every later reconcile
\* away, are never left behind.
FlagsAreOwned ==
  \A s \in slot : s.session \in live =>
    /\ s.inFlight => \E n \in DOMAIN workers :
                       Mine(n) # {} /\ workers[n].at \in Busy
    /\ s.retrying => \E n \in DOMAIN workers :
                       Mine(n) # {} /\ workers[n].at = "wait"

\* The type invariant; the slot, its carrier and its goroutine name each other.
SlotInv == TypeOK /\ NoOrphanCarrier /\ OneCarrier /\ FlagsAreOwned

Served == \E s \in slot : /\ s.session = session
                          /\ s.carrier # 0 \/ s.openRejected

\* While a session stays healthy the stream gets its carrier on it, unless
\* the server refuses the stream there.
HealthySessionGetsCarrier ==
  (session \in live /\ assign = "assigned" /\ refresh = "idle")
    ~> (session \notin live \/ refresh # "idle" \/ Served)

\* On the first session the stream gets it in any case, also after a failed
\* attempt and a lost carrier: nothing out of date can overwrite the slot
\* while neither session nor path has changed (reconcile, retry, waitToRetry).
FirstSessionGetsCarrier ==
  (session \in live /\ assign = "assigned" /\ created = 1 /\ refreshes = 0)
    ~> (session \notin live \/ refreshes > 0 \/ Served)
=============================================================================
