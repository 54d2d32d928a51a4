----------------------------- MODULE StreamOpen -----------------------------
(***************************************************************************)
(* How a SOCKS5 request becomes a stream on the client                     *)
(* (internal/clientrole/tcp.go and tcp_group.go, internal/socks5): the     *)
(* request is read and its group registered, open attempts on several      *)
(* interfaces race for the first carrier, which answers the request and    *)
(* starts the flow, while a timer gives up and the client may be stopping. *)
(* startMu makes attach, failOpen and close exclude each other; the slots, *)
(* the carriers and the flow change under their own locks in between.      *)
(*                                                                         *)
(* One request is followed; others show in the limit of StartAccept only.  *)
(***************************************************************************)
EXTENDS Integers, Sequences, FiniteSets

CONSTANTS
  Interface,   \* the interfaces with a healthy session
  Result,      \* the refusals a server may answer, most telling first
  MaxFailures  \* bound: carriers, OPEN requests and replies that fail

ASSUME OpenAssumption ==
  /\ IsFiniteSet(Interface) /\ Result \in Seq(STRING) /\ MaxFailures \in Nat

VARIABLES
  request,      \* where the accept goroutine of the request is
  access,       \* "open": no SOCKS5 credentials are configured; otherwise
                \* what the application presents, "right" or "wrong"
  shutdown,     \* where shutdown is; all but "running" mean runtime.closing
  listed,       \* what shutdown has found registered: "conn", "flow"
  cancelled,    \* runtime.ctx is done
  at,           \* per interface: where its open attempt is
  slots,        \* interfaces whose slot still expects that attempt
  up,           \* interfaces whose carrier is attached and works
  startMu,      \* the goroutine that holds group.startMu: a set of at most one
  started,      \* group.started, and startedReady is closed
  committed,    \* group.committed
  failed,       \* group.failed
  closed,       \* group.closed
  openResults,  \* group.openResults
  flow,         \* "new", "started" or "reset" (closed and done)
  replies,      \* the replies begun to the application: what each says and how
                \* much of it was written
  broken,       \* the application's connection no longer takes a reply
  watch,        \* where watchOpen is: "none", "waiting", "done"
  failures      \* failures so far

groupVars == <<started, committed, failed, closed, openResults>>
replyVars == <<replies, broken>>
stopVars == <<shutdown, listed, cancelled>>
clientVars == <<request, access, stopVars>>
vars == <<clientVars, at, slots, up, startMu, groupVars, flow, replyVars,
          watch, failures>>

Init ==
  /\ request = "arriving" /\ access \in {"open", "right", "wrong"}
  /\ shutdown = "running" /\ listed = {} /\ cancelled = FALSE
  /\ at = [i \in Interface |-> "idle"]
  /\ slots = Interface /\ up = {} /\ startMu = {}
  /\ started = FALSE /\ committed = FALSE /\ failed = FALSE /\ closed = FALSE
  /\ openResults = {} /\ flow = "new" /\ replies = <<>> /\ broken = FALSE
  /\ watch = "none" /\ failures = 0

\* WriteReply sends nothing, a part or all of a reply before its deadline.
How == {"none", "some", "all"}
Reply(what, how) == [what |-> what, how |-> how]
Success == Reply("succeeded", "all")

\* What is written, after one more WriteReply.
Written(before, what) ==
  IF broken THEN {before} ELSE {Append(before, Reply(what, how)) : how \in How}

MayFail == failures < MaxFailures /\ failures' = failures + 1

\* validOpenAttemptLocked and flowDoneLocked.
Valid(i) == ~closed /\ ~failed /\ i \in slots /\ flow # "reset"

Goto(i, where) == at' = [at EXCEPT ![i] = where]

\* The runtime takes no new request and starts no group worker.
Refused == shutdown # "running" \/ cancelled

\* Shutdown has closed the physical sessions.
SessionsClosed == shutdown \in {"flows", "groups", "wait", "done"}

\* The attempt is made again, by retry on the same session or by reconcile on
\* the next one (module CarrierSlot), unless the slot or the stream is gone.
RetryAt(i) == IF Valid(i) /\ ~Refused THEN "opening" ELSE "exited"

\* flow.Reset, which closes the application's connection.
FlowReset == flow' = "reset" /\ up' = {} /\ broken' = TRUE

\* A carrier is done; the last one of a started flow resets it (detach).
Detach(i) ==
  LET last == flow = "started" /\ up = {i} IN
  /\ up' = up \ {i}
  /\ flow' = IF last THEN "reset" ELSE flow
  /\ broken' = (broken \/ last)

-----------------------------------------------------------------------------
(* The request: startAccept, readDestination and assignCarrierGroup.       *)

\* The accept goroutine moves on; it touches nothing else.
Proceed(where) ==
  /\ request' = where
  /\ UNCHANGED <<access, stopVars, at, slots, up, startMu, groupVars, flow,
                 replyVars, watch, failures>>

\* startAccept: refused while the runtime stops, or at MaxStreams, which
\* other requests may have reached.
StartAccept ==
  /\ request = "arriving"
  /\ \/ ~Refused /\ Proceed("greeting")
     \/ Proceed("finished")

\* The method that ReadConnectWithAuth requires.
Method == IF access = "open" THEN "connect" ELSE "credentials"

\* The greeting offers that method; without it the negotiation fails.
Greet == request = "greeting" /\ ~broken /\ Proceed(Method)

\* authenticate.
Authenticate ==
  /\ request = "credentials" /\ access = "right" /\ ~broken
  /\ Proceed("connect")

\* The request is a CONNECT to a valid destination.
ReadConnect == request = "connect" /\ ~broken /\ Proceed("assign")

Negotiating == request \in {"greeting", "credentials", "connect"}

\* The negotiation ends without a destination: the deadline, the application
\* or shutdown ends it, or it is refused; then accept closes the connection.
\* Of the refusals, those of the CONNECT request itself are replies to it.
NegotiationFails ==
  /\ Negotiating
  /\ request' = "finished"
  /\ \/ UNCHANGED replies
     \/ request = "connect" /\ replies' \in Written(replies, "unsupported")
  /\ broken' = TRUE
  /\ UNCHANGED <<access, stopVars, at, slots, up, startMu, groupVars, flow,
                 watch, failures>>

\* assignCarrierGroup under runtime.mu registers the flow and its group, or
\* accept reports the failure.
Assign ==
  /\ request = "assign"
  /\ IF Refused
       THEN /\ request' = "finished" /\ FlowReset
            /\ replies' \in Written(replies, "failure")
       ELSE request' = "launch" /\ UNCHANGED <<flow, up, replyVars>>
  /\ UNCHANGED <<access, stopVars, at, slots, startMu, groupVars, watch, failures>>

\* syncPaths and assign's reconcileAll start the attempts.
Launch ==
  /\ request = "launch"
  /\ request' = "watch"
  /\ at' = [i \in Interface |->
              IF closed \/ flow = "reset" \/ Refused THEN "exited" ELSE "opening"]
  /\ UNCHANGED <<access, stopVars, slots, up, startMu, groupVars, flow,
                 replyVars, watch, failures>>

\* assign starts watchOpen, or gives the flow up when it may not.
StartWatch ==
  /\ request = "watch"
  /\ request' = "waiting"
  /\ IF Refused
       THEN FlowReset /\ watch' = "done"
       ELSE watch' = "waiting" /\ UNCHANGED <<flow, up, broken>>
  /\ UNCHANGED <<access, stopVars, at, slots, startMu, groupVars, replies, failures>>

-----------------------------------------------------------------------------
(* An open attempt.                                                        *)

\* The server refuses, and recordOpenError and rejectOpenAttempt.  The interface
\* is done, or reconcile opens again on its next session.
OpenRejected(i, result) ==
  /\ at[i] = "opening" /\ MayFail
  /\ openResults' = IF started \/ failed \/ closed THEN openResults
                    ELSE openResults \cup {result}
  /\ Goto(i, "exited") \/ Goto(i, RetryAt(i))
  /\ UNCHANGED <<slots, up, startMu, started, committed, failed, closed, flow,
                 replyVars, watch>>

\* The OPEN fails, or the wait or the session for it ends.
OpenFails(i) ==
  /\ at[i] = "opening"
  /\ IF Refused \/ ~Valid(i) THEN UNCHANGED failures ELSE MayFail
  /\ Goto(i, RetryAt(i))
  /\ UNCHANGED <<slots, up, startMu, groupVars, flow, replyVars, watch>>

OpenSucceeds(i) ==
  /\ at[i] = "opening" /\ ~SessionsClosed
  /\ Goto(i, "opened")
  /\ UNCHANGED <<slots, up, startMu, groupVars, flow, replyVars, watch, failures>>

\* attach takes startMu, checks the attempt and attaches the carrier.
AttachBegins(i) ==
  /\ at[i] = "opened" /\ startMu = {}
  /\ IF Valid(i)
       THEN Goto(i, "attached") /\ up' = up \cup {i} /\ startMu' = {i}
       ELSE Goto(i, "exited") /\ UNCHANGED <<up, startMu>>
  /\ UNCHANGED <<slots, groupVars, flow, replyVars, watch, failures>>

\* Mutant of Leave: an attempt that gives up keeps startMu.
LeaveLocked(i, where) ==
  Goto(i, where) /\ startMu' = IF where = "exited" THEN startMu ELSE {}

\* attach returns: it gives startMu back.
Leave(i, where) == startMu' = {} /\ Goto(i, where)

\* Mutant of CloseAbandoned: the carrier stays in the flow.
CloseAbandonedNever(i) == UNCHANGED <<up, flow, broken>>

\* carrier.Close by attach.
CloseAbandoned(i) == Detach(i)

\* The attempt is out of date: attach closes the carrier.
AttachAbandoned(i) ==
  /\ at[i] \in {"attached", "answered"} /\ ~Valid(i)
  /\ CloseAbandoned(i)
  /\ Leave(i, "exited")
  /\ UNCHANGED <<slots, groupVars, replies, watch, failures>>

\* The carrier is done already: retry.
AttachRetries(i) ==
  /\ at[i] \in {"attached", "answered"} /\ i \notin up
  /\ at[i] = "attached" => Valid(i)
  /\ Leave(i, RetryAt(i))
  /\ UNCHANGED <<slots, up, groupVars, flow, replyVars, watch, failures>>

\* Mutant of NeedsCommit: every first carrier answers the request.
NeedsCommitAgain == ~started

\* The first carrier of the stream answers, once.
NeedsCommit == ~started /\ ~committed

\* beforeAttach writes the whole reply, and committed is set.
Answer(i) ==
  /\ at[i] = "attached"
  /\ \/ ~NeedsCommit /\ UNCHANGED <<committed, replyVars>>
     \/ /\ NeedsCommit /\ ~broken
        /\ replies' = Append(replies, Success)
        /\ committed' = TRUE /\ UNCHANGED broken
  /\ Goto(i, "answered")
  /\ UNCHANGED <<slots, up, startMu, started, failed, closed, openResults,
                 flow, watch, failures>>

\* preferredOpenErrorLocked: the most telling refusal.
Preferred ==
  IF \E k \in DOMAIN Result : Result[k] \in openResults
    THEN Result[CHOOSE k \in DOMAIN Result :
                  /\ Result[k] \in openResults
                  /\ \A j \in 1 .. (k - 1) : Result[j] \notin openResults]
    ELSE "failure"

\* onOpenFailed, which is not called once the request was answered.
TellsFailure(before, err) == IF committed THEN {before} ELSE Written(before, err)

\* Mutant of MayGiveUp: a stream that has started is given up as well.
MayGiveUpStarted == ~failed /\ ~closed

\* Mutant of MayGiveUp: a stream whose request was answered is not given up.
MayGiveUpUnanswered == ~started /\ ~failed /\ ~closed /\ ~committed

\* The guard of failOpenLocked.
MayGiveUp == ~started /\ ~failed /\ ~closed

\* failOpenLocked(err), when `before' has been written.
FailOpen(err, before) ==
  IF ~MayGiveUp THEN replies' = before /\ UNCHANGED <<failed, broken, flow, up>>
  ELSE /\ failed' = TRUE
       /\ replies' \in TellsFailure(before, err)
       /\ FlowReset

\* What beforeAttach has written when it fails at its deadline.
FailedAnswer ==
  IF broken THEN {replies}
            ELSE {Append(replies, Reply("succeeded", how)) : how \in {"none", "some"}}

\* beforeAttach fails: attach closes the carrier and calls failOpenLocked, which
\* finds no commit and, as the error is none of the servers', tells the
\* application of a general failure.  If the runtime closes the connection before
\* WriteReply has cleared the deadline, all of the first reply was written and
\* nothing of the second can be.
AnswerFails(i) ==
  /\ at[i] = "attached" /\ NeedsCommit
  /\ IF broken THEN UNCHANGED failures ELSE MayFail
  /\ \/ \E before \in FailedAnswer : FailOpen("failure", before)
     \/ /\ Refused /\ ~broken
        /\ failed' = TRUE /\ replies' = Append(replies, Success)
        /\ FlowReset
  /\ Leave(i, "exited")
  /\ UNCHANGED <<slots, started, committed, closed, openResults, watch>>

\* attach puts the carrier into the slot and, if it is the first, marks the
\* group started.
Publish(i) ==
  /\ at[i] = "answered" /\ Valid(i) /\ i \in up
  /\ Goto(i, IF started THEN "published" ELSE "starting")
  /\ started' = TRUE
  /\ UNCHANGED <<slots, up, startMu, committed, failed, closed, openResults, flow,
                 replyVars, watch, failures>>

\* flow.Start, which resets the flow if its carriers are gone again.
Start(i) ==
  /\ at[i] = "starting"
  /\ IF flow = "new" /\ up # {}
       THEN flow' = "started" /\ UNCHANGED <<up, broken>>
       ELSE FlowReset
  /\ Goto(i, "published")
  /\ UNCHANGED <<slots, startMu, groupVars, replies, watch, failures>>

\* attach's startGroupWorker for monitorCarrier; if it refuses, the carrier is
\* closed.
StartMonitor(i) ==
  /\ at[i] = "published"
  /\ IF Refused THEN Detach(i) /\ Leave(i, "exited")
                ELSE Leave(i, "monitor") /\ UNCHANGED <<up, flow, broken>>
  /\ UNCHANGED <<slots, groupVars, replies, watch, failures>>

CarrierEnds(i) ==
  /\ i \in up
  /\ IF SessionsClosed THEN UNCHANGED failures ELSE MayFail
  /\ Detach(i)
  /\ UNCHANGED <<at, slots, startMu, groupVars, replies, watch>>

\* monitorCarrier: removeCarrier and retry.
Monitor(i) ==
  /\ at[i] = "monitor" /\ i \notin up
  /\ Goto(i, RetryAt(i))
  /\ UNCHANGED <<slots, up, startMu, groupVars, flow, replyVars, watch, failures>>

\* The interface goes away: syncPaths drops the slot and its carrier.
SlotRemoved(i) ==
  /\ i \in slots /\ at[i] # "idle" /\ ~Refused /\ MayFail
  /\ slots' = slots \ {i}
  /\ IF at[i] \in {"starting", "published", "monitor"} /\ i \in up
       THEN Detach(i) ELSE UNCHANGED <<up, flow, broken>>
  /\ UNCHANGED <<at, startMu, groupVars, replies, watch>>

-----------------------------------------------------------------------------
(* watchOpen, the application and the end of the stream.                   *)

\* The timer fires, and failOpen under startMu.
WatchGivesUp ==
  /\ watch = "waiting" /\ startMu = {}
  /\ FailOpen(Preferred, replies)
  /\ watch' = "done"
  /\ UNCHANGED <<at, slots, startMu, started, committed, closed, openResults,
                 failures>>

\* The runtime stops.
WatchCancelled ==
  /\ watch = "waiting" /\ cancelled
  /\ watch' = "done"
  /\ FlowReset
  /\ UNCHANGED <<at, slots, startMu, groupVars, replies, failures>>

WatchEnds ==
  /\ watch = "waiting" /\ (started \/ flow = "reset")
  /\ watch' = "done"
  /\ UNCHANGED <<at, slots, up, startMu, groupVars, flow, replyVars, failures>>

\* The application or the destination ends a started stream.
StreamEnds ==
  /\ flow = "started" /\ MayFail
  /\ FlowReset
  /\ UNCHANGED <<at, slots, startMu, groupVars, replies, watch>>

\* accept, after flow.Done: releaseCarrierGroup closes the group and forgets
\* it, and finishAccept.
Release ==
  /\ request = "waiting" /\ flow = "reset" /\ startMu = {}
  /\ closed' = TRUE
  /\ request' = "finished"
  /\ UNCHANGED <<access, stopVars, at, slots, up, startMu, started, committed, failed,
                 openResults, flow, replyVars, watch, failures>>

-----------------------------------------------------------------------------
(* Shutdown.                                                               *)

\* The context of runTCP is cancelled, from outside.
Cancel ==
  /\ ~cancelled /\ cancelled' = TRUE
  /\ UNCHANGED <<request, access, shutdown, listed, at, slots, up, startMu,
                 groupVars, flow, replyVars, watch, failures>>

\* What the registries hold for the request.
Listed ==
  (IF request \in {"arriving", "finished"} THEN {} ELSE {"conn"}) \cup
  (IF request \in {"launch", "watch", "waiting"} THEN {"flow"} ELSE {})

\* The listener was closed by closeOnCancel, or fails: runTCP returns and
\* shutdown lists, under runtime.mu, what it will close.
ShutdownBegins ==
  /\ shutdown = "running"
  /\ shutdown' = "cancel" /\ listed' = Listed
  /\ UNCHANGED <<request, access, cancelled, at, slots, up, startMu, groupVars,
                 flow, replyVars, watch, failures>>

ShutdownCancels ==
  /\ shutdown = "cancel"
  /\ shutdown' = "conns" /\ cancelled' = TRUE
  /\ UNCHANGED <<request, access, listed, at, slots, up, startMu, groupVars,
                 flow, replyVars, watch, failures>>

\* The physical sessions, then the accepted connections.
ClosesConns ==
  /\ shutdown = "conns"
  /\ shutdown' = "flows"
  /\ broken' = (broken \/ "conn" \in listed)
  /\ UNCHANGED <<request, access, listed, cancelled, at, slots, up, startMu,
                 groupVars, flow, replies, watch, failures>>

ClosesFlows ==
  /\ shutdown = "flows"
  /\ shutdown' = "groups"
  /\ IF "flow" \in listed THEN FlowReset ELSE UNCHANGED <<flow, up, broken>>
  /\ UNCHANGED <<request, access, listed, cancelled, at, slots, startMu,
                 groupVars, replies, watch, failures>>

\* group.close waits for startMu.
ClosesGroups ==
  /\ shutdown = "groups" /\ ("flow" \in listed => startMu = {})
  /\ shutdown' = "wait"
  /\ closed' = (closed \/ "flow" \in listed)
  /\ UNCHANGED <<request, access, listed, cancelled, at, slots, up, startMu,
                 started, committed, failed, openResults, flow, replyVars,
                 watch, failures>>

\* No accept goroutine, attempt or watcher is left.
Quiet ==
  /\ request \in {"arriving", "finished"} /\ watch # "waiting"
  /\ \A i \in Interface : at[i] \in {"idle", "exited"}

\* acceptWG.Wait and groupWG.Wait.
ShutdownReturns ==
  /\ shutdown = "wait" /\ Quiet
  /\ shutdown' = "done"
  /\ UNCHANGED <<request, access, listed, cancelled, at, slots, up, startMu,
                 groupVars, flow, replyVars, watch, failures>>

-----------------------------------------------------------------------------
Accept ==
  \/ StartAccept \/ Greet \/ Authenticate \/ ReadConnect \/ NegotiationFails
  \/ Assign \/ Launch \/ StartWatch \/ Release

Attempt(i) ==
  /\ \/ OpenFails(i) \/ OpenSucceeds(i)
     \/ \E k \in DOMAIN Result : OpenRejected(i, Result[k])
     \/ AttachBegins(i) \/ AttachAbandoned(i) \/ AttachRetries(i) \/ Answer(i)
     \/ AnswerFails(i) \/ Publish(i) \/ Start(i) \/ StartMonitor(i) \/ Monitor(i)
  /\ UNCHANGED clientVars

WatchOpen == (WatchGivesUp \/ WatchCancelled \/ WatchEnds) /\ UNCHANGED clientVars

\* What the network, the application and the operator do.
Environment ==
  /\ StreamEnds \/ \E i \in Interface : CarrierEnds(i) \/ SlotRemoved(i)
  /\ UNCHANGED clientVars

Shutdown ==
  \/ cancelled /\ ShutdownBegins
  \/ ShutdownCancels \/ ClosesConns \/ ClosesFlows \/ ClosesGroups \/ ShutdownReturns

Next ==
  \/ Accept \/ WatchOpen \/ Environment \/ \E i \in Interface : Attempt(i)
  \/ Cancel \/ ShutdownBegins \/ Shutdown

Spec == Init /\ [][Next]_vars

\* Goroutines go on; the OPEN timeout, the open timer and the deadline of the
\* negotiation fire.  startMu is contended for a bounded number of attempts.
FairSpec ==
  /\ Spec
  /\ WF_vars(Accept) /\ WF_vars(WatchOpen) /\ WF_vars(Shutdown)
  /\ \A i \in Interface : WF_vars(Attempt(i))

-----------------------------------------------------------------------------
(* Properties.                                                             *)

\* Every field has its type; startMu is held by an attempt inside attach.
TypeOK ==
  /\ request \in {"arriving", "greeting", "credentials", "connect", "assign",
                  "launch", "watch", "waiting", "finished"}
  /\ shutdown \in {"running", "cancel", "conns", "flows", "groups", "wait", "done"}
  /\ access \in {"open", "right", "wrong"} /\ listed \subseteq {"conn", "flow"}
  /\ slots \subseteq Interface /\ up \subseteq Interface
  /\ at \in [Interface -> {"idle", "opening", "opened", "attached", "answered",
                           "starting", "published", "monitor", "exited"}]
  /\ startMu = {i \in Interface :
                  at[i] \in {"attached", "answered", "starting", "published"}}
  /\ \A i, j \in startMu : i = j
  /\ {started, committed, failed, closed, broken} \subseteq BOOLEAN
  /\ flow \in {"new", "started", "reset"} /\ watch \in {"none", "waiting", "done"}

\* What a reply says that is no refusal by failOpenLocked.
NoRefusal == {"succeeded", "unsupported"}

\* A request that is refused first is refused with the most telling refusal of
\* the servers.
BestRefusal ==
  replies # <<>> /\ replies[1].what \notin NoRefusal =>
    \/ replies[1].what = "failure" /\ openResults = {}
    \/ \E j \in DOMAIN Result :
         /\ replies[1].what = Result[j] /\ Result[j] \in openResults
         /\ \A m \in 1 .. (j - 1) : Result[m] \notin openResults

\* Although the negotiation, several carriers, the timer, retries of a first
\* carrier that was lost and a runtime that stops could each send one, the
\* application is sent one reply, the best one if it refuses.  Only when the
\* success of the first carrier could not be written out does one more follow,
\* which says general failure; so two complete replies never go out.
OneReply ==
  /\ BestRefusal
  /\ \A k \in DOMAIN replies : k > 1 =>
       /\ k = 2 /\ replies[2].what = "failure" /\ failed
       /\ replies[1].what = "succeeded" /\ replies[1].how # "all"

\* A stream either starts or fails to open: after a reply that refuses the
\* request nothing is started; what started was answered before, and comes
\* from an application that presented the credentials that are configured.
StartsOrFails ==
  /\ ~(started /\ failed)
  /\ started => committed /\ replies = <<Success>>
  /\ flow = "started" => started
  /\ committed => access # "wrong"

\* A carrier that works belongs to an attempt that is under way or watches
\* it, and none is left when the group is closed.
CarriersOwned ==
  /\ \A i \in up : at[i] \in {"attached", "answered", "starting", "published", "monitor"}
  /\ closed => up = {}

\* The request has no open attempts yet.
Early == request \in {"arriving", "greeting", "credentials", "connect", "assign", "launch"}
Unopened == \A i \in Interface : at[i] = "idle"

\* What the goroutines rely on: nothing is answered, refused or started before
\* the attempts begin, and they begin only with the right credentials; what an
\* attempt has passed inside attach stays true, and the group stays open there;
\* a refusal is the last word; and a flow that was reset keeps no carrier.
RequestInv ==
  /\ Early => /\ Unopened /\ ~committed /\ ~started /\ ~failed
              /\ openResults = {} /\ watch = "none"
  /\ access = "wrong" =>
       Unopened /\ request \in {"arriving", "greeting", "credentials", "finished"}
  /\ openResults \subseteq {Result[k] : k \in DOMAIN Result}
  /\ committed => replies = <<Success>>
  /\ ~committed /\ ~broken => replies = <<>>
  /\ \A i \in Interface :
       /\ at[i] = "attached" => ~failed /\ ~closed
       /\ at[i] \in {"answered", "starting", "published", "monitor"} => committed
       /\ at[i] \in {"starting", "published", "monitor"} => started
  /\ \A k \in DOMAIN replies : replies[k].what \notin NoRefusal =>
       failed \/ (request = "finished" /\ Unopened)
  /\ flow = "reset" => up = {}
  /\ closed => flow = "reset"
  /\ shutdown \in {"groups", "wait", "done"} /\ "flow" \in listed => flow = "reset"

\* The type invariant, the lock and the owners of the carriers.
GroupInv == TypeOK /\ CarriersOwned /\ RequestInv

\* Every request is settled: it starts a stream, or it is refused or given up
\* and forgotten, also when the first carrier is lost between the reply and
\* the start, or the client stops while the request is anywhere.
EverySettled == <>(flow = "started" \/ request = "finished")

\* The client can stop: whatever a request is doing, its connection is closed
\* and its goroutines end, so that shutdown's waits come to an end.
ShutdownCompletes == cancelled ~> shutdown = "done"
=============================================================================
