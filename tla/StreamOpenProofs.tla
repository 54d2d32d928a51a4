--------------------------- MODULE StreamOpenProofs ---------------------------
(***************************************************************************)
(* Proofs about module StreamOpen, for any number of interfaces and any    *)
(* refusals: a request is answered once, unless the success of its first   *)
(* carrier could not be written out; a stream starts only for a request    *)
(* that was answered with success, never for one that was refused; and no  *)
(* carrier is left to nobody.                                              *)
(***************************************************************************)
EXTENDS StreamOpen, FiniteSetTheorems, TLAPS

\* The three invariants together, which need each other.
Inv == GroupInv /\ OneReply /\ StartsOrFails
-----------------------------------------------------------------------------
(* The request.                                                            *)

\* Before the attempts begin the request only moves on.
LEMMA ProceedKeeps ==
  ASSUME Inv, Early, NEW where \in {"greeting", "credentials", "connect", "assign", "finished"},
         Proceed(where), access = "wrong" => where \in {"greeting", "credentials", "finished"}
  PROVE  Inv'
BY DEF Proceed, stopVars, groupVars, replyVars,
       Inv, GroupInv, TypeOK, CarriersOwned, RequestInv, Early, Unopened,
       OneReply, BestRefusal, StartsOrFails

LEMMA NegotiationKeeps ==
  ASSUME Inv, StartAccept \/ Greet \/ Authenticate \/ ReadConnect
  PROVE  Inv'
<1>1. CASE StartAccept
  BY <1>1, ProceedKeeps DEF StartAccept, Early
<1>2. CASE Greet
  BY <1>2, ProceedKeeps DEF Greet, Method, Early
<1>3. CASE Authenticate
  BY <1>3, ProceedKeeps DEF Authenticate, Early
<1>4. CASE ReadConnect
  <2>1. access # "wrong"
    BY <1>4 DEF ReadConnect, Inv, GroupInv, RequestInv
  <2> QED BY <1>4, <2>1, ProceedKeeps DEF ReadConnect, Early
<1> QED BY <1>1, <1>2, <1>3, <1>4

\* The first reply: it says what it should, however much of it is written.
LEMMA FirstReply ==
  ASSUME NEW what, NEW how
  PROVE  LET r == Append(<<>>, Reply(what, how))
         IN Len(r) = 1 /\ DOMAIN r = {1} /\ r # <<>> /\ r[1].what = what /\ r[1].how = how
<1>1. PICK x : x = Reply(what, how)
  OBVIOUS
<1>2. x.what = what /\ x.how = how
  BY <1>1 DEF Reply
<1>3. LET r == Append(<<>>, x) IN Len(r) = 1 /\ DOMAIN r = {1} /\ r # <<>> /\ r[1] = x
  OBVIOUS
<1> QED BY <1>1, <1>2, <1>3

\* WriteReply begins no reply or one.
LEMMA FirstWritten ==
  ASSUME NEW what, ~broken => replies = <<>>, replies' \in Written(replies, what)
  PROVE  \/ UNCHANGED replies
         \/ /\ DOMAIN replies' = {1} /\ replies' # <<>> /\ replies'[1].what = what
<1>1. CASE broken
  BY <1>1 DEF Written
<1>2. CASE ~broken
  <2>1. PICK how \in How : replies' = Append(<<>>, Reply(what, how))
    BY <1>2 DEF Written
  <2> QED BY <2>1, FirstReply
<1> QED BY <1>1, <1>2

LEMMA NegotiationFailsKeeps ==
  ASSUME Inv, NegotiationFails
  PROVE  Inv'
<1>1. /\ Early /\ Unopened /\ ~committed /\ ~started /\ ~failed
      /\ openResults = {} /\ watch = "none" /\ (~broken => replies = <<>>)
  BY DEF NegotiationFails, Negotiating, Inv, GroupInv, RequestInv, Early
<1>2. /\ request' = "finished" /\ broken' = TRUE
      /\ UNCHANGED <<access, stopVars, at, slots, up, startMu, groupVars, flow, watch, failures>>
  BY DEF NegotiationFails
<1>3. \/ UNCHANGED replies
      \/ DOMAIN replies' = {1} /\ replies' # <<>> /\ replies'[1].what = "unsupported"
  BY <1>1, FirstWritten DEF NegotiationFails
<1>4. OneReply'
  BY <1>1, <1>2, <1>3 DEF groupVars, NoRefusal, Inv, OneReply, BestRefusal
<1>5. StartsOrFails'
  BY <1>1, <1>2 DEF groupVars, Inv, StartsOrFails
<1>6. GroupInv'
  BY <1>1, <1>2, <1>3 DEF stopVars, groupVars, NoRefusal, Inv, GroupInv, TypeOK, CarriersOwned,
     RequestInv, Early, Unopened
<1> QED BY <1>4, <1>5, <1>6 DEF Inv

LEMMA LaunchKeeps ==
  ASSUME Inv, Launch
  PROVE  Inv'
BY DEF Launch, Refused, stopVars, groupVars, replyVars,
       Inv, GroupInv, TypeOK, CarriersOwned, RequestInv, Early, Unopened,
       OneReply, BestRefusal, StartsOrFails

LEMMA StartWatchKeeps ==
  ASSUME Inv, StartWatch
  PROVE  Inv'
<1>1. /\ request = "watch" /\ request' = "waiting" /\ watch' \in {"waiting", "done"}
      /\ UNCHANGED <<access, stopVars, at, slots, startMu, groupVars, replies, failures>>
      /\ \/ flow' = "reset" /\ up' = {} /\ broken' = TRUE
         \/ UNCHANGED <<flow, up, broken>>
  BY DEF StartWatch, FlowReset
<1>2. access # "wrong"
  BY <1>1 DEF Inv, GroupInv, RequestInv
<1>3. OneReply' /\ StartsOrFails'
  BY <1>1 DEF groupVars, Inv, OneReply, BestRefusal, StartsOrFails
<1>4. TypeOK' /\ CarriersOwned'
  BY <1>1 DEF stopVars, groupVars, Inv, GroupInv, TypeOK, CarriersOwned
<1>5. RequestInv'
  BY <1>1, <1>2 DEF stopVars, groupVars, Inv, GroupInv, RequestInv, Early, Unopened
<1> QED BY <1>3, <1>4, <1>5 DEF Inv, GroupInv

LEMMA ReleaseKeeps ==
  ASSUME Inv, Release
  PROVE  Inv'
BY DEF Release, stopVars, replyVars,
       Inv, GroupInv, TypeOK, CarriersOwned, RequestInv, Early, Unopened,
       OneReply, BestRefusal, StartsOrFails

-----------------------------------------------------------------------------
(* The watcher, the application and the shutdown.                          *)

LEMMA WatchCancelledKeeps ==
  ASSUME Inv, WatchCancelled, UNCHANGED clientVars
  PROVE  Inv'
BY DEF WatchCancelled, FlowReset, clientVars, stopVars, groupVars,
       Inv, GroupInv, TypeOK, CarriersOwned, RequestInv, Early, Unopened,
       OneReply, BestRefusal, StartsOrFails

LEMMA WatchEndsKeeps ==
  ASSUME Inv, WatchEnds, UNCHANGED clientVars
  PROVE  Inv'
BY DEF WatchEnds, clientVars, stopVars, groupVars, replyVars,
       Inv, GroupInv, TypeOK, CarriersOwned, RequestInv, Early, Unopened,
       OneReply, BestRefusal, StartsOrFails

LEMMA StreamEndsKeeps ==
  ASSUME Inv, StreamEnds, UNCHANGED clientVars
  PROVE  Inv'
BY DEF StreamEnds, MayFail, FlowReset, clientVars, stopVars, groupVars,
       Inv, GroupInv, TypeOK, CarriersOwned, RequestInv, Early, Unopened,
       OneReply, BestRefusal, StartsOrFails

LEMMA CancelKeeps ==
  ASSUME Inv, Cancel
  PROVE  Inv'
BY DEF Cancel, groupVars, replyVars,
       Inv, GroupInv, TypeOK, CarriersOwned, RequestInv, Early, Unopened,
       OneReply, BestRefusal, StartsOrFails

LEMMA ShutdownBeginsKeeps ==
  ASSUME Inv, ShutdownBegins
  PROVE  Inv'
BY DEF ShutdownBegins, Listed, groupVars, replyVars,
       Inv, GroupInv, TypeOK, CarriersOwned, RequestInv, Early, Unopened,
       OneReply, BestRefusal, StartsOrFails

LEMMA ShutdownCancelsKeeps ==
  ASSUME Inv, ShutdownCancels
  PROVE  Inv'
BY DEF ShutdownCancels, groupVars, replyVars,
       Inv, GroupInv, TypeOK, CarriersOwned, RequestInv, Early, Unopened,
       OneReply, BestRefusal, StartsOrFails

LEMMA ClosesConnsKeeps ==
  ASSUME Inv, ClosesConns
  PROVE  Inv'
BY DEF ClosesConns, groupVars,
       Inv, GroupInv, TypeOK, CarriersOwned, RequestInv, Early, Unopened,
       OneReply, BestRefusal, StartsOrFails

LEMMA ClosesGroupsKeeps ==
  ASSUME Inv, ClosesGroups
  PROVE  Inv'
BY DEF ClosesGroups, replyVars,
       Inv, GroupInv, TypeOK, CarriersOwned, RequestInv, Early, Unopened,
       OneReply, BestRefusal, StartsOrFails

LEMMA ShutdownReturnsKeeps ==
  ASSUME Inv, ShutdownReturns
  PROVE  Inv'
BY DEF ShutdownReturns, groupVars, replyVars,
       Inv, GroupInv, TypeOK, CarriersOwned, RequestInv, Early, Unopened,
       OneReply, BestRefusal, StartsOrFails

-----------------------------------------------------------------------------
(* An open attempt.                                                        *)

LEMMA OpenFailsKeeps ==
  ASSUME Inv, NEW i \in Interface, OpenFails(i), UNCHANGED clientVars
  PROVE  Inv'
BY DEF OpenFails, Refused, Valid, MayFail, Goto, RetryAt,
       clientVars, stopVars, groupVars, replyVars,
       Inv, GroupInv, TypeOK, CarriersOwned, RequestInv, Early, Unopened,
       OneReply, BestRefusal, StartsOrFails

LEMMA OpenSucceedsKeeps ==
  ASSUME Inv, NEW i \in Interface, OpenSucceeds(i), UNCHANGED clientVars
  PROVE  Inv'
BY DEF OpenSucceeds, SessionsClosed, Goto,
       clientVars, stopVars, groupVars, replyVars,
       Inv, GroupInv, TypeOK, CarriersOwned, RequestInv, Early, Unopened,
       OneReply, BestRefusal, StartsOrFails

LEMMA AttachBeginsKeeps ==
  ASSUME Inv, NEW i \in Interface, AttachBegins(i), UNCHANGED clientVars
  PROVE  Inv'
BY DEF AttachBegins, Valid, Goto,
       clientVars, stopVars, groupVars, replyVars,
       Inv, GroupInv, TypeOK, CarriersOwned, RequestInv, Early, Unopened,
       OneReply, BestRefusal, StartsOrFails

LEMMA AttachAbandonedKeeps ==
  ASSUME Inv, NEW i \in Interface, AttachAbandoned(i), UNCHANGED clientVars
  PROVE  Inv'
BY DEF AttachAbandoned, Valid, CloseAbandoned, Detach, Leave, Goto,
       clientVars, stopVars, groupVars, replyVars,
       Inv, GroupInv, TypeOK, CarriersOwned, RequestInv, Early, Unopened,
       OneReply, BestRefusal, StartsOrFails

LEMMA AttachRetriesKeeps ==
  ASSUME Inv, NEW i \in Interface, AttachRetries(i), UNCHANGED clientVars
  PROVE  Inv'
BY DEF AttachRetries, Valid, Leave, Goto, RetryAt, Refused,
       clientVars, stopVars, groupVars, replyVars,
       Inv, GroupInv, TypeOK, CarriersOwned, RequestInv, Early, Unopened,
       OneReply, BestRefusal, StartsOrFails

\* Two replies, the first of which is a success.
LEMMA SecondReply ==
  ASSUME NEW how, NEW last
  PROVE  LET r == Append(Append(<<>>, Reply("succeeded", how)), Reply("failure", last))
         IN /\ DOMAIN r = {1, 2} /\ r # <<>>
            /\ r[1].what = "succeeded" /\ r[1].how = how /\ r[2].what = "failure"
<1>1. PICK x, y : x = Reply("succeeded", how) /\ y = Reply("failure", last)
  OBVIOUS
<1>2. x.what = "succeeded" /\ x.how = how /\ y.what = "failure"
  BY <1>1 DEF Reply
<1>3. LET r == Append(Append(<<>>, x), y)
      IN DOMAIN r = {1, 2} /\ r # <<>> /\ r[1] = x /\ r[2] = y
  OBVIOUS
<1> QED BY <1>1, <1>2, <1>3

\* The success cannot be written out: the stream fails, and the application is
\* told so in a second reply if it takes one.
LEMMA AnswerFailsKeeps ==
  ASSUME Inv, NEW i \in Interface, AnswerFails(i), UNCHANGED clientVars
  PROVE  Inv'
<1>1. /\ at[i] = "attached" /\ MayGiveUp /\ ~committed /\ ~started /\ ~Early
      /\ ~Unopened /\ access # "wrong" /\ (~broken => replies = <<>>)
  BY DEF AnswerFails, NeedsCommit, MayGiveUp, Inv, GroupInv, RequestInv, Unopened
<1>2. /\ failed' = TRUE /\ flow' = "reset" /\ up' = {} /\ broken' = TRUE
      /\ startMu' = {} /\ Goto(i, "exited")
      /\ UNCHANGED <<slots, started, committed, closed, openResults, watch>>
  BY <1>1 DEF AnswerFails, FailOpen, FlowReset, Leave
<1>3. \/ UNCHANGED replies
      \/ \E how \in {"none", "some"} : \E last \in How :
           replies' = Append(Append(<<>>, Reply("succeeded", how)), Reply("failure", last))
      \/ replies' = Append(<<>>, Success)
  <2>1. CASE \E before \in FailedAnswer : FailOpen("failure", before)
    <3>1. PICK before \in FailedAnswer : replies' \in Written(before, "failure")
      BY <1>1, <2>1 DEF FailOpen, TellsFailure
    <3> QED BY <1>1, <3>1 DEF FailedAnswer, Written
  <2>2. CASE ~broken /\ replies' = Append(replies, Success)
    BY <1>1, <2>2
  <2> QED BY <2>1, <2>2 DEF AnswerFails
<1>4. \/ UNCHANGED replies
      \/ /\ DOMAIN replies' = {1, 2} /\ replies' # <<>> /\ replies'[2].what = "failure"
         /\ replies'[1].what = "succeeded" /\ replies'[1].how # "all"
      \/ DOMAIN replies' = {1} /\ replies' # <<>> /\ replies'[1].what = "succeeded"
  BY <1>3, FirstReply, SecondReply DEF Success
<1>5. OneReply'
  BY <1>2, <1>4 DEF NoRefusal, Inv, OneReply, BestRefusal
<1>6. StartsOrFails'
  BY <1>1, <1>2 DEF clientVars, Inv, StartsOrFails
<1>7. TypeOK' /\ CarriersOwned'
  BY <1>1, <1>2 DEF Goto, clientVars, stopVars, Inv, GroupInv, TypeOK, CarriersOwned
<1>8. RequestInv'
  <2>1. \A j \in Interface : at'[j] = IF j = i THEN "exited" ELSE at[j]
    BY <1>2 DEF Goto, Inv, GroupInv, TypeOK
  <2>2. \A j \in Interface : j # i => at[j] # "attached"
    BY <1>1 DEF Inv, GroupInv, TypeOK
  <2>3. ~Early' /\ UNCHANGED <<access, request, shutdown, listed>>
    BY <1>1 DEF clientVars, stopVars, Early
  <2> QED BY <1>1, <1>2, <2>1, <2>2, <2>3 DEF Inv, GroupInv, RequestInv
<1> QED BY <1>5, <1>6, <1>7, <1>8 DEF Inv, GroupInv

LEMMA PublishKeeps ==
  ASSUME Inv, NEW i \in Interface, Publish(i), UNCHANGED clientVars
  PROVE  Inv'
BY DEF Publish, Valid, Goto,
       clientVars, stopVars, groupVars, replyVars,
       Inv, GroupInv, TypeOK, CarriersOwned, RequestInv, Early, Unopened,
       OneReply, BestRefusal, StartsOrFails

LEMMA StartMonitorKeeps ==
  ASSUME Inv, NEW i \in Interface, StartMonitor(i), UNCHANGED clientVars
  PROVE  Inv'
BY DEF StartMonitor, Refused, Detach, Leave, Goto,
       clientVars, stopVars, groupVars, replyVars,
       Inv, GroupInv, TypeOK, CarriersOwned, RequestInv, Early, Unopened,
       OneReply, BestRefusal, StartsOrFails

LEMMA MonitorKeeps ==
  ASSUME Inv, NEW i \in Interface, Monitor(i), UNCHANGED clientVars
  PROVE  Inv'
BY DEF Monitor, Goto, RetryAt,
       clientVars, stopVars, groupVars, replyVars,
       Inv, GroupInv, TypeOK, CarriersOwned, RequestInv, Early, Unopened,
       OneReply, BestRefusal, StartsOrFails

LEMMA CarrierEndsKeeps ==
  ASSUME Inv, NEW i \in Interface, CarrierEnds(i), UNCHANGED clientVars
  PROVE  Inv'
BY DEF CarrierEnds, SessionsClosed, MayFail, Detach,
       clientVars, stopVars, groupVars, replyVars,
       Inv, GroupInv, TypeOK, CarriersOwned, RequestInv, Early, Unopened,
       OneReply, BestRefusal, StartsOrFails

LEMMA SlotRemovedKeeps ==
  ASSUME Inv, NEW i \in Interface, SlotRemoved(i), UNCHANGED clientVars
  PROVE  Inv'
BY DEF SlotRemoved, Refused, MayFail, Detach,
       clientVars, stopVars, groupVars, replyVars,
       Inv, GroupInv, TypeOK, CarriersOwned, RequestInv, Early, Unopened,
       OneReply, BestRefusal, StartsOrFails

LEMMA AssignKeeps ==
  ASSUME Inv, Assign
  PROVE  Inv'
<1>1. /\ Unopened /\ Early /\ ~committed /\ ~started /\ ~failed /\ openResults = {}
      /\ watch = "none" /\ access # "wrong" /\ (~broken => replies = <<>>)
  BY DEF Assign, Inv, GroupInv, RequestInv, Early
<1>2. UNCHANGED <<access, stopVars, at, slots, startMu, groupVars, watch, failures>>
  BY DEF Assign
<1>3. CASE Refused
  <2>1. /\ request' = "finished" /\ flow' = "reset" /\ up' = {} /\ broken' = TRUE
        /\ replies' \in Written(replies, "failure")
    BY <1>3 DEF Assign, FlowReset
  <2>2. \/ UNCHANGED replies
        \/ DOMAIN replies' = {1} /\ replies' # <<>> /\ replies'[1].what = "failure"
    BY <1>1, <2>1, FirstWritten
  <2>3. OneReply'
    BY <1>1, <1>2, <2>1, <2>2 DEF groupVars, NoRefusal, Inv, OneReply, BestRefusal
  <2>4. StartsOrFails'
    BY <1>1, <1>2, <2>1 DEF groupVars, Inv, StartsOrFails
  <2>5. GroupInv'
    BY <1>1, <1>2, <2>1, <2>2 DEF stopVars, groupVars, NoRefusal, Inv, GroupInv, TypeOK,
       CarriersOwned, RequestInv, Early, Unopened
  <2> QED BY <2>3, <2>4, <2>5 DEF Inv
<1>4. CASE ~Refused
  <2>1. request' = "launch" /\ UNCHANGED <<flow, up, replyVars>>
    BY <1>4 DEF Assign
  <2> QED BY <1>1, <1>2, <2>1 DEF stopVars, groupVars, replyVars, Inv, GroupInv, TypeOK,
          CarriersOwned, RequestInv, Early, Unopened, OneReply, BestRefusal, StartsOrFails
<1> QED BY <1>3, <1>4

LEMMA ClosesFlowsKeeps ==
  ASSUME Inv, ClosesFlows
  PROVE  Inv'
<1>1. /\ shutdown' = "groups"
      /\ UNCHANGED <<request, access, listed, cancelled, at, slots, startMu,
                     groupVars, replies, watch, failures>>
  BY DEF ClosesFlows
<1>2. CASE "flow" \in listed
  <2>1. flow' = "reset" /\ up' = {} /\ broken' = TRUE
    BY <1>2 DEF ClosesFlows, FlowReset
  <2> QED BY <1>1, <2>1 DEF groupVars, Inv, GroupInv, TypeOK, CarriersOwned,
          RequestInv, Early, Unopened, OneReply, BestRefusal, StartsOrFails
<1>3. CASE "flow" \notin listed
  <2>1. UNCHANGED <<flow, up, broken>>
    BY <1>3 DEF ClosesFlows
  <2> QED BY <1>1, <1>3, <2>1 DEF groupVars, Inv, GroupInv, TypeOK, CarriersOwned,
          RequestInv, Early, Unopened, OneReply, BestRefusal, StartsOrFails
<1> QED BY <1>2, <1>3

\* The first carrier answers: nothing was written before.
LEMMA AnswerKeeps ==
  ASSUME Inv, NEW i \in Interface, Answer(i), UNCHANGED clientVars
  PROVE  Inv'
<1>1. /\ at[i] = "attached" /\ Goto(i, "answered")
      /\ UNCHANGED <<slots, up, startMu, started, failed, closed, openResults,
                     flow, watch, failures>>
  BY DEF Answer
<1>2. CASE NeedsCommit /\ ~broken /\ replies' = Append(replies, Success)
           /\ committed' = TRUE /\ UNCHANGED broken
  <2>1. replies' = <<Success>> /\ DOMAIN replies' = {1} /\ replies'[1].what = "succeeded"
    <3>1. replies' = Append(<<>>, Success)
      BY <1>2 DEF NeedsCommit, Inv, GroupInv, RequestInv
    <3> QED BY <3>1, FirstReply DEF Success
  <2>2. ~Early /\ access # "wrong" /\ ~Unopened
    BY <1>1 DEF Inv, GroupInv, RequestInv, Unopened
  <2>3. OneReply'
    BY <1>1, <2>1 DEF NoRefusal, OneReply, BestRefusal
  <2>4. StartsOrFails'
    BY <1>1, <1>2, <2>1, <2>2 DEF clientVars, Inv, StartsOrFails
  <2>5. TypeOK' /\ CarriersOwned'
    BY <1>1, <1>2 DEF Goto, clientVars, stopVars, Inv, GroupInv, TypeOK, CarriersOwned
  <2>6. RequestInv'
    <3>1. \A k \in DOMAIN replies' : replies'[k].what \in NoRefusal
      BY <2>1 DEF NoRefusal
    <3>2. \A j \in Interface : at'[j] = IF j = i THEN "answered" ELSE at[j]
      BY <1>1 DEF Goto, Inv, GroupInv, TypeOK
    <3>3. ~Early' /\ UNCHANGED <<access, request, shutdown, listed>>
      BY <2>2 DEF clientVars, stopVars, Early
    <3> QED BY <1>1, <1>2, <2>1, <2>2, <3>1, <3>2, <3>3 DEF Inv, GroupInv, RequestInv
  <2> QED BY <2>3, <2>4, <2>5, <2>6 DEF Inv, GroupInv
<1>3. CASE ~NeedsCommit /\ UNCHANGED <<committed, replyVars>>
  <2>1. committed
    BY <1>3 DEF NeedsCommit, Inv, GroupInv, RequestInv, StartsOrFails
  <2> QED BY <1>1, <1>3, <2>1 DEF Goto, clientVars, stopVars, replyVars, Inv, GroupInv, TypeOK,
          CarriersOwned, RequestInv, Early, Unopened, OneReply, BestRefusal, StartsOrFails
<1> QED BY <1>2, <1>3 DEF Answer

LEMMA StartKeeps ==
  ASSUME Inv, NEW i \in Interface, Start(i), UNCHANGED clientVars
  PROVE  Inv'
<1>1. /\ at[i] = "starting" /\ Goto(i, "published") /\ started
      /\ UNCHANGED <<slots, startMu, groupVars, replies, watch, failures>>
  BY DEF Start, Inv, GroupInv, RequestInv
<1>2. \/ flow' = "started" /\ flow = "new" /\ UNCHANGED <<up, broken>>
      \/ flow' = "reset" /\ up' = {} /\ broken' = TRUE
  BY DEF Start, FlowReset
<1>3. CASE flow' = "reset" /\ up' = {} /\ broken' = TRUE
  BY <1>1, <1>3 DEF Goto, clientVars, stopVars, groupVars, Inv, GroupInv, TypeOK,
     CarriersOwned, RequestInv, Early, Unopened, OneReply, BestRefusal, StartsOrFails
<1>4. CASE flow' = "started" /\ flow = "new" /\ UNCHANGED <<up, broken>>
  BY <1>1, <1>4 DEF Goto, clientVars, stopVars, groupVars, Inv, GroupInv, TypeOK,
     CarriersOwned, RequestInv, Early, Unopened, OneReply, BestRefusal, StartsOrFails
<1> QED BY <1>2, <1>3, <1>4

LEMMA OpenRejectedKeeps ==
  ASSUME Inv, NEW i \in Interface, NEW k \in DOMAIN Result, OpenRejected(i, Result[k]),
         UNCHANGED clientVars
  PROVE  Inv'
<1>1. /\ at[i] = "opening" /\ \E where \in {"opening", "exited"} : Goto(i, where)
      /\ UNCHANGED <<slots, up, startMu, started, committed, failed, closed, flow,
                     replyVars, watch>>
      /\ started \/ failed => UNCHANGED openResults
      /\ openResults' = openResults \/ openResults' = openResults \cup {Result[k]}
  BY DEF OpenRejected, RetryAt
<1>2. ~Early /\ access # "wrong" /\ ~Unopened
  BY <1>1 DEF Inv, GroupInv, RequestInv, Unopened
<1>3. \A n \in DOMAIN replies : replies[n].what \notin NoRefusal => UNCHANGED openResults
  BY <1>1, <1>2 DEF Inv, GroupInv, RequestInv
<1>4. OneReply'
  BY <1>1, <1>3 DEF replyVars, Inv, OneReply, BestRefusal
<1>5. StartsOrFails'
  BY <1>1 DEF clientVars, replyVars, Inv, StartsOrFails
<1>6. GroupInv'
  BY <1>1, <1>2 DEF Goto, clientVars, stopVars, replyVars, Inv, GroupInv, TypeOK,
     CarriersOwned, RequestInv, Early, Unopened
<1> QED BY <1>4, <1>5, <1>6 DEF Inv
-----------------------------------------------------------------------------
(* The timer gives up.                                                     *)

\* A set of natural numbers has a least one.
LEMMA LeastNumber ==
  ASSUME NEW T, T \subseteq Nat, T # {}
  PROVE  \E x \in T : \A y \in T : x <= y
<1> DEFINE Below == {0 .. x : x \in T}
<1>1. Below \subseteq FiniteSubsetsOf(Nat) /\ Below # {}
  <2>1. ASSUME NEW x \in T
        PROVE  0 .. x \in FiniteSubsetsOf(Nat)
    <3>1. x \in Int /\ 0 .. x \subseteq Nat
      OBVIOUS
    <3>2. IsFiniteSet(0 .. x)
      BY <3>1, FS_Interval
    <3> QED BY <3>1, <3>2 DEF FiniteSubsetsOf
  <2> QED BY <2>1
<1>2. \E B \in Below : \A C \in Below : ~(<<C, B>> \in StrictSubsetOrdering(Nat))
  <2> HIDE DEF Below
  <2> QED BY <1>1, FS_StrictSubsetOrderingWellFounded, WFMin
<1>3. PICK x \in T : \A C \in Below : ~(<<C, 0 .. x>> \in StrictSubsetOrdering(Nat))
  BY <1>2
<1>4. ASSUME NEW y \in T, y < x
      PROVE  FALSE
  <2>1. /\ 0 .. y \in SUBSET Nat /\ 0 .. x \in SUBSET Nat
        /\ 0 .. y \subseteq 0 .. x /\ 0 .. y # 0 .. x
    <3>1. x \in 0 .. x /\ x \notin 0 .. y
      BY <1>4
    <3> QED BY <1>4, <3>1
  <2>2. <<0 .. y, 0 .. x>> \in StrictSubsetOrdering(Nat)
    BY <2>1 DEF StrictSubsetOrdering
  <2> QED BY <1>3, <2>2
<1> QED BY <1>4

\* preferredOpenErrorLocked picks the most telling refusal there is.
LEMMA PreferredIsBest ==
  ASSUME Inv
  PROVE  \/ Preferred = "failure" /\ openResults = {}
         \/ \E j \in DOMAIN Result :
              /\ Preferred = Result[j] /\ Result[j] \in openResults
              /\ \A m \in 1 .. (j - 1) : Result[m] \notin openResults
<1> DEFINE T == {k \in DOMAIN Result : Result[k] \in openResults}
           IsBest(k) == /\ Result[k] \in openResults
                        /\ \A j \in 1 .. (k - 1) : Result[j] \notin openResults
<1>1. DOMAIN Result \subseteq Nat /\ \A k \in DOMAIN Result : \A m \in 1 .. (k - 1) : m \in DOMAIN Result
  BY OpenAssumption
<1>2. CASE T = {}
  <2>1. openResults = {}
    BY <1>2 DEF Inv, GroupInv, RequestInv
  <2>2. Preferred = "failure"
    BY <2>1 DEF Preferred
  <2> QED BY <2>1, <2>2
<1>3. CASE T # {}
  <2>1. PICK k \in T : \A j \in T : k <= j
    <3> HIDE DEF T
    <3>1. T \subseteq Nat
      BY <1>1 DEF T
    <3> QED BY <1>3, <3>1, LeastNumber
  <2>2. \E j \in DOMAIN Result : IsBest(j)
    <3>1. \A m \in 1 .. (k - 1) : Result[m] \notin openResults
      BY <1>1, <2>1
    <3> QED BY <2>1, <3>1
  <2>3. PICK c : c = CHOOSE j \in DOMAIN Result : IsBest(j)
    OBVIOUS
  <2>4. c \in DOMAIN Result /\ IsBest(c)
    <3> HIDE DEF IsBest
    <3> QED BY <2>2, <2>3
  <2>5. Preferred = Result[c]
    BY <1>3, <2>3 DEF Preferred
  <2> QED BY <2>4, <2>5
<1> QED BY <1>2, <1>3

LEMMA WatchGivesUpKeeps ==
  ASSUME Inv, WatchGivesUp, UNCHANGED clientVars
  PROVE  Inv'
<1>1. /\ watch = "waiting" /\ watch' = "done" /\ startMu = {}
      /\ UNCHANGED <<at, slots, startMu, started, committed, closed, openResults,
                     failures, clientVars>>
  BY DEF WatchGivesUp
<1>2. ~Early
  BY <1>1 DEF Inv, GroupInv, RequestInv
<1>3. CASE ~MayGiveUp
  <2>1. UNCHANGED <<failed, replyVars, flow, up>>
    BY <1>3 DEF WatchGivesUp, FailOpen, replyVars
  <2> QED BY <1>1, <1>2, <2>1 DEF clientVars, stopVars, replyVars, Inv, GroupInv, TypeOK,
          CarriersOwned, RequestInv, Early, Unopened, OneReply, BestRefusal, StartsOrFails
<1>4. CASE MayGiveUp
  <2>1. /\ failed' = TRUE /\ ~started /\ flow' = "reset" /\ up' = {} /\ broken' = TRUE
        /\ replies' \in TellsFailure(replies, Preferred)
    BY <1>4 DEF WatchGivesUp, FailOpen, MayGiveUp, FlowReset
  <2>2. \/ UNCHANGED replies
        \/ /\ DOMAIN replies' = {1} /\ replies' # <<>>
           /\ replies'[1].what = Preferred /\ ~committed
    <3>1. CASE committed
      BY <2>1, <3>1 DEF TellsFailure
    <3>2. CASE ~committed
      <4>1. ~broken => replies = <<>>
        BY <3>2 DEF Inv, GroupInv, RequestInv
      <4>2. PICK p : p = Preferred
        OBVIOUS
      <4>3. replies' \in Written(replies, p)
        BY <2>1, <3>2, <4>2 DEF TellsFailure
      <4> QED BY <3>2, <4>1, <4>2, <4>3, FirstWritten
    <3> QED BY <3>1, <3>2
  <2>3. TypeOK' /\ CarriersOwned'
    BY <1>1, <1>2, <2>1 DEF clientVars, stopVars, Inv, GroupInv, TypeOK, CarriersOwned
  <2>4. RequestInv'
    <3>1. \A i \in Interface : at[i] # "attached"
      BY <1>1 DEF Inv, GroupInv, TypeOK
    <3>2. committed => UNCHANGED replies
      BY <2>2
    <3> QED BY <1>1, <1>2, <2>1, <3>1, <3>2 DEF clientVars, stopVars, Inv, GroupInv,
            RequestInv, Early, Unopened
  <2>5. StartsOrFails'
    BY <1>1, <2>1 DEF clientVars, Inv, GroupInv, RequestInv, StartsOrFails
  <2>6. OneReply'
    <3>1. PICK p : p = Preferred
      OBVIOUS
    <3>2. \/ p = "failure" /\ openResults = {}
          \/ \E j \in DOMAIN Result :
               /\ p = Result[j] /\ Result[j] \in openResults
               /\ \A m \in 1 .. (j - 1) : Result[m] \notin openResults
      BY <3>1, PreferredIsBest
    <3>3. CASE UNCHANGED replies
      BY <1>1, <2>1, <3>3 DEF Inv, OneReply, BestRefusal
    <3>4. CASE DOMAIN replies' = {1} /\ replies' # <<>> /\ replies'[1].what = p
      BY <1>1, <3>2, <3>4 DEF OneReply, BestRefusal
    <3> QED BY <2>2, <3>1, <3>3, <3>4
  <2> QED BY <2>3, <2>4, <2>5, <2>6 DEF Inv, GroupInv
<1> QED BY <1>3, <1>4
-----------------------------------------------------------------------------
(* The theorems.                                                           *)

LEMMA AttemptKeeps ==
  ASSUME Inv, NEW i \in Interface, Attempt(i)
  PROVE  Inv'
BY OpenFailsKeeps, OpenSucceedsKeeps, OpenRejectedKeeps, AttachBeginsKeeps,
   AttachAbandonedKeeps, AttachRetriesKeeps, AnswerKeeps, AnswerFailsKeeps, PublishKeeps,
   StartKeeps, StartMonitorKeeps, MonitorKeeps DEF Attempt

LEMMA StutterKeeps ==
  ASSUME Inv, UNCHANGED vars
  PROVE  Inv'
BY DEF vars, clientVars, stopVars, groupVars, replyVars, Inv, GroupInv, TypeOK, CarriersOwned,
       RequestInv, Early, Unopened, OneReply, BestRefusal, StartsOrFails

LEMMA InvStep ==
  Inv /\ [Next]_vars => Inv'
<1> SUFFICES ASSUME Inv, [Next]_vars PROVE Inv'
  OBVIOUS
<1>1. CASE Accept
  BY <1>1, NegotiationKeeps, NegotiationFailsKeeps, AssignKeeps, LaunchKeeps, StartWatchKeeps,
     ReleaseKeeps DEF Accept
<1>2. CASE WatchOpen
  BY <1>2, WatchGivesUpKeeps, WatchCancelledKeeps, WatchEndsKeeps DEF WatchOpen
<1>3. CASE Environment
  BY <1>3, StreamEndsKeeps, CarrierEndsKeeps, SlotRemovedKeeps DEF Environment
<1>4. ASSUME NEW i \in Interface, Attempt(i)
      PROVE  Inv'
  BY <1>4, AttemptKeeps
<1>5. CASE Cancel \/ ShutdownBegins \/ Shutdown
  BY <1>5, CancelKeeps, ShutdownBeginsKeeps, ShutdownCancelsKeeps, ClosesConnsKeeps,
     ClosesFlowsKeeps, ClosesGroupsKeeps, ShutdownReturnsKeeps DEF Shutdown
<1>6. CASE UNCHANGED vars
  BY <1>6, StutterKeeps
<1> QED BY <1>1, <1>2, <1>3, <1>4, <1>5, <1>6 DEF Next

LEMMA InvInit ==
  Init => Inv
<1> SUFFICES ASSUME Init PROVE Inv
  OBVIOUS
<1>1. TypeOK /\ CarriersOwned
  BY DEF Init, TypeOK, CarriersOwned
<1>2. RequestInv
  BY DEF Init, RequestInv, Early, Unopened
<1>3. OneReply /\ StartsOrFails
  BY DEF Init, OneReply, BestRefusal, StartsOrFails
<1> QED BY <1>1, <1>2, <1>3 DEF Inv, GroupInv

LEMMA InvAlways == Spec => []Inv
BY InvInit, InvStep, PTL DEF Spec

\* However attempts, timer, loss of carriers and shutdown cross: one goroutine
\* at most is inside attach, every carrier that works belongs to an attempt,
\* and a group that was closed has none (attach, failOpen, close, detach).
THEOREM GroupInvariance == Spec => []GroupInv
<1>1. Inv => GroupInv
  BY DEF Inv
<1> QED BY <1>1, InvAlways, PTL

\* For any number of interfaces and of failures, a request that is refused first
\* is refused with the most telling refusal of the servers, and a second reply is
\* begun only when a success could not be written out: two complete ones never
\* go out (beforeAttach, failOpenLocked, preferredOpenErrorLocked).
THEOREM RepliesOnce == Spec => []OneReply
<1>1. Inv => OneReply
  BY DEF Inv
<1> QED BY <1>1, InvAlways, PTL

\* What starts was answered with success, never after a refusal and never for
\* wrong credentials (attach, failOpenLocked, authenticate).
THEOREM NeverStartsRefused == Spec => []StartsOrFails
<1>1. Inv => StartsOrFails
  BY DEF Inv
<1> QED BY <1>1, InvAlways, PTL
=============================================================================
