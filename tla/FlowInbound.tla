---------------------------- MODULE FlowInbound ----------------------------
(***************************************************************************)
(* The receiving half of one Flow, goroutine by goroutine: how frames pass *)
(* from a carrier's readLoop and processLoop (internal/tcpstream/          *)
(* carrier.go) through the bounded channel flow.inbound to writeEndpoint   *)
(* (stream.go), and how the stream ends when its carriers stop: by detach, *)
(* by writeEndpoint, or by readEndpoint, which has a frame to send and     *)
(* finds no carrier.  FlowPair takes these hand-overs as one step; this    *)
(* module is about the races between them.  What a frame says does not     *)
(* matter here: every frame is DATA or FIN, and the flow has been started. *)
(***************************************************************************)
EXTENDS Integers, FiniteSets

CONSTANTS
  Carrier,    \* the carriers the stream may ever have
  Initial,    \* those attached before Start
  Closable,   \* those the owner of the stream may Close while it runs
  Capacity,   \* inboundQueueCapacity: the size of flow.inbound
  MaxFrames,  \* bound: frames the peer sends on a carrier
  MaySend,    \* whether the endpoint has anything to send
  MayAbort    \* whether the stream may be reset for another reason

ASSUME InboundAssumption ==
  /\ IsFiniteSet(Carrier) /\ Initial \subseteq Carrier /\ Initial # {}
  /\ Closable \subseteq Carrier
  /\ Capacity \in Nat \ {0} /\ MaxFrames \in Nat
  /\ {MaySend, MayAbort} \subseteq BOOLEAN

VARIABLES
  attached,  \* flow.carriers
  detached,  \* carriers whose finishOnce has run
  stopping,  \* per carrier: "no", or closing with preserveRead or without
  frames,    \* per carrier: frames the peer has yet to send
  reader,    \* per carrier: where readLoop is
  process,   \* per carrier: where processLoop is
  closer,    \* carriers whose Close has stopped them and not finished yet
  queue,     \* the number of frames in flow.inbound
  pending,   \* flow.pendingInbound
  writer,    \* where writeEndpoint is
  sender,    \* where readEndpoint is
  reset,     \* how far claimResetLocked and finishReset have come
  cause,     \* who claimed the reset
  toClose,   \* the carriers finishReset took from the flow
  rescued    \* history: a carrier joined when the stream had none left

carrierVars == <<detached, stopping, frames, reader, process, closer>>
vars == <<attached, detached, stopping, frames, reader, process, closer,
          queue, pending, writer, sender, reset, cause, toClose, rescued>>

Stopping == {"no", "preserve", "drop"}
ReaderAt == {"off", "read", "forward", "finish", "resetting", "exited"}
ProcessAt == {"off", "idle", "handle", "enqueue", "release", "exited"}
WriterAt == {"select", "taken", "delivered", "failed", "lastCarrier", "error",
             "resetting", "exited"}
SenderAt == {"read", "remember", "broadcast", "noCarriers", "resetting", "exited"}
ResetAt == {"none", "claimed", "taken", "discarded", "done"}
Cause == {"none", "last carrier", "readEndpoint", "other"}

closed == reset # "none"   \* flow.closed, and flow.inboundStop is closed

Init ==
  /\ attached = Initial /\ detached = {} /\ closer = {}
  /\ stopping = [c \in Carrier |-> "no"]
  /\ frames = [c \in Carrier |-> MaxFrames]
  /\ reader = [c \in Carrier |-> IF c \in Initial THEN "read" ELSE "off"]
  /\ process = [c \in Carrier |-> IF c \in Initial THEN "idle" ELSE "off"]
  /\ queue = 0 /\ pending = 0 /\ writer = "select" /\ sender = "read"
  /\ reset = "none" /\ cause = "none" /\ toClose = {}
  /\ rescued = FALSE

\* claimResetLocked: the first caller closes the flow.
Claim(who) == reset' = "claimed" /\ cause' = who

NoClaim == UNCHANGED <<reset, cause>>

\* carrier.stop: closeOnce keeps what the first caller chose.
Stop(c, how) ==
  stopping' = [stopping EXCEPT ![c] = IF @ = "no" THEN how ELSE @]

-----------------------------------------------------------------------------
(* The carriers' own goroutines.                                           *)

\* attachLimited of a carrier while the stream runs.
Attach(c) ==
  /\ reader[c] = "off" /\ ~closed
  /\ attached' = attached \cup {c}
  /\ rescued' = (rescued \/ attached = {})
  /\ reader' = [reader EXCEPT ![c] = "read"]
  /\ process' = [process EXCEPT ![c] = "idle"]
  /\ UNCHANGED <<detached, stopping, frames, closer, queue, pending, writer, sender,
                 reset, cause, toClose>>

\* readLoop decodes a frame; the connection is closed once the carrier stops.
ReadFrame(c) ==
  /\ reader[c] = "read" /\ stopping[c] = "no" /\ frames[c] > 0
  /\ frames' = [frames EXCEPT ![c] = @ - 1]
  /\ reader' = [reader EXCEPT ![c] = "forward"]
  /\ UNCHANGED <<attached, detached, stopping, process, closer, queue,
                 pending, writer, sender, reset, cause, toClose, rescued>>

\* readLoop's Read fails: the peer or the network ended the carrier, or it
\* was stopped.  It stops the carrier and closes carrier.inbound.
ReadFails(c) ==
  /\ reader[c] = "read"
  /\ Stop(c, "preserve")
  /\ reader' = [reader EXCEPT ![c] = "finish"]
  /\ UNCHANGED <<attached, detached, frames, process, closer, queue, pending,
                 writer, sender, reset, cause, toClose, rescued>>

\* forwardInbound hands the frame to processLoop.
Forward(c) ==
  /\ reader[c] = "forward" /\ process[c] = "idle"
  /\ reader' = [reader EXCEPT ![c] = "read"]
  /\ process' = [process EXCEPT ![c] = "handle"]
  /\ UNCHANGED <<attached, detached, stopping, frames, closer, queue, pending,
                 writer, sender, reset, cause, toClose, rescued>>

\* forwardInbound gives up: processLoop has exited, or nothing is preserved.
ForwardDropped(c) ==
  /\ reader[c] = "forward"
  /\ process[c] = "exited" \/ stopping[c] = "drop"
  /\ reader' = [reader EXCEPT ![c] = "finish"]
  /\ UNCHANGED <<attached, detached, stopping, frames, process, closer, queue,
                 pending, writer, sender, reset, cause, toClose, rescued>>

\* writeLoop's Write fails.
WriteFails(c) ==
  /\ c \in attached /\ stopping[c] = "no"
  /\ Stop(c, "preserve")
  /\ UNCHANGED <<attached, detached, frames, reader, process, closer, queue,
                 pending, writer, sender, reset, cause, toClose, rescued>>

\* Mutant of DetachResets: frames a stopped carrier delivered do not hold
\* the reset back.
DetachResetsAtOnce(c) == ~closed /\ attached \subseteq {c}

\* detach: the last carrier resets the flow, unless frames it delivered are
\* still on their way and preserveInbound holds.
DetachResets(c) ==
  /\ ~closed /\ attached \subseteq {c}
  /\ stopping[c] = "preserve" => pending = 0

\* finishClose: detach, once.
FinishClose(c) ==
  /\ detached' = detached \cup {c}
  /\ attached' = attached \ {c}
  /\ IF c \notin detached /\ DetachResets(c)
       THEN Claim("last carrier") ELSE NoClaim

\* readLoop waits for processDone when it preserves what was read.
ReaderMayFinish(c) == stopping[c] = "preserve" => process[c] = "exited"

\* The end of readLoop.  Its finishClose runs finishReset if it claimed it.
ReaderFinishes(c) ==
  /\ reader[c] = "finish" /\ ReaderMayFinish(c)
  /\ FinishClose(c)
  /\ reader' = [reader EXCEPT ![c] =
                  IF reset' # reset THEN "resetting" ELSE "exited"]
  /\ UNCHANGED <<stopping, frames, process, closer, queue, pending, writer, sender,
                 toClose, rescued>>

ReaderReturns(c) ==
  /\ reader[c] = "resetting" /\ reset = "done"
  /\ reader' = [reader EXCEPT ![c] = "exited"]
  /\ UNCHANGED <<attached, detached, stopping, frames, process, closer, queue,
                 pending, writer, sender, reset, cause, toClose, rescued>>

\* processLoop exits: carrier.inbound is closed, or the carrier is stopped
\* and preserves nothing.
ProcessEnds(c) ==
  /\ process[c] = "idle"
  /\ reader[c] \notin {"read", "forward"} \/ stopping[c] = "drop"
  /\ process' = [process EXCEPT ![c] = "exited"]
  /\ UNCHANGED <<attached, detached, stopping, frames, reader, closer, queue,
                 pending, writer, sender, reset, cause, toClose, rescued>>

\* enqueueInbound up to its select.
HandleFrame(c) ==
  /\ process[c] = "handle" /\ ~closed
  /\ pending' = pending + 1
  /\ process' = [process EXCEPT ![c] = "enqueue"]
  /\ UNCHANGED <<attached, detached, stopping, frames, reader, closer, queue,
                 writer, sender, reset, cause, toClose, rescued>>

\* handleFrame of a closed flow fails, and processLoop stops the carrier.
HandleFails(c) ==
  /\ process[c] = "handle" /\ closed
  /\ process' = [process EXCEPT ![c] = "exited"]
  /\ Stop(c, "drop")
  /\ UNCHANGED <<attached, detached, frames, reader, closer, queue, pending,
                 writer, sender, reset, cause, toClose, rescued>>

\* A send on flow.inbound does not block.
Room == queue < Capacity

\* enqueueInbound: flow.inbound has room.
Enqueue(c) ==
  /\ process[c] = "enqueue" /\ Room
  /\ queue' = queue + 1
  /\ process' = [process EXCEPT ![c] = "idle"]
  /\ UNCHANGED <<attached, detached, stopping, frames, reader, closer,
                 pending, writer, sender, reset, cause, toClose, rescued>>

\* enqueueInbound: the flow is closed, or the carrier without preserving.
EnqueueAbandoned(c) ==
  /\ process[c] = "enqueue"
  /\ closed \/ stopping[c] = "drop"
  /\ process' = [process EXCEPT ![c] = "release"]
  /\ UNCHANGED <<attached, detached, stopping, frames, reader, closer, queue,
                 pending, writer, sender, reset, cause, toClose, rescued>>

\* Mutant of AbandonedReleases: the abandoned frame stays pending.
AbandonedStaysPending(c) == pending' = pending

\* enqueueInbound calls releaseInbound and ignores what it returns.
AbandonedReleases(c) == pending' = pending - 1

\* The rest of enqueueInbound and of processLoop, which stops the carrier.
ReleaseAbandoned(c) ==
  /\ process[c] = "release"
  /\ AbandonedReleases(c)
  /\ process' = [process EXCEPT ![c] = "exited"]
  /\ Stop(c, "drop")
  /\ UNCHANGED <<attached, detached, frames, reader, closer, queue, writer, sender,
                 reset, cause, toClose, rescued>>

\* carrier.Close by the owner of the stream: stop, then finishClose.
CloseStops(c) ==
  /\ c \in Closable \cap attached /\ c \notin closer /\ c \notin detached
  /\ Stop(c, "drop")
  /\ closer' = IF stopping[c] = "preserve" THEN closer ELSE closer \cup {c}
  /\ UNCHANGED <<attached, detached, frames, reader, process, queue, pending,
                 writer, sender, reset, cause, toClose, rescued>>

CloseFinishes(c) ==
  /\ c \in closer
  /\ closer' = closer \ {c}
  /\ FinishClose(c)
  /\ UNCHANGED <<stopping, frames, reader, process, queue, pending, writer, sender,
                 toClose, rescued>>

-----------------------------------------------------------------------------
(* writeEndpoint.                                                          *)

WriterTakes ==
  /\ writer = "select" /\ queue > 0
  /\ queue' = queue - 1
  /\ writer' = "taken"
  /\ UNCHANGED <<attached, carrierVars, sender, pending, reset, cause, toClose, rescued>>

\* deliverInbound, which the endpoint may fail.
WriterDelivers ==
  /\ writer = "taken" /\ ~closed
  /\ writer' \in {"delivered"} \cup IF MayAbort THEN {"failed"} ELSE {}
  /\ UNCHANGED <<attached, carrierVars, sender, queue, pending, reset, cause,
                 toClose, rescued>>

WriterFindsClosed ==
  /\ writer = "taken" /\ closed
  /\ pending' = pending - 1
  /\ writer' = "exited"
  /\ UNCHANGED <<attached, carrierVars, sender, queue, reset, cause, toClose, rescued>>

\* Mutant of ShouldReset: the last frame does not end the stream.
ShouldResetNever == FALSE

\* What writeEndpoint's releaseInbound returns, given the new count.
ShouldReset == ~closed /\ pending' = 0 /\ attached = {}

\* releaseInbound, and the branch on what it returns.
WriterReleases ==
  /\ writer \in {"delivered", "failed"}
  /\ pending' = pending - 1
  /\ writer' = IF writer = "failed" THEN "error"
               ELSE IF ShouldReset THEN "lastCarrier" ELSE "select"
  /\ UNCHANGED <<attached, carrierVars, sender, queue, reset, cause, toClose, rescued>>

\* resetAfterLastCarrier, which looks again; writeEndpoint returns after it.
WriterResetsLast ==
  /\ writer = "lastCarrier"
  /\ IF closed \/ attached # {}
       THEN writer' = "exited" /\ NoClaim
       ELSE writer' = "resetting" /\ Claim("last carrier")
  /\ UNCHANGED <<attached, carrierVars, sender, queue, pending, toClose, rescued>>

\* Reset after a failed delivery.
WriterResetsError ==
  /\ writer = "error"
  /\ IF closed THEN writer' = "exited" /\ NoClaim
               ELSE writer' = "resetting" /\ Claim("other")
  /\ UNCHANGED <<attached, carrierVars, sender, queue, pending, toClose, rescued>>

WriterExits ==
  /\ writer \in {"select", "resetting"} /\ reset = "done"
  /\ writer' = "exited"
  /\ UNCHANGED <<attached, carrierVars, sender, queue, pending, reset, cause,
                 toClose, rescued>>

-----------------------------------------------------------------------------
(* readEndpoint, which waits in broadcast until a carrier has written the  *)
(* frame or the peer has acknowledged it.                                  *)

\* readEndpoint goes on; it touches nothing else.
SenderGoes(where) ==
  /\ sender' = where
  /\ UNCHANGED <<attached, carrierVars, queue, pending, writer, reset, cause,
                 toClose, rescued>>

\* reset by readEndpoint; if the flow is closed already it returns at once.
SenderClaims(who) ==
  /\ IF closed THEN sender' = "exited" /\ NoClaim
               ELSE sender' = "resetting" /\ Claim(who)
  /\ UNCHANGED <<attached, carrierVars, queue, pending, writer, toClose, rescued>>

\* Read returns data or EOF; finishReset closes the endpoint.
SenderReads ==
  MaySend /\ sender = "read" /\ reset # "done" /\ SenderGoes("remember")

\* Read fails, as it does once the endpoint is closed.
SenderReadFails ==
  sender = "read" /\ (MayAbort \/ reset = "done") /\ SenderClaims("other")

\* remember: the history has room for the frame.
SenderRemembers ==
  sender = "remember" /\ ~closed /\ attached # {} /\ SenderGoes("broadcast")

\* The condition on which remember and broadcast give up.
NoCarriersLeft == closed \/ attached = {}

\* remember or broadcast returns ErrNoCarriers and gives flow.mu back.
SenderNoCarriers ==
  sender \in {"remember", "broadcast"} /\ NoCarriersLeft /\ SenderGoes("noCarriers")

\* broadcast succeeds: a carrier has written the frame, or the peer
\* acknowledged it earlier.  After a FIN readEndpoint returns.
SenderSent == sender = "broadcast" /\ \E s \in {"read", "exited"} : SenderGoes(s)

\* The FIN was sent and the stream is complete.
SenderCompletes == sender = "broadcast" /\ MayAbort /\ SenderClaims("other")

\* Reset(ErrNoCarriers) or resetAfterCarrierFailure, whatever is pending and
\* whoever has joined since.
SenderResets == sender = "noCarriers" /\ SenderClaims("readEndpoint")

SenderReturns == sender = "resetting" /\ reset = "done" /\ SenderGoes("exited")

-----------------------------------------------------------------------------
(* The end of the flow.                                                    *)

\* Reset or Close by anyone else: an invalid frame, the peer, the owner, or
\* writeEndpoint when the stream is complete.
Abort ==
  /\ MayAbort /\ ~closed
  /\ Claim("other")
  /\ UNCHANGED <<attached, carrierVars, queue, pending, writer, sender, toClose, rescued>>

TakeCarriers ==
  /\ reset = "claimed"
  /\ reset' = "taken"
  /\ toClose' = attached /\ attached' = {}
  /\ UNCHANGED <<carrierVars, queue, pending, writer, sender, cause, rescued>>

\* Mutant of EnqueuersGone: finishReset does not wait for them.
EnqueuersIgnored == TRUE

\* inboundEnqueueWG.Wait() returns.
EnqueuersGone == \A c \in Carrier : process[c] # "enqueue"

\* discardInbound.
DiscardInbound ==
  /\ reset = "taken" /\ EnqueuersGone
  /\ reset' = "discarded"
  /\ queue' = 0 /\ pending' = pending - queue
  /\ UNCHANGED <<attached, carrierVars, writer, sender, cause, toClose, rescued>>

\* Mutant of StopTaken: finishReset leaves the carriers running.
StopTakenNever == UNCHANGED stopping

\* carrier.Close of every carrier finishReset took: stop(false).
StopTaken ==
  stopping' = [c \in Carrier |->
                 IF c \in toClose /\ stopping[c] = "no" THEN "drop"
                                                        ELSE stopping[c]]

\* The rest of finishReset: it closes the carriers and then flow.done.
FinishReset ==
  /\ reset = "discarded"
  /\ reset' = "done"
  /\ StopTaken
  /\ detached' = detached \cup {c \in toClose : stopping[c] # "preserve"}
  /\ UNCHANGED <<attached, frames, reader, process, closer, queue, pending,
                 writer, sender, cause, toClose, rescued>>

-----------------------------------------------------------------------------
\* readLoop's own steps once it need not wait for the network.
ReadLoop(c) ==
  \/ Forward(c) \/ ForwardDropped(c) \/ ReaderFinishes(c) \/ ReaderReturns(c)
  \/ stopping[c] # "no" /\ ReadFails(c)

ProcessLoop(c) ==
  \/ ProcessEnds(c) \/ HandleFrame(c) \/ HandleFails(c)
  \/ Enqueue(c) \/ EnqueueAbandoned(c) \/ ReleaseAbandoned(c)

WriteEndpoint ==
  \/ WriterTakes \/ WriterDelivers \/ WriterFindsClosed \/ WriterReleases
  \/ WriterResetsLast \/ WriterResetsError \/ WriterExits

ReadEndpoint ==
  \/ SenderReads \/ SenderReadFails \/ SenderRemembers \/ SenderNoCarriers
  \/ SenderSent \/ SenderCompletes \/ SenderResets \/ SenderReturns

\* The steps of readEndpoint that wait neither for its endpoint nor for room in
\* the history nor for a carrier's Write.
SenderOwes ==
  \/ SenderNoCarriers \/ SenderResets \/ SenderReturns
  \/ reset = "done" /\ SenderReadFails

Reset == TakeCarriers \/ DiscardInbound \/ FinishReset

Next ==
  \/ \E c \in Carrier :
       \/ Attach(c) \/ ReadFrame(c) \/ ReadFails(c) \/ WriteFails(c)
       \/ Forward(c) \/ ForwardDropped(c) \/ ReaderFinishes(c) \/ ReaderReturns(c)
       \/ ProcessLoop(c) \/ CloseStops(c) \/ CloseFinishes(c)
  \/ WriteEndpoint \/ ReadEndpoint \/ Abort \/ Reset

Spec == Init /\ [][Next]_vars

\* Every goroutine that can go on does; the network owes nothing.
FairSpec ==
  /\ Spec /\ WF_vars(WriteEndpoint) /\ WF_vars(SenderOwes) /\ WF_vars(Reset)
  /\ \A c \in Carrier : /\ WF_vars(ReadLoop(c)) /\ WF_vars(ProcessLoop(c))
                        /\ WF_vars(CloseFinishes(c))

-----------------------------------------------------------------------------
(* Properties.                                                             *)

\* Every field has its type.
TypeOK ==
  /\ attached \subseteq Carrier /\ detached \subseteq Carrier
  /\ closer \subseteq Carrier /\ toClose \subseteq Carrier
  /\ stopping \in [Carrier -> Stopping]
  /\ frames \in [Carrier -> 0 .. MaxFrames]
  /\ reader \in [Carrier -> ReaderAt] /\ process \in [Carrier -> ProcessAt]
  /\ queue \in 0 .. Capacity /\ pending \in Nat
  /\ writer \in WriterAt /\ sender \in SenderAt
  /\ reset \in ResetAt /\ cause \in Cause

\* pendingInbound counts exactly the frames between enqueueInbound and
\* releaseInbound, so the last release is the one that sees zero.
PendingIsExact ==
  pending = queue
    + Cardinality({c \in Carrier : process[c] \in {"enqueue", "release"}})
    + IF writer \in {"taken", "delivered", "failed"} THEN 1 ELSE 0

\* Once finishReset has emptied flow.inbound nothing is put there again, so
\* no frame is left behind in a stream that is done.
NothingAfterDiscard ==
  reset \in {"discarded", "done"} =>
    queue = 0 /\ \A c \in Carrier : process[c] # "enqueue"

\* No carrier was closed on purpose and none joined when all others had gone.
OnlyFailures == ~rescued /\ \A c \in Carrier : stopping[c] # "drop"

\* Nothing of c is on its way to writeEndpoint.
Quiet(c) ==
  reader[c] \in {"off", "resetting", "exited"} /\ process[c] \in {"off", "exited"}

\* A stream whose carriers only fail, and which nobody else ends, ends when its
\* carriers have handed over every frame they received.  detach, releaseInbound
\* and resetAfterLastCarrier even wait until the last of them is delivered; only
\* a readEndpoint with a frame to send that no carrier takes discards those that
\* wait in flow.inbound.
ReceivedIsDelivered ==
  closed /\ OnlyFailures /\ cause # "other" =>
    /\ \A c \in Carrier : Quiet(c)
    /\ cause = "last carrier" =>
         queue = 0 /\ writer \notin {"taken", "delivered", "failed"}

\* A stream whose carriers only fail delivers what they received before it ends,
\* as the tests of the last frame and of the graceful tail have it.  It does not
\* hold: readEndpoint's reset discards frames (README, section 5).
LastFramesDelivered ==
  closed /\ OnlyFailures => queue = 0 /\ writer \notin {"taken", "delivered", "failed"}

\* How the goroutines of a carrier follow each other, and why the last release
\* comes last: a carrier that failed is detached when nothing of it is on its
\* way (readLoop waits for processDone), writeEndpoint notices that no carrier
\* is left only when the queue is empty too, and no carrier joins after
\* readEndpoint found none.
HandOverOK ==
  /\ cause # "none" <=> closed
  /\ \A c \in Carrier : reader[c] = "off" => process[c] = "off"
  /\ \A c \in closer : stopping[c] = "drop"
  /\ OnlyFailures /\ ~closed =>
       /\ \A c \in Carrier :
            /\ process[c] # "release"
            /\ reader[c] = "finish" => stopping[c] = "preserve"
            /\ process[c] = "exited" => reader[c] \in {"finish", "resetting", "exited"}
            /\ c \notin attached => Quiet(c)
       /\ writer = "lastCarrier" => attached = {} /\ queue = 0
       /\ sender = "noCarriers" => attached = {}
  /\ OnlyFailures /\ cause \in {"last carrier", "readEndpoint"} =>
       \A c \in Carrier : Quiet(c)
  /\ OnlyFailures /\ cause = "last carrier" =>
       queue = 0 /\ writer \notin {"taken", "delivered", "failed"}

\* The type invariant, the counter and the hand-overs: the inductive invariant
\* behind the other two.
InboundInv == TypeOK /\ PendingIsExact /\ HandOverOK

\* A stream whose carriers have all disappeared closes (or gets a new one).
LastCarrierCloses == attached = {} ~> (reset = "done" \/ attached # {})

\* A stream whose carriers have all failed closes, whoever releases the last
\* frame (detach, releaseInbound, resetAfterLastCarrier).
FailedCarriersClose ==
  (attached = {} /\ OnlyFailures) ~> (reset = "done" \/ ~OnlyFailures)

\* When a stream is done all its goroutines exit.
EverythingExits ==
  reset = "done" ~> /\ writer = "exited" /\ sender = "exited"
                    /\ \A c \in Carrier : /\ reader[c] \in {"off", "exited"}
                                          /\ process[c] \in {"off", "exited"}
=============================================================================
