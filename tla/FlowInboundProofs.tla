------------------------- MODULE FlowInboundProofs -------------------------
(***************************************************************************)
(* Proofs about module FlowInbound, for any carriers, any capacity of      *)
(* flow.inbound and any number of frames: the counter pendingInbound is    *)
(* exact, nothing is queued after finishReset has discarded the queue, and *)
(* a stream whose carriers only fail ends when they have handed over what  *)
(* they received, all delivered unless readEndpoint ends it.               *)
(***************************************************************************)
EXTENDS FlowInbound, FiniteSetTheorems, TLAPS

\* The carriers with a frame between enqueueInbound and the queue.
Handing == {c \in Carrier : process[c] \in {"enqueue", "release"}}

\* The frame that writeEndpoint has in its hands.
InHand == IF writer \in {"taken", "delivered", "failed"} THEN 1 ELSE 0

-----------------------------------------------------------------------------
(* Counting the frames on their way.                                       *)

LEMMA HandingFinite ==
  /\ IsFiniteSet(Handing) /\ Cardinality(Handing) \in Nat
  /\ PendingIsExact <=> pending = queue + Cardinality(Handing) + InHand
<1>1. IsFiniteSet(Handing)
  BY FS_Subset, InboundAssumption DEF Handing
<1>2. Cardinality(Handing) \in Nat
  BY <1>1, FS_CardinalityType
<1> QED BY <1>1, <1>2 DEF PendingIsExact, Handing, InHand

LEMMA HandingNext ==
  PendingIsExact' <=> pending' = queue' + Cardinality(Handing') + InHand'
BY DEF PendingIsExact, Handing, InHand

\* processLoop of c takes a step: it starts to hand over a frame, it is done
\* with it, or neither.
LEMMA HandingStep ==
  ASSUME TypeOK, NEW c \in Carrier, NEW p \in ProcessAt,
         process' = [process EXCEPT ![c] = p]
  PROVE  LET before == process[c] \in {"enqueue", "release"}
             after  == p \in {"enqueue", "release"}
         IN /\ before <=> after => Handing' = Handing
            /\ ~before /\ after => Cardinality(Handing') = Cardinality(Handing) + 1
            /\ before /\ ~after => Cardinality(Handing') = Cardinality(Handing) - 1
<1>1. \A d \in Carrier : process'[d] = IF d = c THEN p ELSE process[d]
  BY DEF TypeOK
<1>2. CASE process[c] \in {"enqueue", "release"} <=> p \in {"enqueue", "release"}
  BY <1>1, <1>2 DEF Handing
<1>3. CASE process[c] \notin {"enqueue", "release"} /\ p \in {"enqueue", "release"}
  <2>1. Handing' = Handing \cup {c} /\ c \notin Handing
    BY <1>1, <1>3 DEF Handing
  <2> QED BY <1>3, <2>1, HandingFinite, FS_AddElement
<1>4. CASE process[c] \in {"enqueue", "release"} /\ p \notin {"enqueue", "release"}
  <2>1. Handing' = Handing \ {c} /\ c \in Handing
    BY <1>1, <1>4 DEF Handing
  <2>2. Cardinality(Handing \ {c}) = Cardinality(Handing) - 1
    BY <2>1, HandingFinite, FS_RemoveElement
  <2> QED BY <1>4, <2>1, <2>2
<1> QED BY <1>2, <1>3, <1>4

-----------------------------------------------------------------------------
(* The hand-overs, one action of a carrier at a time.                      *)

LEMMA AttachHandOver ==
  ASSUME InboundInv, NEW c \in Carrier, Attach(c)
  PROVE  HandOverOK'
BY DEF InboundInv, TypeOK, HandOverOK, OnlyFailures, Quiet, Attach, closed

LEMMA ReadFrameHandOver ==
  ASSUME InboundInv, NEW c \in Carrier, ReadFrame(c)
  PROVE  HandOverOK'
BY DEF InboundInv, TypeOK, HandOverOK, OnlyFailures, Quiet, ReadFrame, closed

LEMMA ReadFailsHandOver ==
  ASSUME InboundInv, NEW c \in Carrier, ReadFails(c)
  PROVE  HandOverOK'
BY DEF InboundInv, TypeOK, HandOverOK, OnlyFailures, Quiet, ReadFails, Stop, Stopping, closed

LEMMA ForwardHandOver ==
  ASSUME InboundInv, NEW c \in Carrier, Forward(c) \/ ForwardDropped(c)
  PROVE  HandOverOK'
<1>1. CASE Forward(c)
  BY <1>1 DEF InboundInv, TypeOK, HandOverOK, OnlyFailures, Quiet, Forward, closed
<1>2. CASE ForwardDropped(c)
  BY <1>2 DEF InboundInv, TypeOK, HandOverOK, OnlyFailures, Quiet, ForwardDropped, closed
<1> QED BY <1>1, <1>2

LEMMA WriteFailsHandOver ==
  ASSUME InboundInv, NEW c \in Carrier, WriteFails(c)
  PROVE  HandOverOK'
BY DEF InboundInv, TypeOK, HandOverOK, OnlyFailures, Quiet, WriteFails, Stop, Stopping, closed
LEMMA ProcessHandOver ==
  ASSUME InboundInv, NEW c \in Carrier,
         ProcessEnds(c) \/ HandleFrame(c) \/ HandleFails(c) \/ EnqueueAbandoned(c)
  PROVE  HandOverOK'
<1>1. CASE ProcessEnds(c)
  <2>1. /\ process[c] = "idle" /\ process' = [process EXCEPT ![c] = "exited"]
        /\ reader[c] \notin {"read", "forward"} \/ stopping[c] = "drop"
        /\ UNCHANGED <<attached, stopping, reader, closer, queue, writer, sender, reset, cause, rescued>>
    BY <1>1 DEF ProcessEnds
  <2>2. OnlyFailures => reader[c] \in {"finish", "resetting", "exited"}
    BY <2>1 DEF InboundInv, TypeOK, ReaderAt, HandOverOK, OnlyFailures
  <2> QED BY <2>1, <2>2 DEF InboundInv, TypeOK, HandOverOK, OnlyFailures, Quiet, closed
<1>2. CASE HandleFrame(c)
  BY <1>2 DEF InboundInv, TypeOK, HandOverOK, OnlyFailures, Quiet, HandleFrame, closed
<1>3. CASE HandleFails(c)
  BY <1>3 DEF InboundInv, TypeOK, HandOverOK, OnlyFailures, Quiet, HandleFails, Stop,
     Stopping, closed
<1>4. CASE EnqueueAbandoned(c)
  BY <1>4 DEF InboundInv, TypeOK, HandOverOK, OnlyFailures, Quiet, EnqueueAbandoned, closed
<1> QED BY <1>1, <1>2, <1>3, <1>4

LEMMA EnqueueHandOver ==
  ASSUME InboundInv, NEW c \in Carrier, Enqueue(c) \/ ReleaseAbandoned(c)
  PROVE  HandOverOK'
<1>1. CASE Enqueue(c)
  BY <1>1 DEF InboundInv, TypeOK, HandOverOK, OnlyFailures, Quiet, Enqueue, closed
<1>2. CASE ReleaseAbandoned(c)
  BY <1>2 DEF InboundInv, TypeOK, HandOverOK, OnlyFailures, Quiet, ReleaseAbandoned, Stop,
     Stopping, closed
<1> QED BY <1>1, <1>2

LEMMA CloseStopsHandOver ==
  ASSUME InboundInv, NEW c \in Carrier, CloseStops(c)
  PROVE  HandOverOK'
BY DEF InboundInv, TypeOK, HandOverOK, OnlyFailures, Quiet, CloseStops, Stop, Stopping, closed

\* When no frame is pending, nothing is queued, in a hand or on its way.
LEMMA NothingPending ==
  ASSUME TypeOK, PendingIsExact, pending = 0
  PROVE  /\ queue = 0 /\ writer \notin {"taken", "delivered", "failed"}
         /\ \A c \in Carrier : process[c] \notin {"enqueue", "release"}
<1>1. queue \in Nat /\ InHand \in Nat
  BY InboundAssumption DEF TypeOK, InHand
<1>2. queue = 0 /\ Cardinality(Handing) = 0 /\ InHand = 0
  BY <1>1, HandingFinite
<1>3. Handing = {}
  BY <1>2, HandingFinite, FS_EmptySet
<1> QED BY <1>2, <1>3 DEF Handing, InHand

\* The end of a carrier that failed: if it is the last one, all it received
\* has been delivered.
LEMMA ReaderFinishesHandOver ==
  ASSUME InboundInv, NEW c \in Carrier, ReaderFinishes(c)
  PROVE  HandOverOK'
<1>1. /\ reader[c] = "finish" /\ attached' = attached \ {c}
      /\ reader' = [reader EXCEPT ![c] = IF reset' # reset THEN "resetting" ELSE "exited"]
      /\ UNCHANGED <<stopping, process, closer, queue, writer, sender, rescued>>
      /\ ReaderMayFinish(c)
  BY DEF ReaderFinishes, FinishClose
<1>2. \/ UNCHANGED <<reset, cause>>
      \/ ~closed /\ DetachResets(c) /\ reset' = "claimed" /\ cause' = "last carrier"
  BY DEF ReaderFinishes, FinishClose, Claim, NoClaim, DetachResets
<1>3. CASE UNCHANGED <<reset, cause>>
  BY <1>1, <1>3 DEF InboundInv, TypeOK, HandOverOK, OnlyFailures, Quiet, ReaderMayFinish,
     closed
<1>4. CASE ~closed /\ DetachResets(c) /\ reset' = "claimed" /\ cause' = "last carrier"
  <2>1. closed' /\ (OnlyFailures' <=> OnlyFailures)
    BY <1>1, <1>4 DEF closed, OnlyFailures
  <2>2. ASSUME OnlyFailures
        PROVE  /\ queue = 0 /\ writer \notin {"taken", "delivered", "failed"}
               /\ \A d \in Carrier : Quiet(d)'
    <3>1. stopping[c] = "preserve" /\ process[c] = "exited"
      BY <1>1, <1>4, <2>2 DEF InboundInv, HandOverOK, ReaderMayFinish
    <3>2. pending = 0 /\ attached \subseteq {c}
      BY <1>4, <3>1 DEF DetachResets
    <3>3. queue = 0 /\ writer \notin {"taken", "delivered", "failed"}
      BY <3>2, NothingPending DEF InboundInv
    <3>4. \A d \in Carrier : d # c => Quiet(d)
      BY <1>4, <2>2, <3>2 DEF InboundInv, HandOverOK
    <3>5. \A d \in Carrier : Quiet(d)'
      BY <1>1, <3>1, <3>4 DEF Quiet, InboundInv, TypeOK
    <3> QED BY <3>3, <3>5
  <2>3. reader' \in [Carrier -> ReaderAt] /\ \A d \in Carrier : reader'[d] = "off" => reader[d] = "off"
    BY <1>1 DEF InboundInv, TypeOK, ReaderAt
  <2> QED BY <1>1, <1>4, <2>1, <2>2, <2>3 DEF InboundInv, HandOverOK
<1> QED BY <1>2, <1>3, <1>4

\* A Close of the owner is no failure.
LEMMA CloseFinishesHandOver ==
  ASSUME InboundInv, NEW c \in Carrier, CloseFinishes(c)
  PROVE  HandOverOK'
<1>1. /\ c \in closer /\ closer' = closer \ {c} /\ attached' = attached \ {c}
      /\ UNCHANGED <<stopping, reader, process, queue, writer, sender, rescued>>
      /\ \/ UNCHANGED <<reset, cause>>
         \/ reset' = "claimed" /\ cause' = "last carrier"
  BY DEF CloseFinishes, FinishClose, Claim, NoClaim
<1>2. ~OnlyFailures /\ ~OnlyFailures'
  BY <1>1 DEF InboundInv, HandOverOK, OnlyFailures
<1> QED BY <1>1, <1>2 DEF InboundInv, HandOverOK, closed

LEMMA ReaderReturnsHandOver ==
  ASSUME InboundInv, NEW c \in Carrier, ReaderReturns(c)
  PROVE  HandOverOK'
BY DEF InboundInv, TypeOK, HandOverOK, OnlyFailures, Quiet, ReaderReturns, closed

-----------------------------------------------------------------------------
(* The hand-overs in the steps of writeEndpoint and of the reset.          *)

LEMMA WriterHandOver ==
  ASSUME InboundInv,
         WriterTakes \/ WriterDelivers \/ WriterFindsClosed \/ WriterResetsError \/ WriterExits
  PROVE  HandOverOK'
<1>1. CASE WriterTakes
  <2>1. /\ writer = "select" /\ writer' = "taken" /\ queue # 0
        /\ UNCHANGED <<attached, stopping, reader, process, closer, sender, reset, cause, rescued>>
    BY <1>1 DEF WriterTakes, carrierVars
  <2> QED BY <2>1 DEF InboundInv, HandOverOK, OnlyFailures, Quiet, closed
<1>2. CASE WriterDelivers \/ WriterFindsClosed
  BY <1>2 DEF InboundInv, TypeOK, HandOverOK, OnlyFailures, Quiet, WriterDelivers,
     WriterFindsClosed, carrierVars, closed
<1>3. CASE WriterResetsError \/ WriterExits
  BY <1>3 DEF InboundInv, TypeOK, HandOverOK, OnlyFailures, Quiet, WriterResetsError,
     WriterExits, Claim, NoClaim, carrierVars, closed
<1> QED BY <1>1, <1>2, <1>3

\* After the last release the queue is empty.
LEMMA WriterReleasesHandOver ==
  ASSUME InboundInv, PendingIsExact', TypeOK', WriterReleases
  PROVE  HandOverOK'
<1>1. /\ UNCHANGED <<attached, stopping, reader, process, closer, queue, sender, reset, cause, rescued>>
      /\ writer \in {"delivered", "failed"}
      /\ writer' = "lastCarrier" => ShouldReset
      /\ writer' \in {"error", "lastCarrier", "select"}
  BY DEF WriterReleases, carrierVars
<1>2. writer' = "lastCarrier" => attached' = {} /\ queue' = 0
  <2>1. pending' = 0 => queue' = 0
    <3>1. queue' \in Nat /\ Cardinality(Handing') \in Nat /\ InHand' \in Nat
      <4>1. Handing' = Handing
        BY <1>1 DEF Handing
      <4> QED BY <4>1, HandingFinite, InboundAssumption DEF TypeOK, InHand
    <3> QED BY <3>1, HandingNext
  <2> QED BY <1>1, <2>1 DEF ShouldReset
<1> QED BY <1>1, <1>2 DEF InboundInv, HandOverOK, OnlyFailures, Quiet, closed

LEMMA WriterResetsLastHandOver ==
  ASSUME InboundInv, WriterResetsLast
  PROVE  HandOverOK'
BY DEF InboundInv, TypeOK, HandOverOK, OnlyFailures, Quiet, WriterResetsLast, Claim, NoClaim,
   carrierVars, closed

\* A readEndpoint that finds no carrier left finds the carriers' goroutines done.
LEMMA SenderHandOver ==
  ASSUME InboundInv, ReadEndpoint
  PROVE  HandOverOK'
<1>1. UNCHANGED <<attached, stopping, reader, process, closer, queue, writer, rescued>>
  BY DEF ReadEndpoint, SenderReads, SenderReadFails, SenderRemembers, SenderNoCarriers,
     SenderSent, SenderCompletes, SenderResets, SenderReturns, SenderGoes, SenderClaims,
     carrierVars
<1>2. CASE \E s \in SenderAt : SenderGoes(s) /\ (s = "noCarriers" => NoCarriersLeft)
  BY <1>1, <1>2 DEF InboundInv, HandOverOK, OnlyFailures, Quiet, SenderGoes, NoCarriersLeft,
     closed
<1>3. ASSUME NEW who, SenderClaims(who),
             who \in {"other", "readEndpoint"},
             who = "readEndpoint" => sender = "noCarriers"
      PROVE  HandOverOK'
  <2>1. (OnlyFailures' <=> OnlyFailures) /\ \A c \in Carrier : Quiet(c)' <=> Quiet(c)
    BY <1>1 DEF OnlyFailures, Quiet
  <2>2. CASE closed
    <3>1. sender' = "exited" /\ UNCHANGED <<reset, cause>>
      BY <1>3, <2>2 DEF SenderClaims, NoClaim
    <3> QED BY <1>1, <2>1, <2>2, <3>1 DEF InboundInv, HandOverOK, closed
  <2>3. CASE ~closed
    <3>1. sender' = "resetting" /\ reset' = "claimed" /\ cause' = who
      BY <1>3, <2>3 DEF SenderClaims, Claim
    <3>2. who = "readEndpoint" /\ OnlyFailures => \A c \in Carrier : Quiet(c)
      BY <1>3, <2>3 DEF InboundInv, HandOverOK
    <3> QED BY <1>1, <1>3, <2>1, <3>1, <3>2 DEF InboundInv, HandOverOK, closed
  <2> QED BY <2>2, <2>3
<1> QED BY <1>2, <1>3 DEF ReadEndpoint, SenderReads, SenderReadFails, SenderRemembers,
     SenderNoCarriers, SenderSent, SenderCompletes, SenderResets, SenderReturns, SenderAt

LEMMA ResetHandOver ==
  ASSUME InboundInv, Abort \/ TakeCarriers \/ DiscardInbound
  PROVE  HandOverOK'
<1>1. CASE Abort
  BY <1>1 DEF InboundInv, TypeOK, HandOverOK, OnlyFailures, Quiet, Abort, Claim,
     carrierVars, closed
<1>2. CASE TakeCarriers \/ DiscardInbound
  BY <1>2 DEF InboundInv, TypeOK, HandOverOK, OnlyFailures, Quiet, TakeCarriers,
     DiscardInbound, carrierVars, closed
<1> QED BY <1>1, <1>2

LEMMA FinishResetHandOver ==
  ASSUME InboundInv, FinishReset
  PROVE  HandOverOK'
BY DEF InboundInv, TypeOK, HandOverOK, OnlyFailures, Quiet, FinishReset, StopTaken, Stopping,
   closed
-----------------------------------------------------------------------------
(* The types and the counter.                                              *)

LEMMA OneLess == \A n \in Nat : \A f \in 0 .. n : f > 0 => f - 1 \in 0 .. n
OBVIOUS

LEMMA CarrierTypes ==
  ASSUME TypeOK, NEW c \in Carrier,
         \/ Attach(c) \/ ReadFrame(c) \/ ReadFails(c) \/ WriteFails(c)
         \/ Forward(c) \/ ForwardDropped(c) \/ ReaderFinishes(c) \/ ReaderReturns(c)
         \/ CloseStops(c) \/ CloseFinishes(c)
  PROVE  TypeOK' /\ UNCHANGED <<queue, pending, writer, sender>>
         /\ (Attach(c) \/ Forward(c) \/ UNCHANGED process)
<1> USE DEF TypeOK, Stopping, ReaderAt, ProcessAt, ResetAt, Cause
<1>1. CASE Attach(c)
  BY <1>1 DEF Attach
<1>2. CASE ReadFrame(c)
  <2>1. frames[c] \in 0 .. MaxFrames /\ frames[c] > 0
    BY <1>2, InboundAssumption DEF ReadFrame
  <2>2. frames[c] - 1 \in 0 .. MaxFrames
    BY <2>1, OneLess, InboundAssumption
  <2>3. /\ frames' = [frames EXCEPT ![c] = frames[c] - 1]
        /\ reader' = [reader EXCEPT ![c] = "forward"]
    BY <1>2 DEF ReadFrame
  <2>4. frames' \in [Carrier -> 0 .. MaxFrames]
    BY <2>2, <2>3
  <2>5. reader' \in [Carrier -> ReaderAt]
    BY <2>3
  <2> QED BY <1>2, <2>4, <2>5 DEF ReadFrame
<1>3. CASE ReadFails(c) \/ WriteFails(c)
  BY <1>3 DEF ReadFails, WriteFails, Stop
<1>4. CASE Forward(c) \/ ForwardDropped(c)
  BY <1>4 DEF Forward, ForwardDropped
<1>5. CASE ReaderFinishes(c)
  BY <1>5 DEF ReaderFinishes, FinishClose, Claim, NoClaim
<1>6. CASE ReaderReturns(c)
  BY <1>6 DEF ReaderReturns
<1>7. CASE CloseStops(c)
  BY <1>7 DEF CloseStops, Stop
<1>8. CASE CloseFinishes(c)
  BY <1>8 DEF CloseFinishes, FinishClose, Claim, NoClaim
<1> QED BY <1>1, <1>2, <1>3, <1>4, <1>5, <1>6, <1>7, <1>8

\* Steps that neither touch the queue nor move a frame keep the counter exact.
LEMMA CarrierCount ==
  ASSUME InboundInv, NEW c \in Carrier,
         \/ Attach(c) \/ ReadFrame(c) \/ ReadFails(c) \/ WriteFails(c)
         \/ Forward(c) \/ ForwardDropped(c) \/ ReaderFinishes(c) \/ ReaderReturns(c)
         \/ CloseStops(c) \/ CloseFinishes(c)
  PROVE  TypeOK' /\ PendingIsExact'
<1>1. TypeOK' /\ UNCHANGED <<queue, pending, writer>>
  BY CarrierTypes DEF InboundInv
<1>2. Handing' = Handing
  <2>1. CASE UNCHANGED process
    BY <2>1 DEF Handing
  <2>2. CASE Attach(c) \/ Forward(c)
    <3>1. process[c] \in {"off", "idle"}
      BY <2>2 DEF Attach, Forward, InboundInv, HandOverOK
    <3>2. \E p \in {"idle", "handle"} : process' = [process EXCEPT ![c] = p]
      BY <2>2 DEF Attach, Forward
    <3> QED BY <3>1, <3>2, HandingStep DEF ProcessAt, InboundInv
  <2> QED BY <2>1, <2>2, CarrierTypes DEF InboundInv
<1> QED BY <1>1, <1>2, HandingFinite, HandingNext DEF InHand, InboundInv
\* The steps of processLoop keep the counter: it counts a frame before the
\* select of enqueueInbound and releases the frames that are given up.
LEMMA ProcessCount ==
  ASSUME InboundInv, NEW c \in Carrier, ProcessLoop(c)
  PROVE  TypeOK' /\ PendingIsExact'
<1>1. /\ queue \in 0 .. Capacity /\ Capacity \in Nat /\ pending \in Nat
      /\ InHand \in Nat /\ Cardinality(Handing) \in Nat
      /\ pending = queue + Cardinality(Handing) + InHand
  BY HandingFinite, InboundAssumption DEF InboundInv, TypeOK, InHand
<1>2. InHand' = InHand
  BY DEF ProcessLoop, ProcessEnds, HandleFrame, HandleFails, Enqueue, EnqueueAbandoned,
     ReleaseAbandoned, InHand
<1>3. /\ UNCHANGED stopping \/ Stop(c, "drop")
      /\ UNCHANGED <<attached, detached, frames, reader, closer, writer, sender, reset,
                     cause, toClose, rescued>>
  BY DEF ProcessLoop, ProcessEnds, HandleFrame, HandleFails, Enqueue, EnqueueAbandoned,
     ReleaseAbandoned
<1>4. stopping' \in [Carrier -> Stopping]
  BY <1>3 DEF Stop, Stopping, InboundInv, TypeOK
<1>5. SUFFICES ASSUME NEW p \in ProcessAt, process' = [process EXCEPT ![c] = p],
                      \/ /\ p = "exited" /\ process[c] \in {"idle", "handle"}
                         /\ UNCHANGED <<queue, pending>>
                      \/ /\ p = "enqueue" /\ process[c] = "handle" /\ pending' = pending + 1
                         /\ UNCHANGED queue
                      \/ /\ p = "idle" /\ process[c] = "enqueue" /\ queue' = queue + 1
                         /\ queue < Capacity /\ UNCHANGED pending
                      \/ /\ p = "release" /\ process[c] = "enqueue"
                         /\ UNCHANGED <<queue, pending>>
                      \/ /\ p = "exited" /\ process[c] = "release" /\ pending' = pending - 1
                         /\ UNCHANGED queue
               PROVE  TypeOK' /\ PendingIsExact'
  BY DEF ProcessLoop, ProcessEnds, HandleFrame, HandleFails, Enqueue, EnqueueAbandoned,
     ReleaseAbandoned, AbandonedReleases, Room, ProcessAt
<1>6. Cardinality(Handing') =
        IF process[c] \in {"enqueue", "release"} /\ p \notin {"enqueue", "release"}
          THEN Cardinality(Handing) - 1
        ELSE IF process[c] \notin {"enqueue", "release"} /\ p \in {"enqueue", "release"}
          THEN Cardinality(Handing) + 1 ELSE Cardinality(Handing)
  <2>1. TypeOK
    BY DEF InboundInv
  <2> QED BY <2>1, <1>5, HandingStep
<1>7. Cardinality(Handing') \in Nat
  <2>1. IsFiniteSet(Handing')
    BY FS_Subset, InboundAssumption DEF Handing
  <2> QED BY <2>1, FS_CardinalityType
<1>8. pending' = queue' + Cardinality(Handing') + InHand' /\ queue' \in 0 .. Capacity
  BY <1>1, <1>2, <1>5, <1>6
<1>9. pending' \in Nat /\ process' \in [Carrier -> ProcessAt]
  BY <1>1, <1>2, <1>5, <1>7, <1>8 DEF InboundInv, TypeOK
<1> QED BY <1>3, <1>4, <1>8, <1>9, HandingNext DEF InboundInv, TypeOK

LEMMA WriterCount ==
  ASSUME InboundInv, WriteEndpoint
  PROVE  TypeOK' /\ PendingIsExact'
<1>1. /\ queue \in 0 .. Capacity /\ Capacity \in Nat /\ pending \in Nat
      /\ InHand \in Nat /\ Cardinality(Handing) \in Nat
      /\ pending = queue + Cardinality(Handing) + InHand
  BY HandingFinite, InboundAssumption DEF InboundInv, TypeOK, InHand
<1>2. /\ UNCHANGED <<attached, detached, stopping, frames, reader, process, closer, sender,
                     toClose>>
      /\ writer' \in WriterAt /\ reset' \in ResetAt /\ cause' \in Cause
  BY DEF WriteEndpoint, WriterTakes, WriterDelivers, WriterFindsClosed, WriterReleases,
     WriterResetsLast, WriterResetsError, WriterExits, Claim, NoClaim, carrierVars,
     WriterAt, ResetAt, Cause, InboundInv, TypeOK
<1>3. Handing' = Handing
  BY <1>2 DEF Handing
<1>4. /\ pending' = queue' + Cardinality(Handing) + InHand'
      /\ queue' \in 0 .. Capacity /\ pending' \in Nat
  <2>1. CASE WriterTakes
    <3>1. queue > 0 /\ queue' = queue - 1 /\ InHand = 0 /\ InHand' = 1 /\ pending' = pending
      BY <2>1 DEF WriterTakes, InHand
    <3> QED BY <1>1, <3>1
  <2>2. CASE WriterDelivers \/ WriterResetsLast \/ WriterResetsError \/ WriterExits
    <3>1. queue' = queue /\ InHand' = InHand /\ pending' = pending
      BY <2>2 DEF WriterDelivers, WriterResetsLast, WriterResetsError, WriterExits, InHand
    <3> QED BY <1>1, <3>1
  <2>3. CASE WriterFindsClosed \/ WriterReleases
    <3>1. queue' = queue /\ InHand = 1 /\ InHand' = 0 /\ pending' = pending - 1
      BY <2>3 DEF WriterFindsClosed, WriterReleases, InHand
    <3> QED BY <1>1, <3>1
  <2> QED BY <2>1, <2>2, <2>3 DEF WriteEndpoint
<1> QED BY <1>2, <1>3, <1>4, HandingNext DEF InboundInv, TypeOK

LEMMA SenderCount ==
  ASSUME InboundInv, ReadEndpoint
  PROVE  TypeOK' /\ PendingIsExact'
<1>1. /\ UNCHANGED <<attached, carrierVars, queue, pending, writer, toClose>>
      /\ sender' \in SenderAt /\ reset' \in ResetAt /\ cause' \in Cause
  BY DEF ReadEndpoint, SenderReads, SenderReadFails, SenderRemembers, SenderNoCarriers,
     SenderSent, SenderCompletes, SenderResets, SenderReturns, SenderGoes, SenderClaims,
     Claim, NoClaim, SenderAt, ResetAt, Cause, InboundInv, TypeOK
<1>2. TypeOK'
  BY <1>1 DEF InboundInv, TypeOK, carrierVars
<1>3. PendingIsExact'
  BY <1>1 DEF InboundInv, PendingIsExact, carrierVars
<1> QED BY <1>2, <1>3

LEMMA ResetCount ==
  ASSUME InboundInv, Abort \/ Reset
  PROVE  TypeOK' /\ PendingIsExact'
<1>1. /\ queue \in 0 .. Capacity /\ Capacity \in Nat /\ pending \in Nat
      /\ InHand \in Nat /\ Cardinality(Handing) \in Nat
      /\ pending = queue + Cardinality(Handing) + InHand
  BY HandingFinite, InboundAssumption DEF InboundInv, TypeOK, InHand
<1>2. UNCHANGED <<frames, reader, process, closer, writer, sender>>
  BY DEF Abort, Reset, TakeCarriers, DiscardInbound, FinishReset, carrierVars
<1>3. Handing' = Handing /\ InHand' = InHand
  BY <1>2 DEF Handing, InHand
<1>4. /\ attached' \subseteq Carrier /\ toClose' \subseteq Carrier
      /\ reset' \in ResetAt /\ cause' \in Cause
  BY DEF Abort, Reset, TakeCarriers, DiscardInbound, FinishReset, Claim, ResetAt, Cause,
     InboundInv, TypeOK
<1>5. detached' \subseteq Carrier /\ stopping' \in [Carrier -> Stopping]
  BY DEF Abort, Reset, TakeCarriers, DiscardInbound, FinishReset, StopTaken, Stopping,
     carrierVars, InboundInv, TypeOK
<1>6. \/ UNCHANGED <<queue, pending>>
      \/ queue' = 0 /\ pending' = pending - queue
  BY DEF Abort, Reset, TakeCarriers, DiscardInbound, FinishReset
<1>7. /\ pending' = queue' + Cardinality(Handing) + InHand
      /\ queue' \in 0 .. Capacity /\ pending' \in Nat
  BY <1>1, <1>6
<1> QED BY <1>2, <1>3, <1>4, <1>5, <1>7, HandingNext DEF InboundInv, TypeOK

-----------------------------------------------------------------------------
(* The invariant.                                                          *)

LEMMA InboundInit == Init => InboundInv
<1> SUFFICES ASSUME Init PROVE InboundInv
  OBVIOUS
<1>1. TypeOK
  BY InboundAssumption DEF Init, TypeOK, Stopping, ReaderAt, ProcessAt, WriterAt, SenderAt,
     ResetAt, Cause
<1>2. PendingIsExact
  <2>1. Handing = {} /\ InHand = 0 /\ queue = 0 /\ pending = 0
    BY DEF Init, Handing, InHand
  <2> QED BY <2>1, FS_EmptySet, HandingFinite
<1>3. HandOverOK
  BY DEF Init, HandOverOK, Quiet, closed
<1> QED BY <1>1, <1>2, <1>3 DEF InboundInv

LEMMA InboundNext == InboundInv /\ [Next]_vars => InboundInv'
<1> SUFFICES ASSUME InboundInv, [Next]_vars PROVE InboundInv'
  OBVIOUS
<1>1. ASSUME NEW c \in Carrier,
             \/ Attach(c) \/ ReadFrame(c) \/ ReadFails(c) \/ WriteFails(c)
             \/ Forward(c) \/ ForwardDropped(c) \/ ReaderFinishes(c) \/ ReaderReturns(c)
             \/ CloseStops(c) \/ CloseFinishes(c)
      PROVE  InboundInv'
  <2>1. HandOverOK'
    BY <1>1, AttachHandOver, ReadFrameHandOver, ReadFailsHandOver, WriteFailsHandOver,
       ForwardHandOver, ReaderFinishesHandOver, ReaderReturnsHandOver, CloseStopsHandOver,
       CloseFinishesHandOver
  <2> QED BY <1>1, <2>1, CarrierCount DEF InboundInv
<1>2. ASSUME NEW c \in Carrier, ProcessLoop(c)
      PROVE  InboundInv'
  <2>1. HandOverOK'
    BY <1>2, ProcessHandOver, EnqueueHandOver DEF ProcessLoop
  <2> QED BY <1>2, <2>1, ProcessCount DEF InboundInv
<1>3. CASE WriteEndpoint
  <2>1. TypeOK' /\ PendingIsExact'
    BY <1>3, WriterCount
  <2>2. HandOverOK'
    BY <1>3, <2>1, WriterHandOver, WriterReleasesHandOver, WriterResetsLastHandOver
       DEF WriteEndpoint
  <2> QED BY <2>1, <2>2 DEF InboundInv
<1>4. CASE Abort \/ Reset
  <2>1. HandOverOK'
    BY <1>4, ResetHandOver, FinishResetHandOver DEF Reset
  <2> QED BY <1>4, <2>1, ResetCount DEF InboundInv
<1>5. CASE ReadEndpoint
  BY <1>5, SenderHandOver, SenderCount DEF InboundInv
<1>6. CASE UNCHANGED vars
  <2>1. TypeOK' /\ HandOverOK'
    BY <1>6 DEF InboundInv, TypeOK, HandOverOK, OnlyFailures, Quiet, closed, vars
  <2>2. PendingIsExact'
    BY <1>6 DEF InboundInv, PendingIsExact, vars
  <2> QED BY <2>1, <2>2 DEF InboundInv
<1> QED BY <1>1, <1>2, <1>3, <1>4, <1>5, <1>6 DEF Next

\* pendingInbound counts exactly the frames between enqueueInbound and
\* releaseInbound, and the goroutines of a carrier hand over in order.
THEOREM InboundInvariance == Spec => []InboundInv
BY InboundInit, InboundNext, PTL DEF Spec

\* A stream whose carriers only fail ends when they have handed over all they
\* received, and, unless readEndpoint ends it, when all of it is delivered
\* (detach with preserveInbound, releaseInbound, resetAfterLastCarrier).
THEOREM ReceivedFramesDelivered == Spec => []ReceivedIsDelivered
<1>1. InboundInv => ReceivedIsDelivered
  BY DEF InboundInv, TypeOK, Cause, HandOverOK, ReceivedIsDelivered, closed
<1> QED BY <1>1, InboundInvariance, PTL

\* finishReset waits for the senders and then empties flow.inbound; nothing is
\* put there again.
THEOREM NothingLeftBehind == Spec => []NothingAfterDiscard
<1>1. Init => NothingAfterDiscard
  BY DEF Init, NothingAfterDiscard
<1>2. InboundInv /\ NothingAfterDiscard /\ [Next]_vars => NothingAfterDiscard'
  <2> SUFFICES ASSUME InboundInv, NothingAfterDiscard, [Next]_vars
               PROVE  NothingAfterDiscard'
    OBVIOUS
  <2> USE DEF NothingAfterDiscard, InboundInv, TypeOK, closed
  <2>1. ASSUME NEW c \in Carrier, 
               \/ Attach(c) \/ ReadFrame(c) \/ ReadFails(c) \/ WriteFails(c)
               \/ Forward(c) \/ ForwardDropped(c) \/ ReaderFinishes(c) \/ ReaderReturns(c)
               \/ CloseStops(c) \/ CloseFinishes(c)
        PROVE  NothingAfterDiscard'
    <3>1. /\ UNCHANGED queue
          /\ reset' = reset \/ reset' = "claimed"
          /\ UNCHANGED process \/ \E p \in {"idle", "handle"} : process' = [process EXCEPT ![c] = p]
      BY <2>1 DEF Attach, ReadFrame, ReadFails, WriteFails, Forward, ForwardDropped,
         ReaderFinishes, ReaderReturns, CloseStops, CloseFinishes, FinishClose, Claim, NoClaim
    <3> QED BY <3>1
  <2>2. ASSUME NEW c \in Carrier, ProcessLoop(c)
        PROVE  NothingAfterDiscard'
    <3>1. CASE HandleFrame(c) \/ Enqueue(c)
      BY <3>1 DEF HandleFrame, Enqueue
    <3>2. CASE ProcessEnds(c) \/ HandleFails(c) \/ EnqueueAbandoned(c) \/ ReleaseAbandoned(c)
      BY <3>2 DEF ProcessEnds, HandleFails, EnqueueAbandoned, ReleaseAbandoned
    <3> QED BY <2>2, <3>1, <3>2 DEF ProcessLoop
  <2>3. CASE WriteEndpoint
    <3>1. /\ UNCHANGED process /\ (UNCHANGED queue \/ queue > 0)
          /\ reset' = reset \/ reset' = "claimed"
      BY <2>3 DEF WriteEndpoint, WriterTakes, WriterDelivers, WriterFindsClosed,
         WriterReleases, WriterResetsLast, WriterResetsError, WriterExits, Claim, NoClaim,
         carrierVars
    <3> QED BY <3>1
  <2>4. CASE Abort \/ Reset
    BY <2>4 DEF Abort, Reset, TakeCarriers, DiscardInbound, FinishReset, EnqueuersGone,
       Claim, carrierVars
  <2>5. CASE ReadEndpoint
    <3>1. UNCHANGED <<process, queue>> /\ (reset' = reset \/ reset' = "claimed")
      BY <2>5 DEF ReadEndpoint, SenderReads, SenderReadFails, SenderRemembers,
         SenderNoCarriers, SenderSent, SenderCompletes, SenderResets, SenderReturns,
         SenderGoes, SenderClaims, Claim, NoClaim, carrierVars
    <3> QED BY <3>1
  <2>6. CASE UNCHANGED vars
    BY <2>6 DEF vars
  <2> QED BY <2>1, <2>2, <2>3, <2>4, <2>5, <2>6 DEF Next
<1> QED BY <1>1, <1>2, InboundInvariance, PTL DEF Spec
=============================================================================
