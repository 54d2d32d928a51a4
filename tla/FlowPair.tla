------------------------------ MODULE FlowPair ------------------------------
(***************************************************************************)
(* One logical TCP stream: the two Flow objects (internal/tcpstream/       *)
(* stream.go) of an Engarde client and server, joined by the virtual       *)
(* carriers that both of them attached (carrier.go).  Every side reads its *)
(* endpoint, remembers each frame in a bounded replay history, and one     *)
(* sendCarrier goroutine per carrier sends its own complete copy of that   *)
(* history.  The receiver reassembles the first copy to arrive and answers *)
(* with cumulative acknowledgements, which prune the sender's history.     *)
(*                                                                         *)
(* Data is abstracted to byte offsets: the byte at an offset is determined *)
(* by the offset, so payloads need no contents here.  Module Reassembler   *)
(* models segments and their contents.                                     *)
(*                                                                         *)
(* An optional Go value (a pointer, or a field with a has... flag) is a    *)
(* set with at most one element.                                           *)
(***************************************************************************)
EXTENDS Integers, Sequences, FiniteSets

CONSTANTS
  Carrier,          \* the virtual carriers the stream may ever have
  Total,            \* Total[s]: bytes the endpoint of side s sends
  Finishes,         \* the sides whose endpoint then reaches EOF
  ChunkSize,        \* FlowConfig.ChunkSize: the most bytes one Read returns
  Window,           \* Window[s]: FlowConfig.ReorderWindowBytes of side s
  InboundCapacity,  \* capacity of the channel flow.inbound
  MaxFailures,      \* bound: failures the environment may inject
  StreamMayFail     \* whether they may take the last carrier or a flow

Side == {"client", "server"}
Peer(s) == IF s = "client" THEN "server" ELSE "client"

\* The configuration accepts a window below the chunk size.
ASSUME ConstantsAssumption ==
  /\ IsFiniteSet(Carrier) /\ Carrier # {}
  /\ Total \in [Side -> Nat]
  /\ Finishes \subseteq Side
  /\ ChunkSize \in Nat \ {0}
  /\ Window \in [Side -> Nat \ {0}]
  /\ InboundCapacity \in Nat \ {0}
  /\ MaxFailures \in Nat
  /\ StreamMayFail \in BOOLEAN

-----------------------------------------------------------------------------
VARIABLES
  \* -- lifecycle of each Flow
  started,          \* flow.started
  closed,           \* "open"; "nil" or "err": flow.closed with terminalErr
  done,             \* finishReset has run
  \* -- sending half of each Flow
  offset,           \* readEndpoint: offset of the next frame
  read,             \* bytes in its hands that remember has not taken yet
  localFIN,         \* the endpoint reached EOF
  waiting,          \* the history entry broadcast waits for, if any
  history,          \* frames kept for replay
  historyBytes,     \* payload bytes in history
  nextSequence,     \* sequence number of the next remembered frame
  globalAckOffset, globalAckFIN,   \* what the peer acknowledged
  writtenOffset, writtenFIN,       \* what some carrier has written
  deferredAck,      \* an ACK that overtook the bookkeeping of its frame
  \* -- receiving half of each Flow
  inbound,          \* the channel flow.inbound: frames with their source
  delivering,       \* the frame writeEndpoint is working on, if any
  nextOffset, held, finOffset,     \* flow.reassembler
  latestAck,        \* the latest acknowledgement produced, if any
  remoteFIN,        \* the peer's FIN was delivered
  remoteFINAckSent, \* an ACK of it was written to some carrier
  \* -- each side's Carrier objects
  status,           \* none, opening or refused (server), up,
                    \* draining or closing (stopped), gone (detached)
  carrierNext,      \* carrierState.nextSequence
  hasWritten,       \* carrierState.hasWritten
  sending,          \* the frame sendCarrier has in flight, if any
  pendingAck,       \* carrier.pendingAck
  \* -- the connections below the carriers
  wire,             \* wire[s][c]: frames s wrote on c, not yet read
  broken,           \* the connection of c is closed or lost
  failures          \* failures injected so far

flowVars    == <<started, closed, done>>
readVars    == <<offset, read, localFIN, waiting, nextSequence>>
histVars    == <<history, historyBytes>>
ackVars     == <<globalAckOffset, globalAckFIN, deferredAck>>
writtenVars == <<writtenOffset, writtenFIN>>
recvVars    == <<inbound, delivering, nextOffset, held, finOffset,
                 latestAck, remoteFIN>>
carrierVars == <<status, carrierNext, hasWritten, sending>>
connVars    == <<wire, broken>>
vars == <<flowVars, readVars, histVars, ackVars, writtenVars, recvVars,
          remoteFINAckSent, carrierVars, pendingAck, connVars, failures>>

-----------------------------------------------------------------------------
(* Frames (frame.go), reduced to what the two flows read of them.          *)

Frame == [type : {"DATA", "FIN", "ACK", "RST"},
          off : Nat, end : Nat, fin : BOOLEAN]
DataFrame(o, e) == [type |-> "DATA", off |-> o, end |-> e, fin |-> FALSE]
FinFrame(o)     == [type |-> "FIN",  off |-> o, end |-> o, fin |-> FALSE]
AckFrame(o, f)  == [type |-> "ACK",  off |-> o, end |-> o, fin |-> f]
RstFrame        == [type |-> "RST",  off |-> 0, end |-> 0, fin |-> FALSE]

Entry == [seq : Nat, frame : Frame]

Attached(s)  == {c \in Carrier : status[s][c] \in {"up", "draining", "closing"}}
Accepting(s) == {c \in Carrier : status[s][c] = "up"}

\* laterAck: what a slot holding the acknowledgements cur keeps of a new one.
LaterAck(cur, a) ==
  IF \E x \in cur : x.off > a.off \/ (x.off = a.off /\ x.fin)
    THEN cur ELSE {a}

\* Carrier.enqueueAck on every carrier of S that still accepts frames.
EnqueueAcks(s, S, acks) ==
  [pendingAck EXCEPT ![s] =
     [c \in Carrier |-> IF c \in S \cap Accepting(s) /\ acks # {}
                          THEN UNION {LaterAck(pendingAck[s][c], a) : a \in acks}
                          ELSE pendingAck[s][c]]]

\* A frame written to a broken connection may be swallowed by local buffers.
Transmit(s, c, f) ==
  IF broken[c] THEN wire ELSE [wire EXCEPT ![s][c] = Append(@, f)]

-----------------------------------------------------------------------------
(* Acknowledgement and history bookkeeping, on the values it reads.        *)

\* Mutant: any acknowledgement of the last byte also settles the FIN.
GlobalAcknowledgedWithoutFIN(ack, ackFIN, f) == ack >= f.end

GlobalAcknowledged(ack, ackFIN, f) ==
  IF f.type = "FIN" THEN ackFIN /\ ack >= f.off ELSE ack >= f.end

PruneHistory(H, ack, ackFIN) ==
  {h \in H : ~GlobalAcknowledged(ack, ackFIN, h.frame)}

PayloadBytes(H) ==
  Cardinality(UNION {h.frame.off .. (h.frame.end - 1) : h \in H})

AckRegresses(s, a) ==
  a.off < globalAckOffset[s] \/ (globalAckFIN[s] /\ ~a.fin)

AckWritten(a, wOffset, wFIN) == a.off <= wOffset /\ (a.fin => a.off \in wFIN)

AckRemembered(H, a) ==
  \E h \in H : IF a.fin THEN h.frame.type = "FIN" /\ a.off = h.frame.off
                        ELSE a.off <= h.frame.end

DeferAck(cur, a) ==
  IF \E d \in cur : d.off > a.off \/ (d.off = a.off /\ d.fin)
    THEN cur ELSE {a}

\* Mutant: the peer's FIN is ignored.
ExchangeCompleteOneWay(lFIN, rFIN, ackFIN, deferred, H) ==
  lFIN /\ (ackFIN \/ \E d \in deferred : d.fin /\ AckRemembered(H, d))

\* exchangeCompleteLocked and completeLocked over given values of the fields.
ExchangeComplete(lFIN, rFIN, ackFIN, deferred, H) ==
  /\ lFIN /\ rFIN
  /\ ackFIN \/ \E d \in deferred : d.fin /\ AckRemembered(H, d)

Complete(lFIN, rFIN, ackFIN, deferred, H, finAckSent) ==
  ExchangeComplete(lFIN, rFIN, ackFIN, deferred, H) /\ finAckSent

\* claimResetLocked: the first claim decides the outcome.
Claim(s, outcome) ==
  closed' = [closed EXCEPT ![s] = IF @ = "open" THEN outcome ELSE @]

ClaimIf(s, cond, outcome) ==
  IF cond THEN Claim(s, outcome) ELSE UNCHANGED closed

\* The outcome of a reset for want of carriers.
NoCarriersOutcome(s) ==
  IF ExchangeComplete(localFIN[s], remoteFIN[s], globalAckFIN[s],
                      deferredAck[s], history[s])
    THEN "nil" ELSE "err"

\* applyAcknowledgementLocked with the acknowledgement a; deferred is the
\* deferred acknowledgement at that point.
ApplyAck(s, a, deferred) ==
  LET ackFIN == globalAckFIN[s] \/ a.fin
      H      == PruneHistory(history[s], a.off, ackFIN)
      kept   == {d \in deferred : ~(\/ a.off > d.off
                                    \/ a.off = d.off /\ (a.fin \/ ~d.fin))}
  IN /\ globalAckOffset' = [globalAckOffset EXCEPT ![s] = a.off]
     /\ globalAckFIN' = [globalAckFIN EXCEPT ![s] = ackFIN]
     /\ deferredAck' = [deferredAck EXCEPT ![s] = kept]
     /\ history' = [history EXCEPT ![s] = H]
     /\ historyBytes' = [historyBytes EXCEPT ![s] =
                           @ - PayloadBytes(history[s] \ H)]
     /\ ClaimIf(s, Complete(localFIN[s], remoteFIN[s], ackFIN, kept, H,
                            remoteFINAckSent[s]), "nil")

-----------------------------------------------------------------------------
(* Attaching carriers and starting the flow.                               *)

\* attachMu: no other carrier of the stream is between answer and attach.
AttachMuFree == \A d \in Carrier : status["server"][d] # "opening"

\* acceptStream answers OPEN with success.
AcceptOpen(c) ==
  /\ status["server"][c] = "none" /\ ~done["server"]
  /\ AttachMuFree
  /\ status' = [status EXCEPT !["server"][c] = "opening"]
  /\ UNCHANGED <<flowVars, readVars, histVars, ackVars, writtenVars, recvVars,
                 remoteFINAckSent, carrierNext, hasWritten, sending,
                 pendingAck, connVars, failures>>

\* acceptStream refuses a stream that is over, and the client never attaches
\* this connection.  Module ServerStreams has its other reasons.
RefuseOpen(c) ==
  /\ status["server"][c] = "none" /\ done["server"]
  /\ AttachMuFree
  /\ status' = [status EXCEPT !["server"][c] = "refused"]
  /\ UNCHANGED <<flowVars, readVars, histVars, ackVars, writtenVars, recvVars,
                 remoteFINAckSent, carrierNext, hasWritten, sending,
                 pendingAck, connVars, failures>>

\* The server attaches after its answer, the client once it has the answer.
Opened(s, c) ==
  IF s = "server" THEN status["server"][c] = "opening"
                  ELSE /\ status["client"][c] = "none"
                       /\ status["server"][c] \notin {"none", "refused"}

\* Mutants: a new carrier skips the history, or starts one frame too early.
ReplayStartLate(s) == {nextSequence[s]}
ReplayStartEarly(s) == {nextSequence[s] - 1}

\* A new carrier starts with the oldest remembered frame, or with the next one.
ReplayStart(s) ==
  {q \in {h.seq : h \in history[s]} \cup {nextSequence[s]} :
     \A h \in history[s] : q <= h.seq}

Attach(s, c) ==
  /\ Opened(s, c) /\ closed[s] = "open"
  /\ status' = [status EXCEPT ![s][c] = "up"]
  /\ \E q \in ReplayStart(s) :
       carrierNext' = [carrierNext EXCEPT ![s][c] = q]
  /\ pendingAck' = [pendingAck EXCEPT ![s][c] = latestAck[s]]
  /\ UNCHANGED <<flowVars, readVars, histVars, ackVars, writtenVars, recvVars,
                 remoteFINAckSent, hasWritten, sending, connVars, failures>>

\* A connection offered to a closed flow is closed at once.
AttachRejected(s, c) ==
  /\ Opened(s, c) /\ closed[s] # "open"
  /\ status' = [status EXCEPT ![s][c] = "gone"]
  /\ broken' = [broken EXCEPT ![c] = TRUE]
  /\ wire' = [wire EXCEPT ![Peer(s)][c] = <<>>]
  /\ UNCHANGED <<flowVars, readVars, histVars, ackVars, writtenVars, recvVars,
                 remoteFINAckSent, carrierNext, hasWritten, sending,
                 pendingAck, failures>>

Start(s) ==
  /\ ~started[s] /\ closed[s] = "open"
  /\ \E c \in Carrier : status[s][c] \in {"up", "draining", "closing", "gone"}
  /\ started' = [started EXCEPT ![s] = TRUE]
  /\ ClaimIf(s, Attached(s) = {}, "err")
  /\ UNCHANGED <<done, readVars, histVars, ackVars, writtenVars, recvVars,
                 remoteFINAckSent, carrierVars, pendingAck, connVars, failures>>

-----------------------------------------------------------------------------
(* readEndpoint and broadcast.                                             *)

Reading(s) == started[s] /\ closed[s] = "open" /\ waiting[s] = {}

\* Mutant: remember does not wait for the window.
RememberUnbounded(s, f) ==
  LET entry == [seq |-> nextSequence[s], frame |-> f]
  IN /\ Attached(s) # {}
     /\ history' = [history EXCEPT ![s] = @ \cup {entry}]
     /\ historyBytes' = [historyBytes EXCEPT ![s] = @ + (f.end - f.off)]
     /\ nextSequence' = [nextSequence EXCEPT ![s] = @ + 1]
     /\ waiting' = [waiting EXCEPT ![s] = {entry}]

Remember(s, f) ==
  LET entry == [seq |-> nextSequence[s], frame |-> f]
  IN /\ Attached(s) # {}
     /\ historyBytes[s] + (f.end - f.off) <= Window[s]
     /\ history' = [history EXCEPT ![s] = @ \cup {entry}]
     /\ historyBytes' = [historyBytes EXCEPT ![s] = @ + (f.end - f.off)]
     /\ nextSequence' = [nextSequence EXCEPT ![s] = @ + 1]
     /\ waiting' = [waiting EXCEPT ![s] = {entry}]

\* The endpoint returns up to a chunk.
ReadData(s) ==
  /\ Reading(s) /\ read[s] = 0
  /\ \E n \in 1 .. ChunkSize :
       /\ offset[s] + n <= Total[s]
       /\ read' = [read EXCEPT ![s] = n]
  /\ UNCHANGED <<flowVars, offset, localFIN, waiting, nextSequence, histVars,
                 ackVars, writtenVars, recvVars, remoteFINAckSent,
                 carrierVars, pendingAck, connVars, failures>>

\* remember takes what was read as soon as the window has room for it.
RememberData(s) ==
  /\ Reading(s) /\ read[s] > 0
  /\ Remember(s, DataFrame(offset[s], offset[s] + read[s]))
  /\ offset' = [offset EXCEPT ![s] = @ + read[s]]
  /\ read' = [read EXCEPT ![s] = 0]
  /\ UNCHANGED <<flowVars, localFIN, ackVars, writtenVars, recvVars,
                 remoteFINAckSent, carrierVars, pendingAck, connVars, failures>>

AtEOF(s) ==
  s \in Finishes /\ read[s] = 0 /\ offset[s] = Total[s] /\ ~localFIN[s]

ReadEOF(s) ==
  /\ Reading(s) /\ AtEOF(s)
  /\ localFIN' = [localFIN EXCEPT ![s] = TRUE]
  /\ Remember(s, FinFrame(offset[s]))
  /\ UNCHANGED <<flowVars, offset, read, ackVars, writtenVars, recvVars,
                 remoteFINAckSent, carrierVars, pendingAck, connVars, failures>>

\* remember finds no carrier: the stream fails.
ReadNoCarriers(s) ==
  /\ Reading(s) /\ Attached(s) = {}
  /\ read[s] > 0 \/ AtEOF(s)
  /\ localFIN' = [localFIN EXCEPT ![s] = @ \/ AtEOF(s)]
  /\ Claim(s, "err")
  /\ UNCHANGED <<started, done, offset, read, waiting, nextSequence, histVars,
                 ackVars, writtenVars, recvVars, remoteFINAckSent,
                 carrierVars, pendingAck, connVars, failures>>

\* broadcast returns once a carrier wrote the frame or the peer has it; after
\* the FIN, readEndpoint looks whether the exchange is complete.
BroadcastReturns(s) ==
  /\ closed[s] = "open"
  /\ \E w \in waiting[s] :
       /\ \/ GlobalAcknowledged(globalAckOffset[s], globalAckFIN[s], w.frame)
          \/ \E c \in Attached(s) : hasWritten[s][c] /\ carrierNext[s][c] > w.seq
       /\ ClaimIf(s, /\ w.frame.type = "FIN"
                     /\ Complete(localFIN[s], remoteFIN[s], globalAckFIN[s],
                                 deferredAck[s], history[s],
                                 remoteFINAckSent[s]), "nil")
  /\ waiting' = [waiting EXCEPT ![s] = {}]
  /\ UNCHANGED <<started, done, offset, read, localFIN, nextSequence, histVars,
                 ackVars, writtenVars, recvVars, remoteFINAckSent,
                 carrierVars, pendingAck, connVars, failures>>

BroadcastNoCarriers(s) ==
  /\ closed[s] = "open" /\ Attached(s) = {}
  /\ \E w \in waiting[s] :
       /\ ~GlobalAcknowledged(globalAckOffset[s], globalAckFIN[s], w.frame)
       /\ Claim(s, IF w.frame.type = "FIN" THEN NoCarriersOutcome(s) ELSE "err")
  /\ UNCHANGED <<started, done, readVars, histVars, ackVars, writtenVars,
                 recvVars, remoteFINAckSent, carrierVars, pendingAck,
                 connVars, failures>>

-----------------------------------------------------------------------------
(* sendCarrier with the carrier's writeLoop.                               *)

\* Mutant: sendCarrier takes any frame it has not sent.
UnsentFrame(s, c) == {h \in history[s] : h.seq >= carrierNext[s][c]}

\* The oldest remembered frame this carrier has not sent.
NextFrame(s, c) ==
  {h \in history[s] :
     /\ h.seq >= carrierNext[s][c]
     /\ \A g \in history[s] : g.seq >= carrierNext[s][c] => h.seq <= g.seq}

PickFrame(s, c) ==
  /\ closed[s] = "open" /\ status[s][c] = "up" /\ sending[s][c] = {}
  /\ \E h \in NextFrame(s, c) :
       sending' = [sending EXCEPT ![s][c] =
                     {[seq |-> h.seq, frame |-> h.frame, written |-> FALSE]}]
  /\ UNCHANGED <<flowVars, readVars, histVars, ackVars, writtenVars, recvVars,
                 remoteFINAckSent, status, carrierNext, hasWritten,
                 pendingAck, connVars, failures>>

\* writeLoop puts the frame on the connection and completes the enqueue.
WriteFrame(s, c) ==
  /\ status[s][c] = "up"
  /\ \E x \in sending[s][c] :
       /\ ~x.written
       /\ wire' = Transmit(s, c, x.frame)
       /\ sending' = [sending EXCEPT ![s][c] =
                        {[seq |-> x.seq, frame |-> x.frame, written |-> TRUE]}]
  /\ UNCHANGED <<flowVars, readVars, histVars, ackVars, writtenVars, recvVars,
                 remoteFINAckSent, status, carrierNext, hasWritten,
                 pendingAck, broken, failures>>

\* applyDeferredAcknowledgementLocked after writtenOffset/writtenFIN changed.
ApplyDeferred(s, wOffset, wFIN) ==
  \/ /\ deferredAck[s] = {}
     /\ UNCHANGED <<ackVars, histVars, closed>>
  \/ \E d \in deferredAck[s] :
       \/ /\ AckRegresses(s, d)
          /\ deferredAck' = [deferredAck EXCEPT ![s] = {}]
          /\ UNCHANGED <<globalAckOffset, globalAckFIN, histVars, closed>>
       \/ /\ ~AckRegresses(s, d) /\ ~AckWritten(d, wOffset, wFIN)
          /\ UNCHANGED <<ackVars, histVars, closed>>
       \/ /\ ~AckRegresses(s, d) /\ AckWritten(d, wOffset, wFIN)
          /\ ApplyAck(s, d, {})

\* sendCarrier records the written frame: only now may an ACK of it count.
CommitFrame(s, c) ==
  /\ closed[s] = "open" /\ c \in Attached(s)
  /\ \E x \in sending[s][c] :
       LET wOffset == IF x.frame.end > writtenOffset[s] THEN x.frame.end
                                                        ELSE writtenOffset[s]
           wFIN == IF x.frame.type = "FIN" THEN {x.frame.off} ELSE writtenFIN[s]
       IN /\ x.written
          /\ carrierNext' = [carrierNext EXCEPT ![s][c] = x.seq + 1]
          /\ writtenOffset' = [writtenOffset EXCEPT ![s] = wOffset]
          /\ writtenFIN' = [writtenFIN EXCEPT ![s] = wFIN]
          /\ ApplyDeferred(s, wOffset, wFIN)
  /\ hasWritten' = [hasWritten EXCEPT ![s][c] = TRUE]
  /\ sending' = [sending EXCEPT ![s][c] = {}]
  /\ UNCHANGED <<started, done, readVars, recvVars, remoteFINAckSent, status,
                 pendingAck, connVars, failures>>

\* writeLoop sends the pending acknowledgement; carrierFrameWritten.
WriteAck(s, c) ==
  /\ status[s][c] = "up"
  /\ \E a \in pendingAck[s][c] :
       LET sent == remoteFINAckSent[s] \/ a.fin
       IN /\ wire' = Transmit(s, c, a)
          /\ remoteFINAckSent' = [remoteFINAckSent EXCEPT ![s] = sent]
          /\ ClaimIf(s, a.fin /\ Complete(localFIN[s], remoteFIN[s],
                                          globalAckFIN[s], deferredAck[s],
                                          history[s], sent), "nil")
  /\ pendingAck' = [pendingAck EXCEPT ![s][c] = {}]
  /\ UNCHANGED <<started, done, readVars, histVars, ackVars, writtenVars,
                 recvVars, carrierVars, broken, failures>>

-----------------------------------------------------------------------------
(* The carrier's readLoop and processLoop calling handleFrame.             *)

\* Take the next frame of the peer off the connection if it is of a kind.
Incoming(s, c) == Head(wire[Peer(s)][c])
Receive(s, c, kind) ==
  /\ closed[s] = "open" /\ status[s][c] \in {"up", "draining"}
  /\ wire[Peer(s)][c] # <<>> /\ Incoming(s, c).type \in kind
  /\ wire' = [wire EXCEPT ![Peer(s)][c] = Tail(@)]

\* acknowledge: ignore a regression, defer what is not yet recorded as
\* written, apply the rest.
Acknowledge(s, a) ==
  \/ /\ AckRegresses(s, a)
     /\ UNCHANGED <<ackVars, histVars, closed>>
  \/ /\ ~AckRegresses(s, a)
     /\ ~AckWritten(a, writtenOffset[s], writtenFIN[s])
     /\ deferredAck' = [deferredAck EXCEPT ![s] =
                          IF AckRemembered(history[s], a) THEN DeferAck(@, a)
                                                          ELSE @]
     /\ UNCHANGED <<globalAckOffset, globalAckFIN, histVars, closed>>
  \/ /\ ~AckRegresses(s, a)
     /\ AckWritten(a, writtenOffset[s], writtenFIN[s])
     /\ ApplyAck(s, a, deferredAck[s])

ReceiveAck(s, c) ==
  /\ Receive(s, c, {"ACK"})
  /\ Acknowledge(s, Incoming(s, c))
  /\ UNCHANGED <<started, done, readVars, writtenVars, recvVars,
                 remoteFINAckSent, carrierVars, pendingAck, broken, failures>>

\* enqueueInbound; a full channel leaves the frame with the carrier.
EnqueueInbound(s, c) ==
  /\ Len(inbound[s]) < InboundCapacity
  /\ Receive(s, c, {"DATA", "FIN"})
  /\ inbound' = [inbound EXCEPT ![s] =
                    Append(@, [src |-> c, frame |-> Incoming(s, c)])]
  /\ UNCHANGED <<flowVars, readVars, histVars, ackVars, writtenVars, delivering,
                 nextOffset, held, finOffset, latestAck, remoteFIN,
                 remoteFINAckSent, carrierVars, pendingAck, broken, failures>>

ReceiveRST(s, c) ==
  /\ Receive(s, c, {"RST"})
  /\ Claim(s, "err")
  /\ UNCHANGED <<started, done, readVars, histVars, ackVars, writtenVars,
                 recvVars, remoteFINAckSent, carrierVars, pendingAck, broken,
                 failures>>

-----------------------------------------------------------------------------
(* writeEndpoint and deliverInbound.                                       *)

\* The reassembler refuses the frame (ErrFIN, ErrReorderWindow).
Refused(s, f) ==
  IF f.type = "DATA"
    THEN /\ f.end > nextOffset[s]
         /\ \/ \E o \in finOffset[s] : f.end > o
            \/ f.end - nextOffset[s] > Window[s]
    ELSE \/ f.off < nextOffset[s]
         \/ \E b \in held[s] : b >= f.off
         \/ \E o \in finOffset[s] : o # f.off

\* Push or SetFIN, then DrainTo up to the first missing byte m, then the
\* first half of enqueueAck: record the acknowledgement and the carriers.
Accept(s, src, f) ==
  LET H   == IF f.type = "DATA"
               THEN held[s] \cup {b \in f.off .. (f.end - 1) : b >= nextOffset[s]}
               ELSE held[s]
      fin == IF f.type = "FIN" THEN {f.off} ELSE finOffset[s]
  IN \E m \in nextOffset[s] .. (nextOffset[s] + Cardinality(H)) :
       /\ (nextOffset[s] .. (m - 1)) \subseteq H /\ m \notin H
       /\ nextOffset' = [nextOffset EXCEPT ![s] = m]
       /\ held' = [held EXCEPT ![s] = {b \in H : b >= m}]
       /\ finOffset' = [finOffset EXCEPT ![s] = fin]
       /\ LET acks == LaterAck(latestAck[s], AckFrame(m, m \in fin))
          IN /\ latestAck' = [latestAck EXCEPT ![s] = acks]
             /\ delivering' = [delivering EXCEPT ![s] =
                  {[pc |-> "ack", src |-> src, acks |-> acks,
                    carriers |-> Attached(s), finished |-> m \in fin]}]

Deliver(s) ==
  /\ started[s] /\ closed[s] = "open"
  /\ delivering[s] = {} /\ inbound[s] # <<>>
  /\ LET item == Head(inbound[s])
     IN IF Refused(s, item.frame)
          THEN /\ Claim(s, "err")
               /\ UNCHANGED <<delivering, nextOffset, held, finOffset, latestAck>>
          ELSE Accept(s, item.src, item.frame) /\ UNCHANGED closed
  /\ inbound' = [inbound EXCEPT ![s] = Tail(@)]
  /\ UNCHANGED <<started, done, readVars, histVars, ackVars, writtenVars,
                 remoteFIN, remoteFINAckSent, carrierVars, pendingAck,
                 connVars, failures>>

\* Second half of enqueueAck: to the source, or to the others it copied.
SendAck(s) ==
  /\ closed[s] = "open"
  /\ \E d \in delivering[s] :
       /\ d.pc = "ack"
       /\ pendingAck' = IF d.src \in Accepting(s)
                          THEN EnqueueAcks(s, {d.src}, d.acks)
                          ELSE EnqueueAcks(s, d.carriers \ {d.src}, d.acks)
       /\ delivering' = [delivering EXCEPT ![s] = {[d EXCEPT !.pc = "finish"]}]
  /\ UNCHANGED <<flowVars, readVars, histVars, ackVars, writtenVars, inbound,
                 nextOffset, held, finOffset, latestAck, remoteFIN,
                 remoteFINAckSent, carrierVars, connVars, failures>>

\* Mutants: writeEndpoint ignores that releaseInbound asks for a reset, or
\* resets although carriers are left.
NothingLeftIgnored(s) == FALSE
NothingLeftQueued(s) == inbound[s] = <<>>

\* releaseInbound took the last queued frame and every carrier is gone.
NothingLeft(s) == inbound[s] = <<>> /\ Attached(s) = {}

\* finishRemote, then releaseInbound and resetAfterLastCarrier.
FinishDelivery(s) ==
  /\ closed[s] = "open"
  /\ \E d \in delivering[s] :
       LET rFIN     == remoteFIN[s] \/ d.finished
           complete == /\ d.finished /\ ~remoteFIN[s]
                       /\ Complete(localFIN[s], TRUE, globalAckFIN[s],
                                   deferredAck[s], history[s],
                                   remoteFINAckSent[s])
       IN /\ d.pc = "finish"
          /\ remoteFIN' = [remoteFIN EXCEPT ![s] = rFIN]
          /\ ClaimIf(s, complete \/ NothingLeft(s),
               IF complete \/ ExchangeComplete(localFIN[s], rFIN,
                                globalAckFIN[s], deferredAck[s], history[s])
                 THEN "nil" ELSE "err")
  /\ delivering' = [delivering EXCEPT ![s] = {}]
  /\ UNCHANGED <<started, done, readVars, histVars, ackVars, writtenVars,
                 inbound, nextOffset, held, finOffset, latestAck,
                 remoteFINAckSent, carrierVars, pendingAck, connVars, failures>>

-----------------------------------------------------------------------------
(* Stopping and detaching carriers.                                        *)

\* Carrier.stop: no more frames are accepted, queued ones fail, and
\* carrierStopping passes the latest acknowledgement to the other carriers.
\* kept: how many unread frames the carrier had already read.
StopCarrier(s, c, kept, to) ==
  /\ status[s][c] = "up"
  /\ status' = [status EXCEPT ![s][c] = to]
  /\ sending' = [sending EXCEPT ![s][c] = {x \in @ : x.written}]
  /\ pendingAck' =
       [EnqueueAcks(s, Carrier \ {c},
                    IF closed[s] = "open" THEN latestAck[s] ELSE {})
          EXCEPT ![s][c] = {}]
  /\ broken' = [broken EXCEPT ![c] = TRUE]
  /\ wire' = [wire EXCEPT ![Peer(s)][c] = SubSeq(@, 1, kept)]
  /\ UNCHANGED <<flowVars, readVars, histVars, ackVars, writtenVars, recvVars,
                 remoteFINAckSent, carrierNext, hasWritten>>

\* readLoop reads EOF after the last frame of a broken connection.
StopAtEOF(s, c) ==
  /\ broken[c] /\ wire[Peer(s)][c] = <<>>
  /\ StopCarrier(s, c, 0, "draining") /\ UNCHANGED failures

\* writeLoop fails; the frames that readLoop and processLoop hold (one each)
\* are still processed, the rest is lost with the connection.
CarrierReadAhead == 2
StopAtWriteError(s, c) ==
  /\ broken[c]
  /\ pendingAck[s][c] # {} \/ \E x \in sending[s][c] : ~x.written
  /\ \E kept \in 0 .. CarrierReadAhead :
       /\ kept <= Len(wire[Peer(s)][c])
       /\ StopCarrier(s, c, kept, "draining")
  /\ UNCHANGED failures

\* A failure the stream must survive leaves another carrier up on both sides.
Survivable(c) ==
  \E d \in Carrier \ {c} : ~broken[d] /\ \A s \in Side : status[s][d] = "up"

MayFail(c) == failures < MaxFailures /\ (StreamMayFail \/ Survivable(c))

\* The client's carrier group closes a carrier: syncPaths, reconcile.
CloseCarrier(c) ==
  /\ MayFail(c)
  /\ StopCarrier("client", c, 0, "closing")
  /\ failures' = failures + 1

\* Mutant: the loss of any carrier resets the flow.
AnyCarrier(s, c) == TRUE

LastCarrier(s, c) == Attached(s) = {c}

\* finishClose: Flow.detach.
Detach(s, c) ==
  /\ \/ status[s][c] = "closing"
     \/ status[s][c] = "draining" /\ wire[Peer(s)][c] = <<>>
  /\ status' = [status EXCEPT ![s][c] = "gone"]
  /\ sending' = [sending EXCEPT ![s][c] = {}]
  /\ carrierNext' = [carrierNext EXCEPT ![s][c] = 0]
  /\ hasWritten' = [hasWritten EXCEPT ![s][c] = FALSE]
  /\ ClaimIf(s, /\ started[s] /\ LastCarrier(s, c)
                /\ \/ status[s][c] = "closing"
                   \/ inbound[s] = <<>> /\ delivering[s] = {},
             NoCarriersOutcome(s))
  /\ pendingAck' = EnqueueAcks(s, Carrier \ {c},
                     IF closed[s] = "open" THEN latestAck[s] ELSE {})
  /\ UNCHANGED <<started, done, readVars, histVars, ackVars, writtenVars,
                 recvVars, remoteFINAckSent, connVars, failures>>

-----------------------------------------------------------------------------
(* Failures of the environment and the end of a flow.                      *)

\* The session or path below c is lost, with any suffix of what it carried.
Break(c) ==
  /\ MayFail(c) /\ ~broken[c]
  /\ broken' = [broken EXCEPT ![c] = TRUE]
  /\ \E toServer \in 0 .. Len(wire["client"][c]),
        toClient \in 0 .. Len(wire["server"][c]) :
       wire' = [wire EXCEPT !["client"][c] = SubSeq(@, 1, toServer),
                            !["server"][c] = SubSeq(@, 1, toClient)]
  /\ UNCHANGED <<flowVars, readVars, histVars, ackVars, writtenVars, recvVars,
                 remoteFINAckSent, carrierVars, pendingAck>>
  /\ failures' = failures + 1

\* Flow.Reset: an endpoint read or write fails, or whoever owns the flow gives
\* it up, started or not (open timers, failOpen, shutdown).
ResetFlow(s) ==
  /\ failures < MaxFailures /\ StreamMayFail
  /\ closed[s] = "open"
  /\ Claim(s, "err")
  /\ failures' = failures + 1
  /\ UNCHANGED <<started, done, readVars, histVars, ackVars, writtenVars,
                 recvVars, remoteFINAckSent, carrierVars, pendingAck, connVars>>

\* finishReset: drop what is queued, tell the peer on one carrier unless the
\* exchange completed, and close every carrier.
FinishReset(s) ==
  /\ closed[s] # "open" /\ ~done[s]
  /\ done' = [done EXCEPT ![s] = TRUE]
  /\ inbound' = [inbound EXCEPT ![s] = <<>>]
  /\ \E target \in SUBSET Accepting(s) :
       /\ IF closed[s] = "err" /\ Accepting(s) # {} THEN Cardinality(target) = 1
                                                   ELSE target = {}
       /\ wire' = [t \in Side |-> [c \in Carrier |->
            IF t = s
              THEN IF c \in target /\ ~broken[c] THEN Append(wire[s][c], RstFrame)
                                                 ELSE wire[s][c]
              ELSE IF c \in Attached(s) THEN <<>> ELSE wire[t][c]]]
  /\ broken' = [c \in Carrier |-> broken[c] \/ c \in Attached(s)]
  /\ status' = [status EXCEPT ![s] =
       [c \in Carrier |-> IF c \in Attached(s) THEN "gone" ELSE @[c]]]
  /\ carrierNext' = [carrierNext EXCEPT ![s] = [c \in Carrier |-> 0]]
  /\ hasWritten' = [hasWritten EXCEPT ![s] = [c \in Carrier |-> FALSE]]
  /\ sending' = [sending EXCEPT ![s] = [c \in Carrier |-> {}]]
  /\ pendingAck' = [pendingAck EXCEPT ![s] = [c \in Carrier |-> {}]]
  /\ UNCHANGED <<started, closed, readVars, histVars, ackVars, writtenVars,
                 delivering, nextOffset, held, finOffset, latestAck, remoteFIN,
                 remoteFINAckSent, failures>>

-----------------------------------------------------------------------------
Init ==
  LET none == [s \in Side |-> {}]
      zero == [s \in Side |-> 0]
      no   == [s \in Side |-> FALSE]
  IN /\ started = no /\ closed = [s \in Side |-> "open"] /\ done = no
     /\ offset = zero /\ read = zero /\ localFIN = no
     /\ waiting = none /\ nextSequence = zero
     /\ history = none /\ historyBytes = zero
     /\ globalAckOffset = zero /\ globalAckFIN = no /\ deferredAck = none
     /\ writtenOffset = zero /\ writtenFIN = none
     /\ inbound = [s \in Side |-> <<>>] /\ delivering = none
     /\ nextOffset = zero /\ held = none /\ finOffset = none
     /\ latestAck = none /\ remoteFIN = no /\ remoteFINAckSent = no
     /\ status = [s \in Side |-> [c \in Carrier |-> "none"]]
     /\ carrierNext = [s \in Side |-> [c \in Carrier |-> 0]]
     /\ hasWritten = [s \in Side |-> [c \in Carrier |-> FALSE]]
     /\ sending = [s \in Side |-> [c \in Carrier |-> {}]]
     /\ pendingAck = [s \in Side |-> [c \in Carrier |-> {}]]
     /\ wire = [s \in Side |-> [c \in Carrier |-> <<>>]]
     /\ broken = [c \in Carrier |-> FALSE]
     /\ failures = 0

\* The steps of each goroutine.
ReadEndpoint(s) ==
  \/ ReadData(s) \/ RememberData(s) \/ ReadEOF(s) \/ ReadNoCarriers(s)
  \/ BroadcastReturns(s) \/ BroadcastNoCarriers(s)
WriteEndpoint(s) == Deliver(s) \/ SendAck(s) \/ FinishDelivery(s)
FlowStep(s) == Start(s) \/ ReadEndpoint(s) \/ WriteEndpoint(s) \/ FinishReset(s)

SendCarrier(s, c) == PickFrame(s, c) \/ CommitFrame(s, c)
ProcessLoop(s, c) ==
  ReceiveAck(s, c) \/ EnqueueInbound(s, c) \/ ReceiveRST(s, c)
ReadLoop(s, c) == StopAtEOF(s, c) \/ Detach(s, c)
CarrierStep(s, c) ==
  \/ Attach(s, c) \/ AttachRejected(s, c)
  \/ SendCarrier(s, c) \/ ProcessLoop(s, c) \/ ReadLoop(s, c)
  \/ WriteFrame(s, c) \/ WriteAck(s, c) \/ StopAtWriteError(s, c)

Failure ==
  \/ \E c \in Carrier : Break(c) \/ CloseCarrier(c)
  \/ \E s \in Side : ResetFlow(s)

\* What the goroutines do by themselves.
Progress ==
  \/ \E s \in Side : FlowStep(s)
  \/ \E c \in Carrier : AcceptOpen(c) \/ RefuseOpen(c)
  \/ \E s \in Side, c \in Carrier : CarrierStep(s, c)

Next == Progress \/ Failure

Spec == Init /\ [][Next]_vars

\* Every goroutine that can run does, and the endpoints keep reading and
\* writing.  writeLoop alternates between acknowledgements and frames
\* (preferAck), so neither of them starves.  Failures are never forced.
FairSpec ==
  /\ Spec
  /\ \A c \in Carrier : WF_vars(AcceptOpen(c) \/ RefuseOpen(c))
  /\ \A s \in Side :
       /\ WF_vars(Start(s)) /\ WF_vars(FinishReset(s))
       /\ WF_vars(ReadEndpoint(s)) /\ WF_vars(WriteEndpoint(s))
       /\ \A c \in Carrier :
            /\ WF_vars(Attach(s, c) \/ AttachRejected(s, c))
            /\ WF_vars(SendCarrier(s, c)) /\ WF_vars(ProcessLoop(s, c))
            /\ WF_vars(WriteFrame(s, c)) /\ WF_vars(WriteAck(s, c))
            /\ WF_vars(ReadLoop(s, c))

-----------------------------------------------------------------------------
(* Properties.                                                             *)

\* Every field of the two flows, their carriers and connections has its type.
TypeFlow ==
  /\ started \in [Side -> BOOLEAN] /\ done \in [Side -> BOOLEAN]
  /\ closed \in [Side -> {"open", "nil", "err"}]
TypeRead ==
  /\ offset \in [Side -> Nat] /\ localFIN \in [Side -> BOOLEAN]
  /\ read \in [Side -> Nat] /\ \A s \in Side : offset[s] + read[s] <= Total[s]
  /\ waiting \in [Side -> SUBSET Entry] /\ nextSequence \in [Side -> Nat]
TypeHist ==
  history \in [Side -> SUBSET Entry] /\ historyBytes \in [Side -> Int]
TypeAck ==
  /\ globalAckOffset \in [Side -> Nat] /\ globalAckFIN \in [Side -> BOOLEAN]
  /\ deferredAck \in [Side -> SUBSET Frame]
TypeWritten ==
  writtenOffset \in [Side -> Nat] /\ writtenFIN \in [Side -> SUBSET Nat]
Delivery == [pc : {"ack", "finish"}, src : Carrier, acks : SUBSET Frame,
             carriers : SUBSET Carrier, finished : BOOLEAN]
TypeRecv ==
  /\ inbound \in [Side -> Seq([src : Carrier, frame : Frame])]
  /\ delivering \in [Side -> SUBSET Delivery]
  /\ nextOffset \in [Side -> Nat] /\ held \in [Side -> SUBSET Nat]
  /\ finOffset \in [Side -> SUBSET Nat]
  /\ latestAck \in [Side -> SUBSET Frame] /\ remoteFIN \in [Side -> BOOLEAN]
Status == {"none", "opening", "refused", "up", "draining", "closing", "gone"}
InFlight == [seq : Nat, frame : Frame, written : BOOLEAN]
TypeCarrier ==
  /\ status \in [Side -> [Carrier -> Status]]
  /\ carrierNext \in [Side -> [Carrier -> Nat]]
  /\ hasWritten \in [Side -> [Carrier -> BOOLEAN]]
  /\ sending \in [Side -> [Carrier -> SUBSET InFlight]]
TypeConn ==
  /\ wire \in [Side -> [Carrier -> Seq(Frame)]]
  /\ broken \in [Carrier -> BOOLEAN]
TypeOK ==
  /\ TypeFlow /\ TypeRead /\ TypeHist /\ TypeAck /\ TypeWritten /\ TypeRecv
  /\ TypeCarrier /\ TypeConn
  /\ remoteFINAckSent \in [Side -> BOOLEAN]
  /\ pendingAck \in [Side -> [Carrier -> SUBSET Frame]]
  /\ failures \in Nat

\* The peer of s has everything the endpoint of s sent, and its EOF.
Delivered(s) ==
  localFIN[s] /\ nextOffset[Peer(s)] = offset[s] /\ offset[s] \in finOffset[Peer(s)]

\* What s read from its endpoint and the peer has not written to its own yet
\* can still be replayed on a new carrier: pruneHistoryLocked and the
\* cumulative acknowledgements never give up an undelivered frame.
NothingForgotten ==
  \A s \in Side :
    /\ \A b \in 0 .. (offset[s] - 1) :
         b >= nextOffset[Peer(s)] =>
           \E h \in history[s] : h.frame.off <= b /\ b < h.frame.end
    /\ localFIN[s] /\ ~Delivered(s) /\ closed[s] = "open" =>
         \E h \in history[s] : h.frame.type = "FIN"

\* completeLocked: a flow that ends without an error has delivered all its
\* bytes and its EOF to the peer's endpoint, and got all of the peer's.
GracefulMeansDelivered ==
  \A s \in Side : closed[s] = "nil" => Delivered(s) /\ Delivered(Peer(s))

\* Each carrier sends the history in order and skips only acknowledged frames,
\* so the first copy of a byte always arrives when it is the next one, and the
\* first FIN after every byte: the reassembler never has to hold a byte back,
\* and a frame it refuses is longer than its whole window.
NeverOutOfOrder ==
  \A s \in Side :
    /\ held[s] = {}
    /\ finOffset[s] # {} => nextOffset[s] \in finOffset[s]
    /\ closed[s] = "open" /\ inbound[s] # <<>> =>
         LET f == Head(inbound[s]).frame
         IN Refused(s, f) => f.end - f.off > Window[s]

\* The payload counter that bounds the replay history agrees with it, and no
\* acknowledged frame stays in it.
HistoryBounded ==
  \A s \in Side :
    /\ historyBytes[s] = PayloadBytes(history[s])
    /\ historyBytes[s] <= Window[s]
    /\ history[s] = PruneHistory(history[s], globalAckOffset[s], globalAckFIN[s])

\* c works for the frames of s, and its peer still reads.
Healthy(s, c) ==
  ~broken[c] /\ status[s][c] = "up" /\ closed[Peer(s)] = "open"

\* The peer of s has the frame f, or c or the peer's queue brings it.
Arrived(s, c, f) ==
  \/ f.type = "DATA" /\ f.end <= nextOffset[Peer(s)]
  \/ f.type = "FIN" /\ finOffset[Peer(s)] # {}
  \/ \E i \in 1 .. Len(wire[s][c]) : wire[s][c][i] = f
  \/ \E i \in 1 .. Len(inbound[Peer(s)]) : inbound[Peer(s)][i].frame = f

\* A frame that sendCarrier counts as sent on a healthy carrier and that the
\* peer still lacks is on its way there, so the copy of every carrier is
\* complete by itself.
CarrierCopyComplete ==
  \A s \in Side, c \in Carrier :
    Healthy(s, c) => \A h \in history[s] :
                       h.seq < carrierNext[s][c] => Arrived(s, c, h.frame)

\* Each side's window takes the frames that the other can send, as it does
\* with the same configuration on both; config.go does not see the other's.
FramesFit ==
  \A s \in Side : ChunkSize <= Window[Peer(s)] \/ Window[s] <= Window[Peer(s)]

AllDelivered == \A s \in Side : Delivered(s)

\* While another carrier stays up on both sides, the loss of a carrier does
\* not end the stream: it only ends after both directions were delivered.
Uninterrupted ==
  FramesFit /\ ~StreamMayFail =>
    AllDelivered \/ \A s \in Side : closed[s] = "open"

\* A read that can never be remembered: it is longer than the whole window.
\* config.go accepts such a window (chunkSize and reorderWindowBytes are
\* validated each by itself); then, and only then, remember waits for ever.
Oversized(s) == read[s] > Window[s]

\* While another carrier stays up nobody waits for ever: in spite of lost
\* frames, lost acknowledgements and carriers that stop half way, some
\* goroutine can go on until everything sent has reached the peer's endpoint
\* (broadcast, remember, sendCarrier, carrierStopping, detach).
NeverStuck ==
  /\ ~StreamMayFail
  /\ \E s \in Finishes : ~Delivered(s)
  /\ \A s \in Side : ~Oversized(s)
  => ENABLED Progress

\* A flow that started ends, for good: with the exchange complete, or because
\* its carriers or endpoints failed; a read longer than the window is the only
\* thing a goroutine can wait on for ever.
EventuallyDone ==
  <>[](\/ \A s \in Side : started[s] => done[s]
       \/ \E s \in Side : Oversized(s))

-----------------------------------------------------------------------------
(* The stream that the two flows make together.                            *)

\* s delivered the whole stream of its peer.
FinReached(s) == nextOffset[s] \in finOffset[s]

Stream == INSTANCE RelayedStream WITH
  taken <- [s \in Side |-> offset[s] + read[s]],
  ended <- localFIN,
  delivered <- nextOffset,
  finished <- [s \in Side |-> FinReached(s)],
  outcome <- closed,
  trouble <- failures > 0

\* The two flows, their carriers and their acknowledgements implement the
\* stream of module RelayedStream: every step takes, delivers or ends it as
\* promised there, or is invisible.  So bytes arrive once and in order, nothing
\* moves after the end, a graceful end (completeLocked) has delivered both
\* directions, and without a failure there is no other end.
ImplementsStream == Stream!Spec

-----------------------------------------------------------------------------
(* The inductive strengthening behind NothingForgotten and                 *)
(* GracefulMeansDelivered.                                                 *)

\* An acknowledgement that s produced claims no more than s delivered.
AckOK(s, a) ==
  /\ a.type = "ACK"
  /\ a.off <= nextOffset[s]
  /\ a.fin => FinReached(s) /\ a.off = nextOffset[s]

\* A frame that s produced: data s read, the FIN at its end, or a true ACK.
FrameOK(s, f) ==
  /\ f.type = "DATA" => f.off < f.end /\ f.end <= offset[s]
  /\ f.type = "FIN" => localFIN[s] /\ f.off = offset[s] /\ f.end = offset[s]
  /\ f.type = "ACK" => AckOK(s, f)

\* The frames of the two kinds that carry the stream.
StreamFrameOK(s, f) == f.type \in {"DATA", "FIN"} /\ FrameOK(s, f)

\* Every frame s keeps, has on a carrier or left with the peer is one that s
\* may send.
KeptFramesOK ==
  \A s \in Side :
    /\ \A h \in history[s] : StreamFrameOK(s, h.frame)
    /\ \A w \in waiting[s] : StreamFrameOK(s, w.frame)
    /\ \A c \in Carrier : \A x \in sending[s][c] : StreamFrameOK(s, x.frame)
WireFramesOK ==
  \A s \in Side, c \in Carrier :
    \A i \in 1 .. Len(wire[s][c]) : FrameOK(s, wire[s][c][i])
InboundFramesOK ==
  \A s \in Side :
    \A i \in 1 .. Len(inbound[s]) : StreamFrameOK(Peer(s), inbound[s][i].frame)
FramesOK == KeptFramesOK /\ WireFramesOK /\ InboundFramesOK

\* Every acknowledgement s keeps (latestAck, a carrier's pending slot, the
\* hands of writeEndpoint) is true of s, and so is what its peer accepted or
\* deferred.
KeptAcksOK ==
  \A s \in Side :
    /\ \A a \in latestAck[s] : AckOK(s, a)
    /\ \A c \in Carrier : \A a \in pendingAck[s][c] : AckOK(s, a)
    /\ \A d \in delivering[s] : \A a \in d.acks : AckOK(s, a)
TakenAcksOK ==
  \A s \in Side :
    /\ \A a \in deferredAck[s] : AckOK(Peer(s), a)
    /\ globalAckOffset[s] <= nextOffset[Peer(s)]
    /\ globalAckFIN[s] => FinReached(Peer(s))
AcksOK == KeptAcksOK /\ TakenAcksOK

\* The receiving half of s against the sending half of its peer.
ReceiverOK ==
  \A s \in Side :
    /\ nextOffset[s] <= offset[Peer(s)]
    /\ \A b \in held[s] : b < offset[Peer(s)]
    /\ \A o \in finOffset[s] : localFIN[Peer(s)] /\ o = offset[Peer(s)]
    /\ localFIN[s] => offset[s] = Total[s]
    /\ remoteFIN[s] => FinReached(s)
    /\ \A d \in delivering[s] : d.finished => FinReached(s)

\* The history covers what the peer has not acknowledged.
HistoryOK ==
  \A s \in Side :
    /\ \A b \in 0 .. (offset[s] - 1) : globalAckOffset[s] <= b =>
         \E h \in history[s] : h.frame.off <= b /\ b < h.frame.end
    /\ localFIN[s] /\ closed[s] = "open" /\ ~globalAckFIN[s] =>
         \E h \in history[s] : h.frame.type = "FIN"

FlowInv == /\ TypeOK /\ FramesOK /\ AcksOK /\ ReceiverOK /\ HistoryOK
           /\ GracefulMeansDelivered

-----------------------------------------------------------------------------
(* The inductive strengthening behind NeverOutOfOrder, CarrierCopyComplete,*)
(* HistoryBounded, Uninterrupted and ImplementsStream.                     *)

InStream(f) == f.type \in {"DATA", "FIN"}

\* Sequence numbers follow the stream, in the history and on each carrier,
\* which has in flight the oldest frame it has not sent.
HistorySeqOK ==
  \A s \in Side : \A g, h \in history[s] :
    /\ g.seq < nextSequence[s]
    /\ g.seq = h.seq => g = h
    /\ g.seq < h.seq => g.frame.type = "DATA" /\ g.frame.end <= h.frame.off
SendingSeqOK ==
  \A s \in Side, c \in Carrier :
    /\ carrierNext[s][c] <= nextSequence[s]
    /\ status[s][c] \in {"none", "opening", "refused"} => sending[s][c] = {}
    /\ \A x \in sending[s][c] :
         /\ x.seq < nextSequence[s]
         /\ \A g \in history[s] :
              /\ g.seq = x.seq => g.frame = x.frame
              /\ g.seq < x.seq => g.seq < carrierNext[s][c]

\* What is queued at s brings it to the offset o, or what c has for its peer.
QueueReaches(s, o) ==
  \/ o <= nextOffset[s]
  \/ \E j \in 1 .. Len(inbound[s]) : o <= inbound[s][j].frame.end
WireReaches(s, c, o) ==
  \/ QueueReaches(Peer(s), o)
  \/ \E j \in 1 .. Len(wire[s][c]) :
       InStream(wire[s][c][j]) /\ o <= wire[s][c][j].end

\* Every frame starts no later than the frames before it end.
QueueInOrder ==
  \A s \in Side :
    /\ held[s] = {}
    /\ finOffset[s] # {} => nextOffset[s] \in finOffset[s]
    /\ closed[s] = "open" => \A i \in 1 .. Len(inbound[s]) :
         \/ inbound[s][i].frame.off <= nextOffset[s]
         \/ \E j \in 1 .. (i - 1) :
              inbound[s][i].frame.off <= inbound[s][j].frame.end
WireInOrder ==
  \A s \in Side, c \in Carrier :
    closed[Peer(s)] = "open" => \A i \in 1 .. Len(wire[s][c]) :
      InStream(wire[s][c][i]) =>
        \/ QueueReaches(Peer(s), wire[s][c][i].off)
        \/ \E j \in 1 .. (i - 1) :
             InStream(wire[s][c][j]) /\ wire[s][c][i].off <= wire[s][c][j].end
SendingInOrder ==
  \A s \in Side, c \in Carrier :
    Healthy(s, c) => \A x \in sending[s][c] :
                       /\ WireReaches(s, c, x.frame.off)
                       /\ x.written => Arrived(s, c, x.frame)

\* No frame is longer than a read or than its sender's window.
Fits(s, f) ==
  f.type = "DATA" => f.end - f.off <= ChunkSize /\ f.end - f.off <= Window[s]
SizesOK ==
  \A s \in Side :
    /\ read[s] <= ChunkSize
    /\ \A h \in history[s] : Fits(s, h.frame)
    /\ \A c \in Carrier : /\ \A x \in sending[s][c] : Fits(s, x.frame)
                          /\ \A i \in 1 .. Len(wire[s][c]) : Fits(s, wire[s][c][i])
    /\ \A i \in 1 .. Len(inbound[s]) : Fits(Peer(s), inbound[s][i].frame)

\* Until all is delivered, failures that the stream survives leave it open,
\* and with a carrier up on both sides if any carrier is lost.
Calm ==
  /\ \A s \in Side : /\ closed[s] = "open" /\ ~done[s]
                     /\ started[s] \/ waiting[s] # {} \/ delivering[s] # {} =>
                          \E c \in Carrier :
                            status[s][c] \in {"up", "draining", "closing", "gone"}
  /\ \A s \in Side, c \in Carrier :
       /\ \A i \in 1 .. Len(wire[s][c]) : wire[s][c][i].type # "RST"
       /\ status[s][c] \in {"draining", "closing", "gone"} => broken[c]
  /\ \/ \A c \in Carrier : ~broken[c]
     \/ \E c \in Carrier : ~broken[c] /\ \A s \in Side : status[s][c] = "up"
CalmUntilDelivered ==
  FramesFit /\ (~StreamMayFail \/ failures = 0) => Calm \/ AllDelivered

OrderInv ==
  /\ HistorySeqOK /\ SendingSeqOK /\ HistoryBounded /\ SizesOK
  /\ QueueInOrder /\ WireInOrder /\ SendingInOrder /\ CarrierCopyComplete
  /\ CalmUntilDelivered

\* The inductive invariant of the stream's proofs: typing, the truth of frames
\* and acknowledgements and the cover of the history (FlowInv), and the order,
\* the sizes and the survival of what remember, sendCarrier and the connections
\* hold (OrderInv).
StreamInv == FlowInv /\ OrderInv
=============================================================================
