--------------------------- MODULE FlowPairProofs ---------------------------
(* Proofs about FlowPair for every set of carriers, every amount of data,  *)
(* every window and every number of failures.                              *)
EXTENDS FlowPair, FiniteSetTheorems, TLAPS

LEMMA PeerFacts ==
  ASSUME NEW s \in Side
  PROVE  /\ Peer(s) \in Side /\ Peer(Peer(s)) = s /\ Peer(s) # s
         /\ \A t \in Side : t = s \/ t = Peer(s)
BY DEF Side, Peer

LEMMA FrameTypes ==
  /\ \A o, e \in Nat : DataFrame(o, e) \in Frame
  /\ \A o \in Nat : FinFrame(o) \in Frame
  /\ \A o \in Nat, f \in BOOLEAN : AckFrame(o, f) \in Frame
  /\ RstFrame \in Frame
BY DEF Frame, DataFrame, FinFrame, AckFrame, RstFrame

\* A slot never holds an acknowledgement that was not offered to it.
LEMMA LaterAckSubset ==
  ASSUME NEW cur, NEW a
  PROVE  LaterAck(cur, a) \subseteq cur \cup {a}
BY DEF LaterAck

LEMMA DeferAckSubset ==
  ASSUME NEW cur, NEW a
  PROVE  DeferAck(cur, a) \subseteq cur \cup {a}
BY DEF DeferAck

LEMMA EnqueueAcksType ==
  ASSUME TypeOK, NEW s \in Side, NEW S, NEW acks \in SUBSET Frame
  PROVE  /\ EnqueueAcks(s, S, acks) \in [Side -> [Carrier -> SUBSET Frame]]
         /\ \A t \in Side, c \in Carrier :
              EnqueueAcks(s, S, acks)[t][c] \subseteq
                pendingAck[t][c] \cup (IF t = s THEN acks ELSE {})
<1>1. \A c \in Carrier :
        UNION {LaterAck(pendingAck[s][c], a) : a \in acks}
          \subseteq pendingAck[s][c] \cup acks
  BY LaterAckSubset
<1>2. pendingAck \in [Side -> [Carrier -> SUBSET Frame]]
  BY DEF TypeOK
<1>3. EnqueueAcks(s, S, acks)[s] \in [Carrier -> SUBSET Frame]
  BY <1>1, <1>2 DEF EnqueueAcks
<1>4. \A c \in Carrier : EnqueueAcks(s, S, acks)[s][c]
        \subseteq pendingAck[s][c] \cup acks
  BY <1>1, <1>2 DEF EnqueueAcks
<1>5. \A t \in Side : t # s => EnqueueAcks(s, S, acks)[t] = pendingAck[t]
  BY <1>2 DEF EnqueueAcks
<1>6. EnqueueAcks(s, S, acks) \in [Side -> [Carrier -> SUBSET Frame]]
  BY <1>2, <1>3, <1>5 DEF EnqueueAcks
<1> QED BY <1>4, <1>5, <1>6

-----------------------------------------------------------------------------
(* What a step leaves alone.                                               *)

\* The variables that decide which frames and acknowledgements are true.
Truth == <<offset, localFIN, nextOffset, finOffset>>

LEMMA StableFacts ==
  ASSUME UNCHANGED Truth, NEW s \in Side
  PROVE  /\ FinReached(s)' <=> FinReached(s)
         /\ Delivered(s)' <=> Delivered(s)
         /\ \A f : FrameOK(s, f)' <=> FrameOK(s, f)
         /\ \A f : StreamFrameOK(s, f)' <=> StreamFrameOK(s, f)
         /\ \A a : AckOK(s, a)' <=> AckOK(s, a)
BY PeerFacts DEF Truth, FinReached, Delivered, FrameOK, StreamFrameOK, AckOK

LEMMA KeptFramesStable ==
  ASSUME KeptFramesOK, UNCHANGED Truth, UNCHANGED <<history, waiting, sending>>
  PROVE  KeptFramesOK'
BY StableFacts DEF KeptFramesOK

LEMMA WireFramesStable ==
  ASSUME WireFramesOK, UNCHANGED Truth, UNCHANGED wire
  PROVE  WireFramesOK'
BY StableFacts DEF WireFramesOK

LEMMA InboundFramesStable ==
  ASSUME InboundFramesOK, UNCHANGED Truth, UNCHANGED inbound
  PROVE  InboundFramesOK'
BY StableFacts, PeerFacts DEF InboundFramesOK

LEMMA KeptAcksStable ==
  ASSUME KeptAcksOK, UNCHANGED Truth, UNCHANGED <<latestAck, pendingAck, delivering>>
  PROVE  KeptAcksOK'
BY StableFacts DEF KeptAcksOK

LEMMA TakenAcksStable ==
  ASSUME TakenAcksOK, UNCHANGED Truth, UNCHANGED ackVars
  PROVE  TakenAcksOK'
BY StableFacts, PeerFacts DEF TakenAcksOK, Truth, ackVars

LEMMA ReceiverStable ==
  ASSUME ReceiverOK, UNCHANGED Truth, UNCHANGED <<held, delivering, remoteFIN>>
  PROVE  ReceiverOK'
BY StableFacts DEF ReceiverOK, Truth

\* A claim closes an open flow, once, with the outcome claimed.
LEMMA ClaimFacts ==
  ASSUME TypeFlow, NEW s \in Side, NEW cond \in BOOLEAN,
         NEW outcome \in {"nil", "err"}, ClaimIf(s, cond, outcome)
  PROVE  /\ closed' \in [Side -> {"open", "nil", "err"}]
         /\ \A t \in Side : \/ closed'[t] = closed[t]
                            \/ t = s /\ cond /\ closed'[t] = outcome
         /\ \A t \in Side : closed'[t] = "open" => closed[t] = "open"
BY DEF TypeFlow, ClaimIf, Claim

LEMMA HistoryStable ==
  ASSUME HistoryOK, UNCHANGED Truth, UNCHANGED history, UNCHANGED ackVars,
         \A t \in Side : closed'[t] = "open" => closed[t] = "open"
  PROVE  HistoryOK'
BY DEF HistoryOK, Truth, ackVars

\* When the exchange is complete, both directions are delivered.
LEMMA CompleteFacts ==
  ASSUME FlowInv, NEW s \in Side, NEW rFIN \in BOOLEAN, NEW ackFIN \in BOOLEAN,
         NEW deferred, NEW H,
         rFIN => FinReached(s),
         ackFIN => FinReached(Peer(s)),
         \A d \in deferred : AckOK(Peer(s), d),
         ExchangeComplete(localFIN[s], rFIN, ackFIN, deferred, H)
  PROVE  Delivered(s) /\ Delivered(Peer(s))
<1>1. localFIN[s] /\ FinReached(s) /\ FinReached(Peer(s))
  BY DEF ExchangeComplete, AckOK
<1> QED
  BY <1>1, PeerFacts DEF FlowInv, ReceiverOK, FinReached, Delivered

LEMMA GracefulStable ==
  ASSUME GracefulMeansDelivered, UNCHANGED Truth,
         \A t \in Side : \/ closed'[t] = closed[t]
                         \/ closed'[t] # "nil"
                         \/ Delivered(t) /\ Delivered(Peer(t))
  PROVE  GracefulMeansDelivered'
BY StableFacts, PeerFacts DEF GracefulMeansDelivered

-----------------------------------------------------------------------------
(* Updates of the variables indexed by side and carrier.                   *)

LEMMA Update2 ==
  ASSUME NEW X, NEW f \in [Side -> [Carrier -> X]], NEW s \in Side,
         NEW c \in Carrier, NEW v \in X
  PROVE  /\ [f EXCEPT ![s][c] = v] \in [Side -> [Carrier -> X]]
         /\ \A t \in Side, d \in Carrier :
              [f EXCEPT ![s][c] = v][t][d] = IF t = s /\ d = c THEN v ELSE f[t][d]
OBVIOUS

LEMMA TailFacts ==
  ASSUME NEW S, NEW q \in Seq(S), q # <<>>
  PROVE  /\ Tail(q) \in Seq(S) /\ Head(q) \in S /\ Head(q) = q[1]
         /\ 1 \in 1 .. Len(q)
         /\ \A i \in 1 .. Len(Tail(q)) : i + 1 \in 1 .. Len(q) /\ Tail(q)[i] = q[i + 1]
OBVIOUS

LEMMA PrefixFacts ==
  ASSUME NEW S, NEW q \in Seq(S), NEW k \in 0 .. Len(q)
  PROVE  /\ SubSeq(q, 1, k) \in Seq(S)
         /\ \A i \in 1 .. Len(SubSeq(q, 1, k)) :
              i \in 1 .. Len(q) /\ SubSeq(q, 1, k)[i] = q[i]
OBVIOUS

LEMMA AppendFacts ==
  ASSUME NEW S, NEW q \in Seq(S), NEW e \in S
  PROVE  /\ Append(q, e) \in Seq(S)
         /\ \A i \in 1 .. Len(Append(q, e)) :
              \/ i \in 1 .. Len(q) /\ Append(q, e)[i] = q[i]
              \/ Append(q, e)[i] = e
OBVIOUS

\* Replacing the contents of one connection by true frames.
LEMMA WireUpdate ==
  ASSUME TypeOK, WireFramesOK, UNCHANGED Truth, NEW t \in Side,
         NEW d \in Carrier, NEW v \in Seq(Frame),
         \A i \in 1 .. Len(v) : FrameOK(t, v[i]),
         wire' = [wire EXCEPT ![t][d] = v]
  PROVE  wire' \in [Side -> [Carrier -> Seq(Frame)]] /\ WireFramesOK'
<1>1. wire \in [Side -> [Carrier -> Seq(Frame)]]
  BY DEF TypeOK, TypeConn
<1>2. /\ wire' \in [Side -> [Carrier -> Seq(Frame)]]
      /\ \A u \in Side, e \in Carrier :
           wire'[u][e] = IF u = t /\ e = d THEN v ELSE wire[u][e]
  BY <1>1, Update2
<1>3. ASSUME NEW u \in Side, NEW e \in Carrier, NEW i \in 1 .. Len(wire'[u][e])
      PROVE  FrameOK(u, wire'[u][e][i])
  BY <1>2 DEF WireFramesOK
<1>4. \A u \in Side : \A f : FrameOK(u, f)' <=> FrameOK(u, f)
  BY StableFacts
<1> QED BY <1>2, <1>3, <1>4 DEF WireFramesOK

\* Receiving: the first frame is true, and the rest stays.
LEMMA ReceiveFacts ==
  ASSUME FlowInv, UNCHANGED Truth, NEW s \in Side, NEW c \in Carrier, NEW kind,
         Receive(s, c, kind)
  PROVE  /\ Incoming(s, c) \in Frame /\ FrameOK(Peer(s), Incoming(s, c))
         /\ Incoming(s, c).type \in kind
         /\ wire' \in [Side -> [Carrier -> Seq(Frame)]] /\ WireFramesOK'
<1> DEFINE q == wire[Peer(s)][c]
<1>1. Peer(s) \in Side /\ q \in Seq(Frame) /\ q # <<>>
  BY PeerFacts DEF FlowInv, TypeOK, TypeConn, Receive
<1>2. /\ Tail(q) \in Seq(Frame) /\ Head(q) \in Frame /\ Head(q) = q[1]
      /\ 1 \in 1 .. Len(q)
      /\ \A i \in 1 .. Len(Tail(q)) : i + 1 \in 1 .. Len(q) /\ Tail(q)[i] = q[i + 1]
  BY <1>1, TailFacts
<1>3. \A i \in 1 .. Len(q) : FrameOK(Peer(s), q[i])
  BY <1>1 DEF FlowInv, FramesOK, WireFramesOK
<1>4. wire' = [wire EXCEPT ![Peer(s)][c] = Tail(q)]
  BY DEF Receive
<1>5. wire' \in [Side -> [Carrier -> Seq(Frame)]] /\ WireFramesOK'
  BY <1>1, <1>2, <1>3, <1>4, WireUpdate DEF FlowInv, FramesOK
<1> QED BY <1>2, <1>3, <1>5 DEF Incoming, Receive

\* Cutting what the peer of s wrote on c to a prefix.
LEMMA CutFacts ==
  ASSUME FlowInv, UNCHANGED Truth, NEW t \in Side, NEW c \in Carrier,
         NEW k \in 0 .. Len(wire[t][c]),
         wire' = [wire EXCEPT ![t][c] = SubSeq(@, 1, k)]
  PROVE  wire' \in [Side -> [Carrier -> Seq(Frame)]] /\ WireFramesOK'
<1> DEFINE q == wire[t][c]
<1>1. q \in Seq(Frame)
  BY DEF FlowInv, TypeOK, TypeConn
<1>2. /\ SubSeq(q, 1, k) \in Seq(Frame)
      /\ \A i \in 1 .. Len(SubSeq(q, 1, k)) :
           i \in 1 .. Len(q) /\ SubSeq(q, 1, k)[i] = q[i]
  BY <1>1, PrefixFacts
<1>3. \A i \in 1 .. Len(SubSeq(q, 1, k)) : FrameOK(t, SubSeq(q, 1, k)[i])
  BY <1>2 DEF FlowInv, FramesOK, WireFramesOK
<1>4. wire' = [wire EXCEPT ![t][c] = SubSeq(q, 1, k)]
  OBVIOUS
<1> QED BY <1>2, <1>3, <1>4, WireUpdate DEF FlowInv, FramesOK

LEMMA TransmitFacts ==
  ASSUME FlowInv, UNCHANGED Truth, NEW s \in Side, NEW c \in Carrier,
         NEW f \in Frame, FrameOK(s, f), wire' = Transmit(s, c, f)
  PROVE  wire' \in [Side -> [Carrier -> Seq(Frame)]] /\ WireFramesOK'
<1> DEFINE q == wire[s][c]
<1>1. q \in Seq(Frame)
  BY DEF FlowInv, TypeOK, TypeConn
<1>2. CASE broken[c]
  BY <1>2, WireFramesStable DEF FlowInv, FramesOK, Transmit, TypeOK, TypeConn
<1>3. CASE ~broken[c]
  <2>1. wire' = [wire EXCEPT ![s][c] = Append(q, f)]
    BY <1>3 DEF Transmit
  <2>2. Append(q, f) \in Seq(Frame) /\
        \A i \in 1 .. Len(Append(q, f)) :
              \/ i \in 1 .. Len(q) /\ Append(q, f)[i] = q[i]
              \/ Append(q, f)[i] = f
    BY <1>1, AppendFacts
  <2>3. \A i \in 1 .. Len(Append(q, f)) : FrameOK(s, Append(q, f)[i])
    BY <2>2 DEF FlowInv, FramesOK, WireFramesOK
  <2> QED BY <2>1, <2>2, <2>3, WireUpdate DEF FlowInv, FramesOK
<1> QED BY <1>2, <1>3

\* New acknowledgements in carriers' slots are among those offered.
LEMMA EnqueueAcksFacts ==
  ASSUME FlowInv, UNCHANGED Truth, NEW s \in Side, NEW S,
         NEW acks \in SUBSET Frame, \A a \in acks : AckOK(s, a)
  PROVE  /\ EnqueueAcks(s, S, acks) \in [Side -> [Carrier -> SUBSET Frame]]
         /\ \A t \in Side, c \in Carrier :
              \A a \in EnqueueAcks(s, S, acks)[t][c] : AckOK(t, a)'
<1>1. /\ EnqueueAcks(s, S, acks) \in [Side -> [Carrier -> SUBSET Frame]]
      /\ \A t \in Side, c \in Carrier :
              EnqueueAcks(s, S, acks)[t][c] \subseteq
                pendingAck[t][c] \cup (IF t = s THEN acks ELSE {})
  BY EnqueueAcksType DEF FlowInv
<1>2. \A t \in Side, c \in Carrier : \A a \in pendingAck[t][c] : AckOK(t, a)
  BY DEF FlowInv, AcksOK, KeptAcksOK
<1>3. \A t \in Side : \A a : AckOK(t, a)' <=> AckOK(t, a)
  BY StableFacts
<1> QED BY <1>1, <1>2, <1>3

-----------------------------------------------------------------------------
(* One lemma per action: it preserves the invariant.                       *)

LEMMA InboundTypes ==
  ASSUME TypeOK, NEW t \in Side, NEW i \in 1 .. Len(inbound[t])
  PROVE  inbound[t][i].frame \in Frame /\ inbound[t][i].src \in Carrier
<1>1. inbound[t] \in Seq([src : Carrier, frame : Frame])
  BY DEF TypeOK, TypeRecv
<1>2. \A S : \A q \in Seq(S) : \A j \in 1 .. Len(q) : q[j] \in S
  OBVIOUS
<1>3. inbound[t][i] \in [src : Carrier, frame : Frame]
  BY <1>1, <1>2
<1> QED BY <1>3

LEMMA OpenInv ==
  ASSUME FlowInv, NEW c \in Carrier, AcceptOpen(c) \/ RefuseOpen(c)
  PROVE  FlowInv'
<1> USE DEF FlowInv, FramesOK, AcksOK
<1>1. /\ UNCHANGED <<flowVars, readVars, histVars, ackVars, writtenVars, recvVars,
                     remoteFINAckSent, carrierNext, hasWritten, sending,
                     pendingAck, connVars, failures>>
      /\ \/ status' = [status EXCEPT !["server"][c] = "opening"]
         \/ status' = [status EXCEPT !["server"][c] = "refused"]
  BY DEF AcceptOpen, RefuseOpen
<1>2. UNCHANGED Truth
  BY <1>1 DEF Truth, readVars, recvVars
<1>3. status' \in [Side -> [Carrier -> Status]]
  <2>1. /\ "server" \in Side /\ "opening" \in Status /\ "refused" \in Status
        /\ status \in [Side -> [Carrier -> Status]]
    BY DEF Side, Status, TypeOK, TypeCarrier
  <2>2. PICK s \in Side, v \in Status : status' = [status EXCEPT ![s][c] = v]
    BY <1>1, <2>1
  <2> QED BY <2>1, <2>2, Update2
<1>4. TypeOK'
  BY <1>1, <1>3 DEF TypeOK, TypeFlow, TypeRead, TypeHist, TypeAck, TypeWritten,
     TypeRecv, TypeCarrier, TypeConn,
     flowVars, readVars, histVars, ackVars, writtenVars, recvVars, connVars
<1>5. FramesOK'
  BY <1>1, <1>2, KeptFramesStable, WireFramesStable, InboundFramesStable
     DEF readVars, histVars, recvVars, connVars
<1>6. AcksOK' /\ ReceiverOK'
  BY <1>1, <1>2, KeptAcksStable, TakenAcksStable, ReceiverStable DEF recvVars
<1>7. HistoryOK' /\ GracefulMeansDelivered'
  BY <1>1, <1>2, HistoryStable, GracefulStable DEF flowVars, histVars
<1> QED BY <1>4, <1>5, <1>6, <1>7

LEMMA AttachInv ==
  ASSUME FlowInv, NEW s \in Side, NEW c \in Carrier, Attach(s, c)
  PROVE  FlowInv'
<1> USE DEF FlowInv, FramesOK, AcksOK
<1>1. /\ UNCHANGED <<flowVars, readVars, histVars, ackVars, writtenVars, recvVars,
                     remoteFINAckSent, hasWritten, sending, connVars, failures>>
      /\ status' = [status EXCEPT ![s][c] = "up"]
      /\ pendingAck' = [pendingAck EXCEPT ![s][c] = latestAck[s]]
  BY DEF Attach
<1>2. PICK q \in ReplayStart(s) : carrierNext' = [carrierNext EXCEPT ![s][c] = q]
  BY DEF Attach
<1>. q \in Nat
  BY DEF ReplayStart, TypeOK, TypeHist, TypeRead, Entry
<1>3. UNCHANGED Truth
  BY <1>1 DEF Truth, readVars, recvVars
<1>4. status' \in [Side -> [Carrier -> Status]] /\ carrierNext' \in [Side -> [Carrier -> Nat]]
  BY <1>1, <1>2, Update2 DEF TypeOK, TypeCarrier, Status
<1>5. /\ pendingAck' \in [Side -> [Carrier -> SUBSET Frame]]
      /\ \A t \in Side, d \in Carrier :
           pendingAck'[t][d] = IF t = s /\ d = c THEN latestAck[s] ELSE pendingAck[t][d]
  BY <1>1, Update2 DEF TypeOK, TypeRecv
<1>6. TypeOK'
  BY <1>1, <1>4, <1>5 DEF TypeOK, TypeFlow, TypeRead, TypeHist, TypeAck, TypeWritten,
     TypeRecv, TypeCarrier, TypeConn,
     flowVars, readVars, histVars, ackVars, writtenVars, recvVars, connVars
<1>7. FramesOK'
  BY <1>1, <1>3, KeptFramesStable, WireFramesStable, InboundFramesStable
     DEF readVars, histVars, recvVars, connVars
<1>8. KeptAcksOK'
  BY <1>1, <1>3, <1>5, StableFacts DEF KeptAcksOK, recvVars
<1>9. TakenAcksOK' /\ ReceiverOK'
  BY <1>1, <1>3, TakenAcksStable, ReceiverStable DEF recvVars
<1>10. HistoryOK' /\ GracefulMeansDelivered'
  BY <1>1, <1>3, HistoryStable, GracefulStable DEF flowVars, histVars
<1> QED BY <1>6, <1>7, <1>8, <1>9, <1>10

LEMMA AttachRejectedInv ==
  ASSUME FlowInv, NEW s \in Side, NEW c \in Carrier, AttachRejected(s, c)
  PROVE  FlowInv'
<1> USE DEF FlowInv, FramesOK, AcksOK
<1>1. /\ UNCHANGED <<flowVars, readVars, histVars, ackVars, writtenVars, recvVars,
                     remoteFINAckSent, carrierNext, hasWritten, sending, pendingAck, failures>>
      /\ status' = [status EXCEPT ![s][c] = "gone"]
      /\ broken' = [broken EXCEPT ![c] = TRUE]
      /\ wire' = [wire EXCEPT ![Peer(s)][c] = <<>>]
  BY DEF AttachRejected
<1>2. UNCHANGED Truth
  BY <1>1 DEF Truth, readVars, recvVars
<1>3. wire' \in [Side -> [Carrier -> Seq(Frame)]] /\ WireFramesOK'
  <2>1. <<>> \in Seq(Frame) /\ Len(<<>>) = 0 /\ Peer(s) \in Side
    BY PeerFacts
  <2>2. \A i \in 1 .. 0 : FALSE
    OBVIOUS
  <2> QED BY <1>1, <1>2, <2>1, <2>2, WireUpdate
<1>4. status' \in [Side -> [Carrier -> Status]]
  BY <1>1, Update2 DEF TypeOK, TypeCarrier, Status
<1>5. TypeOK'
  BY <1>1, <1>3, <1>4 DEF TypeOK, TypeFlow, TypeRead, TypeHist, TypeAck, TypeWritten,
     TypeRecv, TypeCarrier, TypeConn,
     flowVars, readVars, histVars, ackVars, writtenVars, recvVars
<1>6. FramesOK'
  BY <1>1, <1>2, <1>3, KeptFramesStable, InboundFramesStable
     DEF readVars, histVars, recvVars
<1>7. AcksOK' /\ ReceiverOK'
  BY <1>1, <1>2, KeptAcksStable, TakenAcksStable, ReceiverStable DEF recvVars
<1>8. HistoryOK' /\ GracefulMeansDelivered'
  BY <1>1, <1>2, HistoryStable, GracefulStable DEF flowVars, histVars
<1> QED BY <1>5, <1>6, <1>7, <1>8

\* A step that only claims a reset, or lets broadcast return.
LEMMA ClaimStep ==
  ASSUME FlowInv, NEW s \in Side, NEW cond \in BOOLEAN, NEW outcome \in {"nil", "err"},
         ClaimIf(s, cond, outcome),
         outcome = "nil" /\ cond => Delivered(s) /\ Delivered(Peer(s)),
         UNCHANGED <<offset, read, localFIN, nextSequence, histVars, ackVars, writtenVars,
                     recvVars, remoteFINAckSent, carrierVars, pendingAck, broken>>,
         wire' \in [Side -> [Carrier -> Seq(Frame)]], WireFramesOK',
         started' \in [Side -> BOOLEAN], done' \in [Side -> BOOLEAN], failures' \in Nat,
         \/ UNCHANGED waiting
         \/ waiting' = [waiting EXCEPT ![s] = {}]
  PROVE  FlowInv'
<1> USE DEF FlowInv, FramesOK, AcksOK
<1>1. UNCHANGED Truth
  BY DEF Truth, recvVars
<1>2. /\ closed' \in [Side -> {"open", "nil", "err"}]
      /\ \A t \in Side : \/ closed'[t] = closed[t]
                         \/ t = s /\ cond /\ closed'[t] = outcome
      /\ \A t \in Side : closed'[t] = "open" => closed[t] = "open"
  BY ClaimFacts DEF TypeOK
<1>3. /\ waiting' \in [Side -> SUBSET Entry]
      /\ \A t \in Side : waiting'[t] \subseteq waiting[t]
  BY DEF TypeOK, TypeRead
<1>4. TypeOK'
  BY <1>2, <1>3 DEF TypeOK, TypeFlow, TypeRead, TypeHist, TypeAck, TypeWritten,
     TypeRecv, TypeCarrier, TypeConn, histVars, ackVars, writtenVars, recvVars, carrierVars
<1>5. KeptFramesOK'
  BY <1>1, <1>3, StableFacts DEF KeptFramesOK, histVars, carrierVars
<1>6. InboundFramesOK' /\ KeptAcksOK' /\ TakenAcksOK' /\ ReceiverOK'
  BY <1>1, InboundFramesStable, KeptAcksStable, TakenAcksStable, ReceiverStable DEF recvVars
<1>7. HistoryOK'
  BY <1>1, <1>2, HistoryStable DEF histVars
<1>8. GracefulMeansDelivered'
  BY <1>1, <1>2, GracefulStable
<1> QED BY <1>4, <1>5, <1>6, <1>7, <1>8

LEMMA StartInv ==
  ASSUME FlowInv, NEW s \in Side, Start(s)
  PROVE  FlowInv'
<1>1. wire' \in [Side -> [Carrier -> Seq(Frame)]] /\ WireFramesOK'
  BY WireFramesStable DEF Start, Truth, readVars, recvVars, connVars, FlowInv,
     FramesOK, TypeOK, TypeConn
<1>2. started' \in [Side -> BOOLEAN] /\ done' \in [Side -> BOOLEAN] /\ failures' \in Nat
  BY DEF Start, FlowInv, TypeOK, TypeFlow
<1> QED
  BY <1>1, <1>2, ClaimStep DEF Start, readVars, connVars

\* The completeness check and the outcome of a reset for want of carriers
\* tell the truth.
LEMMA NoCarriersFacts ==
  ASSUME FlowInv, NEW s \in Side
  PROVE  /\ ExchangeComplete(localFIN[s], remoteFIN[s], globalAckFIN[s],
                             deferredAck[s], history[s])
              => Delivered(s) /\ Delivered(Peer(s))
         /\ NoCarriersOutcome(s) \in {"nil", "err"}
         /\ NoCarriersOutcome(s) = "nil" => Delivered(s) /\ Delivered(Peer(s))
<1>1. /\ remoteFIN[s] \in BOOLEAN /\ globalAckFIN[s] \in BOOLEAN
      /\ remoteFIN[s] => FinReached(s)
      /\ globalAckFIN[s] => FinReached(Peer(s))
      /\ \A d \in deferredAck[s] : AckOK(Peer(s), d)
  BY DEF FlowInv, TypeOK, TypeRecv, TypeAck, ReceiverOK, AcksOK, TakenAcksOK
<1>2. ExchangeComplete(localFIN[s], remoteFIN[s], globalAckFIN[s],
                       deferredAck[s], history[s])
        => Delivered(s) /\ Delivered(Peer(s))
  BY <1>1, CompleteFacts
<1> QED BY <1>2 DEF NoCarriersOutcome

LEMMA BroadcastReturnsInv ==
  ASSUME FlowInv, NEW s \in Side, BroadcastReturns(s)
  PROVE  FlowInv'
<1>1. wire' \in [Side -> [Carrier -> Seq(Frame)]] /\ WireFramesOK'
  BY WireFramesStable DEF BroadcastReturns, Truth, recvVars, connVars, FlowInv,
     FramesOK, TypeOK, TypeConn
<1>2. started' \in [Side -> BOOLEAN] /\ done' \in [Side -> BOOLEAN] /\ failures' \in Nat
  BY DEF BroadcastReturns, FlowInv, TypeOK, TypeFlow
<1>3. PICK cond \in BOOLEAN :
        /\ ClaimIf(s, cond, "nil")
        /\ cond => ExchangeComplete(localFIN[s], remoteFIN[s], globalAckFIN[s],
                                    deferredAck[s], history[s])
  BY DEF BroadcastReturns, Complete
<1>4. cond => Delivered(s) /\ Delivered(Peer(s))
  BY <1>3, NoCarriersFacts
<1> QED
  BY <1>1, <1>2, <1>3, <1>4, ClaimStep DEF BroadcastReturns, connVars

LEMMA BroadcastNoCarriersInv ==
  ASSUME FlowInv, NEW s \in Side, BroadcastNoCarriers(s)
  PROVE  FlowInv'
<1>1. wire' \in [Side -> [Carrier -> Seq(Frame)]] /\ WireFramesOK'
  BY WireFramesStable DEF BroadcastNoCarriers, Truth, readVars, recvVars, connVars,
     FlowInv, FramesOK, TypeOK, TypeConn
<1>2. started' \in [Side -> BOOLEAN] /\ done' \in [Side -> BOOLEAN] /\ failures' \in Nat
  BY DEF BroadcastNoCarriers, FlowInv, TypeOK, TypeFlow
<1>3. PICK outcome \in {"nil", "err"} :
        /\ ClaimIf(s, TRUE, outcome)
        /\ outcome = "nil" => Delivered(s) /\ Delivered(Peer(s))
  BY NoCarriersFacts DEF BroadcastNoCarriers, ClaimIf
<1> QED
  BY <1>1, <1>2, <1>3, ClaimStep DEF BroadcastNoCarriers, readVars, connVars

LEMMA ResetFlowInv ==
  ASSUME FlowInv, NEW s \in Side, ResetFlow(s)
  PROVE  FlowInv'
<1>1. wire' \in [Side -> [Carrier -> Seq(Frame)]] /\ WireFramesOK'
  BY WireFramesStable DEF ResetFlow, Truth, readVars, recvVars, connVars,
     FlowInv, FramesOK, TypeOK, TypeConn
<1>2. started' \in [Side -> BOOLEAN] /\ done' \in [Side -> BOOLEAN] /\ failures' \in Nat
  BY DEF ResetFlow, FlowInv, TypeOK, TypeFlow
<1>3. ClaimIf(s, TRUE, "err")
  BY DEF ResetFlow, ClaimIf
<1> QED
  BY <1>1, <1>2, <1>3, ClaimStep DEF ResetFlow, readVars, connVars

LEMMA ReceiveRSTInv ==
  ASSUME FlowInv, NEW s \in Side, NEW c \in Carrier, ReceiveRST(s, c)
  PROVE  FlowInv'
<1>1. wire' \in [Side -> [Carrier -> Seq(Frame)]] /\ WireFramesOK'
  BY ReceiveFacts DEF ReceiveRST, Truth, readVars, recvVars
<1>2. started' \in [Side -> BOOLEAN] /\ done' \in [Side -> BOOLEAN] /\ failures' \in Nat
  BY DEF ReceiveRST, FlowInv, TypeOK, TypeFlow
<1>3. ClaimIf(s, TRUE, "err")
  BY DEF ReceiveRST, ClaimIf
<1> QED
  BY <1>1, <1>2, <1>3, ClaimStep DEF ReceiveRST, readVars

\* Stream frames stay true, and new history entries of s are true.
LEMMA FramesGrow ==
  ASSUME TypeOK, FramesOK, NEW s \in Side, NEW entry \in Entry,
         \A t \in Side, g \in Frame : /\ FrameOK(t, g) => FrameOK(t, g)'
                                      /\ StreamFrameOK(t, g) => StreamFrameOK(t, g)',
         StreamFrameOK(s, entry.frame)',
         \A t \in Side : history'[t] \subseteq
                           history[t] \cup (IF t = s THEN {entry} ELSE {}),
         \A t \in Side : waiting'[t] \subseteq
                           waiting[t] \cup (IF t = s THEN {entry} ELSE {}),
         UNCHANGED <<sending, wire, inbound>>
  PROVE  FramesOK'
<1> USE DEF FramesOK
<1>1. \A t \in Side : \A h \in history'[t] : StreamFrameOK(t, h.frame)'
  <2>1. \A t \in Side : \A h \in history[t] :
          h.frame \in Frame /\ StreamFrameOK(t, h.frame)
    BY DEF KeptFramesOK, TypeOK, TypeHist, Entry
  <2> QED BY <2>1
<1>2. \A t \in Side : \A w \in waiting'[t] : StreamFrameOK(t, w.frame)'
  <2>1. \A t \in Side : \A w \in waiting[t] :
          w.frame \in Frame /\ StreamFrameOK(t, w.frame)
    BY DEF KeptFramesOK, TypeOK, TypeRead, Entry
  <2> QED BY <2>1
<1>3. \A t \in Side, c \in Carrier : \A x \in sending'[t][c] : StreamFrameOK(t, x.frame)'
  BY DEF KeptFramesOK, StreamFrameOK, TypeOK, TypeCarrier, InFlight
<1>4. KeptFramesOK'
  BY <1>1, <1>2, <1>3 DEF KeptFramesOK
<1>5. WireFramesOK'
  BY DEF WireFramesOK, TypeOK, TypeConn
<1>6. InboundFramesOK'
  BY InboundTypes, PeerFacts DEF InboundFramesOK
<1> QED BY <1>4, <1>5, <1>6

\* readEndpoint holds what it read in its hands: nothing else changes.
LEMMA ReadDataInv ==
  ASSUME FlowInv, NEW s \in Side, ReadData(s)
  PROVE  FlowInv'
<1> USE DEF FlowInv, FramesOK, AcksOK
<1>1. UNCHANGED <<flowVars, offset, localFIN, waiting, nextSequence, histVars,
                  ackVars, writtenVars, recvVars, remoteFINAckSent,
                  carrierVars, pendingAck, connVars, failures>>
  BY DEF ReadData
<1>2. PICK n \in 1 .. ChunkSize :
        offset[s] + n <= Total[s] /\ read' = [read EXCEPT ![s] = n]
  BY DEF ReadData
<1>3. UNCHANGED Truth
  BY <1>1 DEF Truth, recvVars
<1>4. TypeRead'
  BY <1>1, <1>2, ConstantsAssumption DEF TypeOK, TypeRead
<1>5. TypeOK'
  BY <1>1, <1>4 DEF TypeOK, TypeFlow, TypeHist, TypeAck, TypeWritten,
     TypeRecv, TypeCarrier, TypeConn, flowVars, histVars, ackVars,
     writtenVars, recvVars, carrierVars, connVars
<1>6. FramesOK'
  <2>1. KeptFramesOK'
    BY <1>1, <1>3, StableFacts DEF KeptFramesOK, histVars, carrierVars
  <2> QED
    BY <1>1, <1>3, <2>1, WireFramesStable, InboundFramesStable
       DEF recvVars, connVars
<1>7. AcksOK' /\ ReceiverOK'
  BY <1>1, <1>3, KeptAcksStable, TakenAcksStable, ReceiverStable DEF recvVars
<1>8. HistoryOK' /\ GracefulMeansDelivered'
  BY <1>1, <1>3, HistoryStable, GracefulStable DEF flowVars, histVars
<1> QED BY <1>5, <1>6, <1>7, <1>8

\* remember: the new frame is true, older ones stay true.
LEMMA RememberDataInv ==
  ASSUME FlowInv, NEW s \in Side, RememberData(s)
  PROVE  FlowInv'
<1> DEFINE n == read[s]
<1> USE DEF FlowInv, AcksOK
<1>1. UNCHANGED <<flowVars, localFIN, ackVars, writtenVars, recvVars,
                  remoteFINAckSent, carrierVars, pendingAck, connVars, failures>>
  BY DEF RememberData
<1>2. /\ Remember(s, DataFrame(offset[s], offset[s] + n))
      /\ offset' = [offset EXCEPT ![s] = @ + n]
      /\ read' = [read EXCEPT ![s] = 0]
  BY DEF RememberData
<1>3. /\ n \in Nat /\ n > 0 /\ offset[s] \in Nat /\ Total[s] \in Nat
      /\ offset[s] + n <= Total[s]
  BY ConstantsAssumption DEF RememberData, TypeOK, TypeRead
<1> HIDE DEF n
<1>. PICK f \in Frame : f = DataFrame(offset[s], offset[s] + n)
  BY <1>3, FrameTypes
<1>. PICK entry \in Entry : entry = [seq |-> nextSequence[s], frame |-> f]
  BY DEF Entry, TypeOK, TypeRead
<1>4. /\ f.type = "DATA" /\ f.off = offset[s] /\ f.end = offset[s] + n
      /\ entry.frame = f
  BY DEF DataFrame
<1>5. /\ history' = [history EXCEPT ![s] = @ \cup {entry}]
      /\ historyBytes' = [historyBytes EXCEPT ![s] = @ + (f.end - f.off)]
      /\ nextSequence' = [nextSequence EXCEPT ![s] = @ + 1]
      /\ waiting' = [waiting EXCEPT ![s] = {entry}]
  BY <1>2 DEF Remember
<1>6. TypeOK'
  <2>1. TypeRead'
    BY <1>1, <1>2, <1>3, <1>4, <1>5 DEF TypeOK, TypeRead
  <2>2. TypeHist'
    BY <1>3, <1>4, <1>5 DEF TypeOK, TypeHist
  <2> QED
    BY <1>1, <2>1, <2>2 DEF TypeOK, TypeFlow, TypeAck, TypeWritten, TypeRecv,
       TypeCarrier, TypeConn, flowVars, ackVars, writtenVars, recvVars, carrierVars, connVars
<1>7. ~localFIN[s] /\ offset'[s] = offset[s] + n /\ offset'[Peer(s)] = offset[Peer(s)]
  BY <1>2, <1>3, PeerFacts DEF ReceiverOK, TypeOK, TypeRead
<1>8. UNCHANGED <<localFIN, nextOffset, finOffset, held, remoteFIN, delivering>>
  BY <1>1 DEF recvVars
<1>9. /\ \A t \in Side : \A a : AckOK(t, a)' <=> AckOK(t, a)
      /\ \A t \in Side : FinReached(t)' <=> FinReached(t)
  BY <1>8 DEF AckOK, FinReached
<1>10. \A t \in Side, g \in Frame : /\ FrameOK(t, g) => FrameOK(t, g)'
                                    /\ StreamFrameOK(t, g) => StreamFrameOK(t, g)'
  <2> SUFFICES ASSUME NEW t \in Side, NEW g \in Frame, FrameOK(t, g)
               PROVE  FrameOK(t, g)'
    BY DEF StreamFrameOK
  <2>1. CASE t = s
    BY <1>3, <1>7, <1>8, <1>9, <2>1 DEF FrameOK, Frame
  <2>2. CASE t = Peer(s)
    BY <1>7, <1>8, <1>9, <2>2 DEF FrameOK
  <2> QED BY <2>1, <2>2, PeerFacts
<1>11. FramesOK'
  <2>1. StreamFrameOK(s, entry.frame)'
    BY <1>3, <1>4, <1>7 DEF StreamFrameOK, FrameOK
  <2>2. \A t \in Side :
          /\ history'[t] \subseteq history[t] \cup (IF t = s THEN {entry} ELSE {})
          /\ waiting'[t] \subseteq waiting[t] \cup (IF t = s THEN {entry} ELSE {})
    BY <1>5 DEF TypeOK, TypeHist, TypeRead
  <2>3. UNCHANGED <<sending, wire, inbound>>
    BY <1>1 DEF carrierVars, connVars, recvVars
  <2> QED BY <1>10, <2>1, <2>2, <2>3, FramesGrow
<1>12. AcksOK'
  BY <1>1, <1>8, <1>9, PeerFacts DEF KeptAcksOK, TakenAcksOK, recvVars, ackVars
<1>13. ReceiverOK'
  <2> SUFFICES ASSUME NEW t \in Side
               PROVE  /\ nextOffset[t] <= offset'[Peer(t)]
                      /\ \A b \in held[t] : b < offset'[Peer(t)]
                      /\ \A o \in finOffset[t] : localFIN[Peer(t)] /\ o = offset'[Peer(t)]
                      /\ localFIN[t] => offset'[t] = Total[t]
                      /\ remoteFIN[t] => FinReached(t)'
                      /\ \A d \in delivering[t] : d.finished => FinReached(t)'
    BY <1>8 DEF ReceiverOK
  <2>1. CASE t = s
    BY <1>7, <1>9, <2>1 DEF ReceiverOK
  <2>2. CASE t = Peer(s)
    BY <1>3, <1>7, <1>9, <2>2, PeerFacts DEF ReceiverOK, TypeOK, TypeRecv
  <2> QED BY <2>1, <2>2, PeerFacts
<1>14. HistoryOK'
  <2> SUFFICES ASSUME NEW t \in Side
               PROVE  /\ \A b \in 0 .. (offset'[t] - 1) : globalAckOffset'[t] <= b =>
                           \E h \in history'[t] : h.frame.off <= b /\ b < h.frame.end
                      /\ localFIN[t] /\ closed[t] = "open" /\ ~globalAckFIN[t] =>
                           \E h \in history'[t] : h.frame.type = "FIN"
    BY <1>1 DEF HistoryOK, flowVars, ackVars
  <2>1. CASE t = s
    <3>1. history'[s] = history[s] \cup {entry}
      BY <1>5 DEF TypeOK, TypeHist
    <3>2. ASSUME NEW b \in 0 .. (offset'[s] - 1), globalAckOffset[s] <= b
          PROVE  \E h \in history'[s] : h.frame.off <= b /\ b < h.frame.end
      <4>1. CASE b < offset[s]
        BY <1>3, <3>1, <3>2, <4>1 DEF HistoryOK
      <4>2. CASE b >= offset[s]
        <5>1. entry.frame.off <= b /\ b < entry.frame.end
          BY <1>3, <1>4, <1>7, <3>2, <4>2
        <5> QED BY <3>1, <5>1
      <4> QED BY <1>3, <3>2, <4>1, <4>2
    <3> QED BY <1>1, <1>7, <2>1, <3>2 DEF ackVars
  <2>2. CASE t # s
    BY <1>1, <1>2, <1>5, <2>2 DEF HistoryOK, ackVars, TypeOK, TypeHist, TypeRead
  <2> QED BY <2>1, <2>2
<1>15. GracefulMeansDelivered'
  BY <1>1, <1>7, <1>8, PeerFacts DEF GracefulMeansDelivered, Delivered, flowVars
<1> QED BY <1>6, <1>11, <1>12, <1>13, <1>14, <1>15

\* The endpoint of s may reach its EOF: every true statement stays true.
LEMMA LocalFINFacts ==
  ASSUME FlowInv, NEW s \in Side, NEW v \in BOOLEAN, localFIN[s] => v,
         v => offset[s] = Total[s],
         localFIN' = [localFIN EXCEPT ![s] = v],
         UNCHANGED <<offset, recvVars>>
  PROVE  /\ localFIN' \in [Side -> BOOLEAN]
         /\ \A t \in Side : localFIN[t] => localFIN'[t]
         /\ \A t \in Side : \A f : /\ FrameOK(t, f) => FrameOK(t, f)'
                                   /\ StreamFrameOK(t, f) => StreamFrameOK(t, f)'
         /\ \A t \in Side : \A a : AckOK(t, a)' <=> AckOK(t, a)
         /\ ReceiverOK'
         /\ \A t \in Side : Delivered(t) => Delivered(t)'
<1> USE DEF FlowInv
<1>1. /\ localFIN' \in [Side -> BOOLEAN]
      /\ \A t \in Side : localFIN[t] => localFIN'[t]
      /\ \A t \in Side : localFIN'[t] => localFIN[t] \/ offset[t] = Total[t]
  BY DEF TypeOK, TypeRead
<1>2. UNCHANGED <<offset, nextOffset, held, finOffset, delivering, remoteFIN>>
  BY DEF recvVars
<1>3. /\ \A t \in Side : \A a : AckOK(t, a)' <=> AckOK(t, a)
      /\ \A t \in Side : FinReached(t)' <=> FinReached(t)
  BY <1>2 DEF AckOK, FinReached
<1>4. \A t \in Side : \A f : /\ FrameOK(t, f) => FrameOK(t, f)'
                             /\ StreamFrameOK(t, f) => StreamFrameOK(t, f)'
  BY <1>1, <1>2, <1>3 DEF FrameOK, StreamFrameOK
<1>5. ReceiverOK'
  BY <1>1, <1>2, <1>3, PeerFacts DEF ReceiverOK
<1>6. \A t \in Side : Delivered(t) => Delivered(t)'
  BY <1>1, <1>2 DEF Delivered
<1> QED BY <1>1, <1>3, <1>4, <1>5, <1>6

LEMMA ReadEOFInv ==
  ASSUME FlowInv, NEW s \in Side, ReadEOF(s)
  PROVE  FlowInv'
<1> USE DEF FlowInv, AcksOK
<1>1. /\ UNCHANGED <<flowVars, offset, read, ackVars, writtenVars, recvVars,
                     remoteFINAckSent, carrierVars, pendingAck, connVars, failures>>
      /\ ~localFIN[s] /\ offset[s] = Total[s] /\ offset[s] \in Nat
      /\ localFIN' = [localFIN EXCEPT ![s] = TRUE]
  BY DEF ReadEOF, AtEOF, TypeOK, TypeRead
<1>. PICK f \in Frame : f = FinFrame(offset[s])
  BY <1>1, FrameTypes
<1>. PICK entry \in Entry : entry = [seq |-> nextSequence[s], frame |-> f]
  BY DEF Entry, TypeOK, TypeRead
<1>2. /\ f.type = "FIN" /\ f.off = offset[s] /\ f.end = offset[s]
      /\ entry.frame = f
  BY DEF FinFrame
<1>3. /\ history' = [history EXCEPT ![s] = @ \cup {entry}]
      /\ historyBytes' = [historyBytes EXCEPT ![s] = @ + (f.end - f.off)]
      /\ nextSequence' = [nextSequence EXCEPT ![s] = @ + 1]
      /\ waiting' = [waiting EXCEPT ![s] = {entry}]
  BY DEF ReadEOF, Remember
<1>4. /\ localFIN' \in [Side -> BOOLEAN]
      /\ \A t \in Side : \A g : /\ FrameOK(t, g) => FrameOK(t, g)'
                                /\ StreamFrameOK(t, g) => StreamFrameOK(t, g)'
      /\ \A t \in Side : \A a : AckOK(t, a)' <=> AckOK(t, a)
      /\ ReceiverOK'
      /\ \A t \in Side : Delivered(t) => Delivered(t)'
  BY <1>1, LocalFINFacts
<1>5. TypeOK'
  <2>1. TypeRead'
    BY <1>1, <1>3, <1>4 DEF TypeOK, TypeRead
  <2>2. TypeHist'
    BY <1>1, <1>2, <1>3 DEF TypeOK, TypeHist
  <2> QED
    BY <1>1, <2>1, <2>2 DEF TypeOK, TypeFlow, TypeAck, TypeWritten, TypeRecv,
       TypeCarrier, TypeConn, flowVars, ackVars, writtenVars, recvVars, carrierVars, connVars
<1>6. FramesOK'
  <2>1. StreamFrameOK(s, entry.frame)'
    BY <1>1, <1>2 DEF StreamFrameOK, FrameOK, TypeOK, TypeRead
  <2>2. \A t \in Side :
          /\ history'[t] \subseteq history[t] \cup (IF t = s THEN {entry} ELSE {})
          /\ waiting'[t] \subseteq waiting[t] \cup (IF t = s THEN {entry} ELSE {})
    BY <1>3 DEF TypeOK, TypeHist, TypeRead
  <2>3. UNCHANGED <<sending, wire, inbound>>
    BY <1>1 DEF carrierVars, connVars, recvVars
  <2> QED BY <1>4, <2>1, <2>2, <2>3, FramesGrow
<1>7. AcksOK'
  <2>1. \A t \in Side : FinReached(t)' <=> FinReached(t)
    BY <1>1 DEF FinReached, recvVars
  <2> QED BY <1>1, <1>4, <2>1, PeerFacts DEF KeptAcksOK, TakenAcksOK, recvVars, ackVars
<1>8. HistoryOK'
  <2>1. \A t \in Side : history[t] \subseteq history'[t]
    BY <1>3 DEF TypeOK, TypeHist
  <2>2. entry \in history'[s]
    BY <1>3 DEF TypeOK, TypeHist
  <2>3. \A t \in Side : t # s => localFIN'[t] = localFIN[t]
    BY <1>1 DEF TypeOK, TypeRead
  <2>4. UNCHANGED <<offset, closed, globalAckOffset, globalAckFIN>>
    BY <1>1 DEF flowVars, ackVars
  <2> QED BY <1>2, <2>1, <2>2, <2>3, <2>4 DEF HistoryOK
<1>9. GracefulMeansDelivered'
  BY <1>1, <1>4, PeerFacts DEF GracefulMeansDelivered, flowVars
<1> QED BY <1>4, <1>5, <1>6, <1>7, <1>8, <1>9

LEMMA ReadNoCarriersInv ==
  ASSUME FlowInv, NEW s \in Side, ReadNoCarriers(s)
  PROVE  FlowInv'
<1> USE DEF FlowInv, AcksOK, FramesOK
<1>1. /\ UNCHANGED <<started, done, offset, read, waiting, nextSequence, histVars,
                     ackVars, writtenVars, recvVars, remoteFINAckSent,
                     carrierVars, pendingAck, connVars, failures>>
      /\ closed[s] = "open"
      /\ ClaimIf(s, TRUE, "err")
  BY DEF ReadNoCarriers, Reading, ClaimIf
<1>10. PICK v \in BOOLEAN : /\ localFIN' = [localFIN EXCEPT ![s] = v]
                            /\ localFIN[s] => v
                            /\ v => offset[s] = Total[s]
  <2> DEFINE v == localFIN[s] \/ AtEOF(s)
  <2>1. localFIN' = [localFIN EXCEPT ![s] = v]
    BY DEF ReadNoCarriers
  <2>2. v => offset[s] = Total[s]
    BY DEF AtEOF, ReceiverOK
  <2>3. v \in BOOLEAN
    BY DEF AtEOF, TypeOK, TypeRead
  <2> QED BY <2>1, <2>2, <2>3
<1>2. /\ localFIN' \in [Side -> BOOLEAN]
      /\ \A t \in Side : \A g : /\ FrameOK(t, g) => FrameOK(t, g)'
                                /\ StreamFrameOK(t, g) => StreamFrameOK(t, g)'
      /\ \A t \in Side : \A a : AckOK(t, a)' <=> AckOK(t, a)
      /\ ReceiverOK'
      /\ \A t \in Side : Delivered(t) => Delivered(t)'
  BY <1>1, <1>10, LocalFINFacts
<1>3. /\ closed' \in [Side -> {"open", "nil", "err"}]
      /\ closed'[s] = "err"
      /\ \A t \in Side : t # s => closed'[t] = closed[t]
  BY <1>1 DEF TypeOK, TypeFlow, ClaimIf, Claim
<1>4. TypeOK'
  BY <1>1, <1>2, <1>3 DEF TypeOK, TypeFlow, TypeRead, TypeHist, TypeAck, TypeWritten,
     TypeRecv, TypeCarrier, TypeConn, histVars, ackVars, writtenVars, recvVars,
     carrierVars, connVars
<1>5. KeptFramesOK'
  BY <1>1, <1>2 DEF KeptFramesOK, histVars, carrierVars
<1>6. WireFramesOK' /\ InboundFramesOK'
  BY <1>1, <1>2, PeerFacts DEF WireFramesOK, InboundFramesOK, connVars, recvVars
<1>7. AcksOK'
  <2>1. \A t \in Side : FinReached(t)' <=> FinReached(t)
    BY <1>1 DEF FinReached, recvVars
  <2> QED BY <1>1, <1>2, <2>1, PeerFacts DEF KeptAcksOK, TakenAcksOK, recvVars, ackVars
<1>8. HistoryOK'
  <2>1. \A t \in Side : t # s => localFIN'[t] = localFIN[t]
    BY <1>10 DEF TypeOK, TypeRead
  <2> QED BY <1>1, <1>3, <2>1 DEF HistoryOK, histVars, ackVars
<1>9. GracefulMeansDelivered'
  BY <1>2, <1>3, PeerFacts DEF GracefulMeansDelivered
<1> QED BY <1>2, <1>4, <1>5, <1>6, <1>7, <1>8, <1>9

\* sendCarrier and writeLoop: a frame in flight is one of the history.
LEMMA SendingStep ==
  ASSUME FlowInv, NEW s \in Side, NEW c \in Carrier, NEW x \in InFlight,
         StreamFrameOK(s, x.frame),
         sending' = [sending EXCEPT ![s][c] = {x}],
         UNCHANGED <<flowVars, readVars, histVars, ackVars, writtenVars, recvVars,
                     remoteFINAckSent, status, carrierNext, hasWritten, pendingAck,
                     broken, failures>>,
         wire' \in [Side -> [Carrier -> Seq(Frame)]], WireFramesOK'
  PROVE  FlowInv'
<1> USE DEF FlowInv, FramesOK, AcksOK
<1>1. UNCHANGED Truth
  BY DEF Truth, readVars, recvVars
<1>2. /\ sending' \in [Side -> [Carrier -> SUBSET InFlight]]
      /\ \A t \in Side, d \in Carrier :
           sending'[t][d] = IF t = s /\ d = c THEN {x} ELSE sending[t][d]
  BY Update2 DEF TypeOK, TypeCarrier
<1>3. TypeOK'
  BY <1>2 DEF TypeOK, TypeFlow, TypeRead, TypeHist, TypeAck, TypeWritten,
     TypeRecv, TypeCarrier, TypeConn, flowVars, readVars, histVars, ackVars,
     writtenVars, recvVars
<1>4. KeptFramesOK'
  BY <1>1, <1>2, StableFacts DEF KeptFramesOK, readVars, histVars
<1>5. InboundFramesOK' /\ AcksOK' /\ ReceiverOK'
  BY <1>1, InboundFramesStable, KeptAcksStable, TakenAcksStable, ReceiverStable DEF recvVars
<1>6. HistoryOK' /\ GracefulMeansDelivered'
  BY <1>1, HistoryStable, GracefulStable DEF flowVars, histVars
<1> QED BY <1>3, <1>4, <1>5, <1>6

LEMMA PickFrameInv ==
  ASSUME FlowInv, NEW s \in Side, NEW c \in Carrier, PickFrame(s, c)
  PROVE  FlowInv'
<1>1. wire' \in [Side -> [Carrier -> Seq(Frame)]] /\ WireFramesOK'
  BY WireFramesStable DEF PickFrame, Truth, readVars, recvVars, connVars, FlowInv,
     FramesOK, TypeOK, TypeConn
<1>2. PICK h \in history[s] :
        sending' = [sending EXCEPT ![s][c] =
                      {[seq |-> h.seq, frame |-> h.frame, written |-> FALSE]}]
  BY DEF PickFrame, NextFrame
<1>3. h \in Entry /\ StreamFrameOK(s, h.frame)
  BY DEF FlowInv, TypeOK, TypeHist, FramesOK, KeptFramesOK
<1>. PICK x \in InFlight : x = [seq |-> h.seq, frame |-> h.frame, written |-> FALSE]
  BY <1>3 DEF Entry, InFlight
<1> QED BY <1>1, <1>2, <1>3, SendingStep DEF PickFrame, connVars

LEMMA WriteFrameInv ==
  ASSUME FlowInv, NEW s \in Side, NEW c \in Carrier, WriteFrame(s, c)
  PROVE  FlowInv'
<1>1. PICK x \in sending[s][c] :
        /\ sending' = [sending EXCEPT ![s][c] =
                         {[seq |-> x.seq, frame |-> x.frame, written |-> TRUE]}]
        /\ wire' = Transmit(s, c, x.frame)
  BY DEF WriteFrame
<1>2. x \in InFlight /\ StreamFrameOK(s, x.frame)
  BY DEF FlowInv, TypeOK, TypeCarrier, FramesOK, KeptFramesOK
<1>. PICK y \in InFlight : y = [seq |-> x.seq, frame |-> x.frame, written |-> TRUE]
  BY <1>2 DEF InFlight
<1>3. wire' \in [Side -> [Carrier -> Seq(Frame)]] /\ WireFramesOK'
  BY <1>1, <1>2, TransmitFacts
     DEF WriteFrame, Truth, readVars, recvVars, StreamFrameOK, InFlight
<1> QED BY <1>1, <1>2, <1>3, SendingStep DEF WriteFrame

\* writeLoop and carrierFrameWritten: the acknowledgement sent is true.
LEMMA WriteAckInv ==
  ASSUME FlowInv, NEW s \in Side, NEW c \in Carrier, WriteAck(s, c)
  PROVE  FlowInv'
<1> USE DEF FlowInv, FramesOK, AcksOK
<1>1. UNCHANGED <<started, done, readVars, histVars, ackVars, writtenVars,
                  recvVars, carrierVars, broken, failures>>
  BY DEF WriteAck
<1>2. PICK a \in pendingAck[s][c], sent \in BOOLEAN, cond \in BOOLEAN :
        /\ wire' = Transmit(s, c, a)
        /\ remoteFINAckSent' = [remoteFINAckSent EXCEPT ![s] = sent]
        /\ ClaimIf(s, cond, "nil")
        /\ cond => ExchangeComplete(localFIN[s], remoteFIN[s], globalAckFIN[s],
                                    deferredAck[s], history[s])
  <2>1. PICK a \in pendingAck[s][c] :
          LET sent == remoteFINAckSent[s] \/ a.fin
          IN /\ wire' = Transmit(s, c, a)
             /\ remoteFINAckSent' = [remoteFINAckSent EXCEPT ![s] = sent]
             /\ ClaimIf(s, a.fin /\ Complete(localFIN[s], remoteFIN[s],
                                             globalAckFIN[s], deferredAck[s],
                                             history[s], sent), "nil")
    BY DEF WriteAck
  <2>2. a \in Frame /\ (remoteFINAckSent[s] \/ a.fin) \in BOOLEAN
    BY DEF TypeOK, Frame
  <2>3. (a.fin /\ Complete(localFIN[s], remoteFIN[s], globalAckFIN[s], deferredAck[s],
                           history[s], remoteFINAckSent[s] \/ a.fin)) \in BOOLEAN
    OBVIOUS
  <2> QED BY <2>1, <2>2, <2>3 DEF Complete
<1>3. UNCHANGED Truth
  BY <1>1 DEF Truth, readVars, recvVars
<1>4. a \in Frame /\ FrameOK(s, a)
  BY DEF TypeOK, KeptAcksOK, FrameOK, AckOK
<1>5. wire' \in [Side -> [Carrier -> Seq(Frame)]] /\ WireFramesOK'
  BY <1>2, <1>3, <1>4, TransmitFacts
<1>6. /\ closed' \in [Side -> {"open", "nil", "err"}]
      /\ \A t \in Side : \/ closed'[t] = closed[t]
                         \/ Delivered(t) /\ Delivered(Peer(t))
      /\ \A t \in Side : closed'[t] = "open" => closed[t] = "open"
  BY <1>2, ClaimFacts, NoCarriersFacts DEF TypeOK
<1>7. /\ pendingAck' \in [Side -> [Carrier -> SUBSET Frame]]
      /\ \A t \in Side, d \in Carrier : pendingAck'[t][d] \subseteq pendingAck[t][d]
  <2>1. pendingAck' = [pendingAck EXCEPT ![s][c] = {}]
    BY DEF WriteAck
  <2> QED BY <2>1, Update2 DEF TypeOK
<1>8. TypeOK'
  BY <1>1, <1>2, <1>5, <1>6, <1>7 DEF TypeOK, TypeFlow, TypeRead, TypeHist, TypeAck,
     TypeWritten, TypeRecv, TypeCarrier, TypeConn,
     readVars, histVars, ackVars, writtenVars, recvVars, carrierVars
<1>9. KeptFramesOK' /\ InboundFramesOK'
  BY <1>1, <1>3, KeptFramesStable, InboundFramesStable
     DEF readVars, histVars, recvVars, carrierVars
<1>10. KeptAcksOK'
  BY <1>1, <1>3, <1>7, StableFacts DEF KeptAcksOK, recvVars
<1>11. TakenAcksOK' /\ ReceiverOK'
  BY <1>1, <1>3, TakenAcksStable, ReceiverStable DEF recvVars
<1>12. HistoryOK' /\ GracefulMeansDelivered'
  BY <1>1, <1>3, <1>6, HistoryStable, GracefulStable DEF histVars
<1> QED BY <1>5, <1>8, <1>9, <1>10, <1>11, <1>12

LEMMA EnqueueInboundInv ==
  ASSUME FlowInv, NEW s \in Side, NEW c \in Carrier, EnqueueInbound(s, c)
  PROVE  FlowInv'
<1> USE DEF FlowInv, FramesOK, AcksOK
<1>1. UNCHANGED <<flowVars, readVars, histVars, ackVars, writtenVars, delivering,
                  nextOffset, held, finOffset, latestAck, remoteFIN,
                  remoteFINAckSent, carrierVars, pendingAck, broken, failures>>
  BY DEF EnqueueInbound
<1>2. UNCHANGED Truth
  BY <1>1 DEF Truth, readVars
<1>. PICK f : f = Incoming(s, c)
  OBVIOUS
<1>3. /\ f \in Frame /\ StreamFrameOK(Peer(s), f)
      /\ wire' \in [Side -> [Carrier -> Seq(Frame)]] /\ WireFramesOK'
  BY <1>2, ReceiveFacts DEF EnqueueInbound, StreamFrameOK
<1>. PICK item \in [src : Carrier, frame : Frame] : item = [src |-> c, frame |-> f]
  BY <1>3
<1>. PICK q \in Seq([src : Carrier, frame : Frame]) : q = inbound[s]
  BY DEF TypeOK, TypeRecv
<1>4. /\ Append(q, item) \in Seq([src : Carrier, frame : Frame])
      /\ \A i \in 1 .. Len(Append(q, item)) :
              \/ i \in 1 .. Len(q) /\ Append(q, item)[i] = q[i]
              \/ Append(q, item)[i] = item
  BY AppendFacts
<1>5. /\ inbound' \in [Side -> Seq([src : Carrier, frame : Frame])]
      /\ inbound'[s] = Append(q, item)
      /\ \A t \in Side : t # s => inbound'[t] = inbound[t]
  BY <1>4 DEF EnqueueInbound, TypeOK, TypeRecv
<1>6. TypeOK'
  BY <1>1, <1>3, <1>5 DEF TypeOK, TypeFlow, TypeRead, TypeHist, TypeAck, TypeWritten,
     TypeRecv, TypeCarrier, TypeConn, flowVars, readVars, histVars, ackVars, writtenVars,
     carrierVars
<1>7. InboundFramesOK'
  <2>1. \A i \in 1 .. Len(inbound'[s]) : StreamFrameOK(Peer(s), inbound'[s][i].frame)
    BY <1>3, <1>4, <1>5 DEF InboundFramesOK
  <2>2. \A t \in Side : \A i \in 1 .. Len(inbound'[t]) :
          StreamFrameOK(Peer(t), inbound'[t][i].frame)
    BY <1>5, <2>1 DEF InboundFramesOK
  <2> QED BY <1>2, <2>2, StableFacts, PeerFacts DEF InboundFramesOK
<1>8. KeptFramesOK'
  BY <1>1, <1>2, KeptFramesStable DEF readVars, histVars, carrierVars
<1>9. AcksOK' /\ ReceiverOK'
  BY <1>1, <1>2, KeptAcksStable, TakenAcksStable, ReceiverStable
<1>10. HistoryOK' /\ GracefulMeansDelivered'
  BY <1>1, <1>2, HistoryStable, GracefulStable DEF flowVars, histVars
<1> QED BY <1>3, <1>6, <1>7, <1>8, <1>9, <1>10

\* What carrierStopping and detach pass on is true.
LEMMA PassedAcks ==
  ASSUME FlowInv, NEW s \in Side
  PROVE  \E acks \in SUBSET Frame :
           /\ acks = IF closed[s] = "open" THEN latestAck[s] ELSE {}
           /\ \A a \in acks : AckOK(s, a)
<1>1. latestAck[s] \in SUBSET Frame /\ {} \in SUBSET Frame
  BY DEF FlowInv, TypeOK, TypeRecv
<1>2. \A a \in latestAck[s] : AckOK(s, a)
  BY DEF FlowInv, AcksOK, KeptAcksOK
<1>3. \A a \in {} : AckOK(s, a)
  OBVIOUS
<1> QED BY <1>1, <1>2, <1>3

LEMMA StopCarrierInv ==
  ASSUME FlowInv, NEW s \in Side, NEW c \in Carrier,
         NEW kept \in 0 .. Len(wire[Peer(s)][c]), NEW to \in {"draining", "closing"},
         StopCarrier(s, c, kept, to), failures' \in Nat
  PROVE  FlowInv'
<1> USE DEF FlowInv, FramesOK, AcksOK
<1>1. /\ UNCHANGED <<flowVars, readVars, histVars, ackVars, writtenVars, recvVars,
                     remoteFINAckSent, carrierNext, hasWritten>>
      /\ status' = [status EXCEPT ![s][c] = to]
      /\ sending' = [sending EXCEPT ![s][c] = {x \in sending[s][c] : x.written}]
      /\ broken' = [broken EXCEPT ![c] = TRUE]
      /\ wire' = [wire EXCEPT ![Peer(s)][c] = SubSeq(@, 1, kept)]
  BY DEF StopCarrier, TypeOK, TypeCarrier
<1>2. UNCHANGED Truth
  BY <1>1 DEF Truth, readVars, recvVars
<1>3. wire' \in [Side -> [Carrier -> Seq(Frame)]] /\ WireFramesOK'
  BY <1>1, <1>2, PeerFacts, CutFacts
<1>4. /\ sending' \in [Side -> [Carrier -> SUBSET InFlight]]
      /\ \A t \in Side, d \in Carrier : sending'[t][d] \subseteq sending[t][d]
  <2>1. {x \in sending[s][c] : x.written} \in SUBSET InFlight
    BY DEF TypeOK, TypeCarrier
  <2> QED BY <1>1, <2>1, Update2 DEF TypeOK, TypeCarrier
<1>5. status' \in [Side -> [Carrier -> Status]]
  BY <1>1, Update2 DEF TypeOK, TypeCarrier, Status
<1>6. /\ pendingAck' \in [Side -> [Carrier -> SUBSET Frame]]
      /\ \A t \in Side, d \in Carrier : \A a \in pendingAck'[t][d] : AckOK(t, a)'
  <2>. PICK acks \in SUBSET Frame :
          /\ acks = IF closed[s] = "open" THEN latestAck[s] ELSE {}
          /\ \A a \in acks : AckOK(s, a)
    BY PassedAcks
  <2> HIDE DEF FlowInv
  <2>1. PICK E \in [Side -> [Carrier -> SUBSET Frame]] :
          /\ E = EnqueueAcks(s, Carrier \ {c}, acks)
          /\ \A t \in Side, d \in Carrier : \A a \in E[t][d] : AckOK(t, a)'
    BY <1>2, EnqueueAcksFacts
  <2>2. pendingAck' = [E EXCEPT ![s][c] = {}]
    BY <2>1 DEF StopCarrier
  <2>3. /\ pendingAck' \in [Side -> [Carrier -> SUBSET Frame]]
        /\ \A t \in Side, d \in Carrier : pendingAck'[t][d] \subseteq E[t][d]
    BY <2>2, Update2
  <2> QED BY <2>1, <2>3
<1>7. TypeOK'
  BY <1>1, <1>3, <1>4, <1>5, <1>6 DEF TypeOK, TypeFlow, TypeRead, TypeHist, TypeAck,
     TypeWritten, TypeRecv, TypeCarrier, TypeConn,
     flowVars, readVars, histVars, ackVars, writtenVars, recvVars
<1>8. KeptFramesOK' /\ InboundFramesOK'
  BY <1>1, <1>2, <1>4, StableFacts, InboundFramesStable
     DEF KeptFramesOK, readVars, histVars, recvVars
<1>9. KeptAcksOK'
  BY <1>1, <1>2, <1>6, StableFacts DEF KeptAcksOK, recvVars
<1>10. TakenAcksOK' /\ ReceiverOK'
  BY <1>1, <1>2, TakenAcksStable, ReceiverStable DEF recvVars
<1>11. HistoryOK' /\ GracefulMeansDelivered'
  BY <1>1, <1>2, HistoryStable, GracefulStable DEF flowVars, histVars
<1> QED BY <1>3, <1>7, <1>8, <1>9, <1>10, <1>11

LEMMA StopInv ==
  ASSUME FlowInv, NEW s \in Side, NEW c \in Carrier,
         StopAtEOF(s, c) \/ StopAtWriteError(s, c)
  PROVE  FlowInv'
<1>1. Peer(s) \in Side /\ Len(wire[Peer(s)][c]) \in Nat /\ failures \in Nat
  BY PeerFacts DEF FlowInv, TypeOK, TypeConn
<1>2. PICK kept \in 0 .. Len(wire[Peer(s)][c]) : StopCarrier(s, c, kept, "draining")
  BY <1>1 DEF StopAtEOF, StopAtWriteError, CarrierReadAhead
<1>3. failures' \in Nat
  BY <1>1 DEF StopAtEOF, StopAtWriteError
<1> QED BY <1>2, <1>3, StopCarrierInv

LEMMA CloseCarrierInv ==
  ASSUME FlowInv, NEW c \in Carrier, CloseCarrier(c)
  PROVE  FlowInv'
<1>1. "client" \in Side /\ Peer("client") \in Side
  BY DEF Side, Peer
<1>2. Len(wire[Peer("client")][c]) \in Nat /\ failures \in Nat
  BY <1>1 DEF FlowInv, TypeOK, TypeConn
<1>3. 0 \in 0 .. Len(wire[Peer("client")][c]) /\ failures' \in Nat
  BY <1>2 DEF CloseCarrier
<1> QED BY <1>1, <1>3, StopCarrierInv DEF CloseCarrier

LEMMA DetachInv ==
  ASSUME FlowInv, NEW s \in Side, NEW c \in Carrier, Detach(s, c)
  PROVE  FlowInv'
<1> USE DEF FlowInv, FramesOK, AcksOK
<1>1. /\ UNCHANGED <<started, done, readVars, histVars, ackVars, writtenVars,
                     recvVars, remoteFINAckSent, connVars, failures>>
      /\ status' = [status EXCEPT ![s][c] = "gone"]
      /\ sending' = [sending EXCEPT ![s][c] = {}]
      /\ carrierNext' = [carrierNext EXCEPT ![s][c] = 0]
      /\ hasWritten' = [hasWritten EXCEPT ![s][c] = FALSE]
  BY DEF Detach
<1>2. UNCHANGED Truth
  BY <1>1 DEF Truth, readVars, recvVars
<1>3. PICK cond \in BOOLEAN : ClaimIf(s, cond, NoCarriersOutcome(s))
  BY DEF Detach
<1>4. /\ closed' \in [Side -> {"open", "nil", "err"}]
      /\ \A t \in Side : \/ closed'[t] = closed[t]
                         \/ closed'[t] # "nil"
                         \/ Delivered(t) /\ Delivered(Peer(t))
      /\ \A t \in Side : closed'[t] = "open" => closed[t] = "open"
  BY <1>3, ClaimFacts, NoCarriersFacts DEF TypeOK
<1>5. /\ pendingAck' \in [Side -> [Carrier -> SUBSET Frame]]
      /\ \A t \in Side, d \in Carrier : \A a \in pendingAck'[t][d] : AckOK(t, a)'
  <2>. PICK acks \in SUBSET Frame :
          /\ acks = IF closed[s] = "open" THEN latestAck[s] ELSE {}
          /\ \A a \in acks : AckOK(s, a)
    BY PassedAcks
  <2>1. pendingAck' = EnqueueAcks(s, Carrier \ {c}, acks)
    BY DEF Detach
  <2> HIDE DEF FlowInv
  <2> QED BY <1>2, <2>1, EnqueueAcksFacts
<1>6. /\ status' \in [Side -> [Carrier -> Status]]
      /\ carrierNext' \in [Side -> [Carrier -> Nat]]
      /\ hasWritten' \in [Side -> [Carrier -> BOOLEAN]]
      /\ sending' \in [Side -> [Carrier -> SUBSET InFlight]]
      /\ \A t \in Side, d \in Carrier : sending'[t][d] \subseteq sending[t][d]
  BY <1>1, Update2 DEF TypeOK, TypeCarrier, Status
<1>7. TypeOK'
  BY <1>1, <1>4, <1>5, <1>6 DEF TypeOK, TypeFlow, TypeRead, TypeHist, TypeAck,
     TypeWritten, TypeRecv, TypeCarrier, TypeConn,
     readVars, histVars, ackVars, writtenVars, recvVars, connVars
<1>8. KeptFramesOK'
  BY <1>1, <1>2, <1>6, StableFacts DEF KeptFramesOK, readVars, histVars
<1>9. WireFramesOK' /\ InboundFramesOK'
  BY <1>1, <1>2, WireFramesStable, InboundFramesStable DEF recvVars, connVars
<1>10. KeptAcksOK'
  BY <1>1, <1>2, <1>5, StableFacts DEF KeptAcksOK, recvVars
<1>11. TakenAcksOK' /\ ReceiverOK'
  BY <1>1, <1>2, TakenAcksStable, ReceiverStable DEF recvVars
<1>12. HistoryOK' /\ GracefulMeansDelivered'
  BY <1>1, <1>2, <1>4, HistoryStable, GracefulStable DEF histVars
<1> QED BY <1>7, <1>8, <1>9, <1>10, <1>11, <1>12

LEMMA BreakInv ==
  ASSUME FlowInv, NEW c \in Carrier, Break(c)
  PROVE  FlowInv'
<1> USE DEF FlowInv, FramesOK, AcksOK
<1>1. /\ UNCHANGED <<flowVars, readVars, histVars, ackVars, writtenVars, recvVars,
                     remoteFINAckSent, carrierVars, pendingAck>>
      /\ broken' = [broken EXCEPT ![c] = TRUE]
      /\ failures' = failures + 1
  BY DEF Break
<1>2. UNCHANGED Truth
  BY <1>1 DEF Truth, readVars, recvVars
<1>3. wire' \in [Side -> [Carrier -> Seq(Frame)]] /\ WireFramesOK'
  <2>1. PICK i \in 0 .. Len(wire["client"][c]), j \in 0 .. Len(wire["server"][c]) :
          wire' = [wire EXCEPT !["client"][c] = SubSeq(@, 1, i),
                               !["server"][c] = SubSeq(@, 1, j)]
    BY DEF Break
  <2>2. \A t \in Side, d \in Carrier : wire[t][d] \in Seq(Frame)
    BY DEF TypeOK, TypeConn
  <2>. PICK p \in Seq(Frame), q \in Seq(Frame) :
         /\ p = SubSeq(wire["client"][c], 1, i) /\ q = SubSeq(wire["server"][c], 1, j)
         /\ \A k \in 1 .. Len(p) : FrameOK("client", p[k])
         /\ \A k \in 1 .. Len(q) : FrameOK("server", q[k])
    <3>1. "client" \in Side /\ "server" \in Side
      BY DEF Side
    <3>2. \A t \in Side : \A k \in 1 .. Len(wire[t][c]) : FrameOK(t, wire[t][c][k])
      BY DEF WireFramesOK
    <3>3. /\ SubSeq(wire["client"][c], 1, i) \in Seq(Frame)
          /\ \A k \in 1 .. Len(SubSeq(wire["client"][c], 1, i)) :
               FrameOK("client", SubSeq(wire["client"][c], 1, i)[k])
      BY <2>2, <3>1, <3>2, PrefixFacts
    <3>4. /\ SubSeq(wire["server"][c], 1, j) \in Seq(Frame)
          /\ \A k \in 1 .. Len(SubSeq(wire["server"][c], 1, j)) :
               FrameOK("server", SubSeq(wire["server"][c], 1, j)[k])
      BY <2>2, <3>1, <3>2, PrefixFacts
    <3> QED BY <3>3, <3>4
  <2>3. /\ wire' \in [Side -> [Carrier -> Seq(Frame)]]
        /\ wire'["client"][c] = p /\ wire'["server"][c] = q
        /\ \A t \in Side, d \in Carrier : d # c => wire'[t][d] = wire[t][d]
    BY <2>1 DEF TypeOK, TypeConn, Side
  <2>4. \A t \in Side, d \in Carrier : \A k \in 1 .. Len(wire'[t][d]) :
          FrameOK(t, wire'[t][d][k])
    <3> SUFFICES ASSUME NEW t \in Side, NEW d \in Carrier, NEW k \in 1 .. Len(wire'[t][d])
                 PROVE  FrameOK(t, wire'[t][d][k])
      OBVIOUS
    <3>1. CASE d # c
      BY <2>3, <3>1 DEF WireFramesOK
    <3>2. CASE d = c
      <4>1. t = "client" \/ t = "server"
        BY DEF Side
      <4> QED BY <2>3, <3>2, <4>1
    <3> QED BY <3>1, <3>2
  <2> QED BY <1>2, <2>3, <2>4, StableFacts DEF WireFramesOK
<1>4. TypeOK'
  <2>1. broken' \in [Carrier -> BOOLEAN] /\ failures' \in Nat
    BY <1>1 DEF TypeOK, TypeConn
  <2> QED
    BY <1>1, <1>3, <2>1 DEF TypeOK, TypeFlow, TypeRead, TypeHist, TypeAck, TypeWritten,
       TypeRecv, TypeCarrier, TypeConn,
       flowVars, readVars, histVars, ackVars, writtenVars, recvVars, carrierVars
<1>5. KeptFramesOK' /\ InboundFramesOK'
  BY <1>1, <1>2, KeptFramesStable, InboundFramesStable
     DEF readVars, histVars, recvVars, carrierVars
<1>6. AcksOK' /\ ReceiverOK'
  BY <1>1, <1>2, KeptAcksStable, TakenAcksStable, ReceiverStable DEF recvVars
<1>7. HistoryOK' /\ GracefulMeansDelivered'
  BY <1>1, <1>2, HistoryStable, GracefulStable DEF flowVars, histVars
<1> QED BY <1>3, <1>4, <1>5, <1>6, <1>7

LEMMA SendAckInv ==
  ASSUME FlowInv, NEW s \in Side, SendAck(s)
  PROVE  FlowInv'
<1> USE DEF FlowInv, FramesOK, AcksOK
<1>1. UNCHANGED <<flowVars, readVars, histVars, ackVars, writtenVars, inbound,
                  nextOffset, held, finOffset, latestAck, remoteFIN,
                  remoteFINAckSent, carrierVars, connVars, failures>>
  BY DEF SendAck
<1>2. UNCHANGED Truth
  BY <1>1 DEF Truth, readVars
<1>3. PICK d \in delivering[s] :
        /\ pendingAck' = IF d.src \in Accepting(s)
                          THEN EnqueueAcks(s, {d.src}, d.acks)
                          ELSE EnqueueAcks(s, d.carriers \ {d.src}, d.acks)
        /\ delivering' = [delivering EXCEPT ![s] = {[d EXCEPT !.pc = "finish"]}]
  BY DEF SendAck
<1>4. /\ d \in Delivery /\ \A a \in d.acks : AckOK(s, a)
      /\ d.finished => FinReached(s)
  BY DEF TypeOK, TypeRecv, KeptAcksOK, ReceiverOK
<1>. PICK e \in Delivery :
       /\ e = [d EXCEPT !.pc = "finish"]
       /\ e.acks = d.acks /\ e.finished = d.finished
  <2>1. [d EXCEPT !.pc = "finish"] \in Delivery
    BY <1>4 DEF Delivery
  <2>2. /\ [d EXCEPT !.pc = "finish"].acks = d.acks
        /\ [d EXCEPT !.pc = "finish"].finished = d.finished
    BY <1>4 DEF Delivery
  <2> QED BY <2>1, <2>2
<1>5. /\ pendingAck' \in [Side -> [Carrier -> SUBSET Frame]]
      /\ \A t \in Side, c \in Carrier : \A a \in pendingAck'[t][c] : AckOK(t, a)'
  <2>. PICK acks \in SUBSET Frame : acks = d.acks /\ \A a \in acks : AckOK(s, a)
    BY <1>4 DEF Delivery
  <2>1. PICK S : pendingAck' = EnqueueAcks(s, S, acks)
    BY <1>3
  <2> HIDE DEF FlowInv
  <2> QED BY <1>2, <2>1, EnqueueAcksFacts
<1>6. /\ delivering' \in [Side -> SUBSET Delivery]
      /\ delivering'[s] = {e}
      /\ \A t \in Side : t # s => delivering'[t] = delivering[t]
  BY <1>3 DEF TypeOK, TypeRecv
<1>7. TypeOK'
  BY <1>1, <1>5, <1>6 DEF TypeOK, TypeFlow, TypeRead, TypeHist, TypeAck,
     TypeWritten, TypeRecv, TypeCarrier, TypeConn,
     flowVars, readVars, histVars, ackVars, writtenVars, carrierVars, connVars
<1>8. FramesOK'
  BY <1>1, <1>2, KeptFramesStable, WireFramesStable, InboundFramesStable
     DEF readVars, histVars, carrierVars, connVars
<1>9. KeptAcksOK'
  <2>1. \A t \in Side : \A x \in delivering'[t] : \A a \in x.acks : AckOK(t, a)
    BY <1>4, <1>6 DEF KeptAcksOK
  <2>2. \A t \in Side : \A a \in latestAck[t] : AckOK(t, a)
    BY DEF KeptAcksOK
  <2> QED BY <1>1, <1>2, <1>5, <2>1, <2>2, StableFacts DEF KeptAcksOK
<1>10. TakenAcksOK'
  BY <1>1, <1>2, TakenAcksStable
<1>11. ReceiverOK'
  <2>1. \A t \in Side : \A x \in delivering'[t] : x.finished => FinReached(t)
    <3>1. \A x \in delivering'[s] : x.finished => FinReached(s)
      BY <1>4, <1>6
    <3>2. \A t \in Side : t # s => \A x \in delivering'[t] : x.finished => FinReached(t)
      BY <1>6 DEF ReceiverOK
    <3> QED BY <3>1, <3>2
  <2> QED BY <1>1, <1>2, <2>1, StableFacts DEF ReceiverOK, Truth
<1>12. HistoryOK' /\ GracefulMeansDelivered'
  BY <1>1, <1>2, HistoryStable, GracefulStable DEF flowVars, histVars
<1> QED BY <1>7, <1>8, <1>9, <1>10, <1>11, <1>12

LEMMA FinishDeliveryInv ==
  ASSUME FlowInv, NEW s \in Side, FinishDelivery(s)
  PROVE  FlowInv'
<1> USE DEF FlowInv, FramesOK, AcksOK
<1>1. UNCHANGED <<started, done, readVars, histVars, ackVars, writtenVars,
                  inbound, nextOffset, held, finOffset, latestAck,
                  remoteFINAckSent, carrierVars, pendingAck, connVars, failures>>
  BY DEF FinishDelivery
<1>2. UNCHANGED Truth
  BY <1>1 DEF Truth, readVars
<1>3. PICK d \in delivering[s] :
        LET rFIN     == remoteFIN[s] \/ d.finished
            complete == /\ d.finished /\ ~remoteFIN[s]
                        /\ Complete(localFIN[s], TRUE, globalAckFIN[s],
                                    deferredAck[s], history[s],
                                    remoteFINAckSent[s])
        IN /\ remoteFIN' = [remoteFIN EXCEPT ![s] = rFIN]
           /\ ClaimIf(s, complete \/ NothingLeft(s),
               IF complete \/ ExchangeComplete(localFIN[s], rFIN,
                                globalAckFIN[s], deferredAck[s], history[s])
                 THEN "nil" ELSE "err")
  BY DEF FinishDelivery
<1>4. d \in Delivery /\ (d.finished => FinReached(s))
  BY DEF TypeOK, TypeRecv, ReceiverOK
<1>. PICK rFIN \in BOOLEAN :
       rFIN = (remoteFIN[s] \/ d.finished) /\ (rFIN => FinReached(s))
  BY <1>4 DEF Delivery, TypeOK, TypeRecv, ReceiverOK
<1>5. ExchangeComplete(localFIN[s], rFIN, globalAckFIN[s], deferredAck[s], history[s])
        => Delivered(s) /\ Delivered(Peer(s))
  <2>1. /\ globalAckFIN[s] \in BOOLEAN
        /\ globalAckFIN[s] => FinReached(Peer(s))
        /\ \A x \in deferredAck[s] : AckOK(Peer(s), x)
    BY DEF TypeOK, TypeAck, TakenAcksOK
  <2> HIDE DEF FlowInv
  <2> QED BY <2>1, CompleteFacts
<1>6. PICK cond \in BOOLEAN, outcome \in {"nil", "err"} :
        /\ ClaimIf(s, cond, outcome)
        /\ outcome = "nil" => Delivered(s) /\ Delivered(Peer(s))
  <2>. DEFINE complete == /\ d.finished /\ ~remoteFIN[s]
                          /\ Complete(localFIN[s], TRUE, globalAckFIN[s],
                                      deferredAck[s], history[s], remoteFINAckSent[s])
  <2>1. complete => ExchangeComplete(localFIN[s], rFIN, globalAckFIN[s],
                                     deferredAck[s], history[s])
    BY DEF Complete, ExchangeComplete
  <2> QED BY <1>3, <1>5, <2>1
<1>7. /\ closed' \in [Side -> {"open", "nil", "err"}]
      /\ \A t \in Side : \/ closed'[t] = closed[t]
                         \/ closed'[t] # "nil"
                         \/ Delivered(t) /\ Delivered(Peer(t))
      /\ \A t \in Side : closed'[t] = "open" => closed[t] = "open"
  BY <1>6, ClaimFacts DEF TypeOK
<1>8. /\ remoteFIN' \in [Side -> BOOLEAN]
      /\ \A t \in Side : remoteFIN'[t] => FinReached(t)
  BY <1>3 DEF TypeOK, TypeRecv, ReceiverOK
<1>9. /\ delivering' \in [Side -> SUBSET Delivery]
      /\ \A t \in Side : delivering'[t] \subseteq delivering[t]
  BY DEF FinishDelivery, TypeOK, TypeRecv
<1>10. TypeOK'
  BY <1>1, <1>7, <1>8, <1>9 DEF TypeOK, TypeFlow, TypeRead, TypeHist, TypeAck,
     TypeWritten, TypeRecv, TypeCarrier, TypeConn,
     readVars, histVars, ackVars, writtenVars, carrierVars, connVars
<1>11. FramesOK'
  BY <1>1, <1>2, KeptFramesStable, WireFramesStable, InboundFramesStable
     DEF readVars, histVars, carrierVars, connVars
<1>12. KeptAcksOK'
  BY <1>1, <1>2, <1>9, StableFacts DEF KeptAcksOK
<1>13. TakenAcksOK'
  BY <1>1, <1>2, TakenAcksStable
<1>14. ReceiverOK'
  BY <1>1, <1>2, <1>8, <1>9, StableFacts DEF ReceiverOK, Truth
<1>15. HistoryOK' /\ GracefulMeansDelivered'
  BY <1>1, <1>2, <1>7, HistoryStable, GracefulStable DEF histVars
<1> QED BY <1>10, <1>11, <1>12, <1>13, <1>14, <1>15

LEMMA FinishResetInv ==
  ASSUME FlowInv, NEW s \in Side, FinishReset(s)
  PROVE  FlowInv'
<1> USE DEF FlowInv, FramesOK, AcksOK
<1>1. /\ UNCHANGED <<started, closed, readVars, histVars, ackVars, writtenVars,
                     delivering, nextOffset, held, finOffset, latestAck, remoteFIN,
                     remoteFINAckSent, failures>>
      /\ done' = [done EXCEPT ![s] = TRUE]
      /\ inbound' = [inbound EXCEPT ![s] = <<>>]
      /\ broken' = [c \in Carrier |-> broken[c] \/ c \in Attached(s)]
      /\ status' = [status EXCEPT ![s] =
           [c \in Carrier |-> IF c \in Attached(s) THEN "gone" ELSE status[s][c]]]
      /\ carrierNext' = [carrierNext EXCEPT ![s] = [c \in Carrier |-> 0]]
      /\ hasWritten' = [hasWritten EXCEPT ![s] = [c \in Carrier |-> FALSE]]
      /\ sending' = [sending EXCEPT ![s] = [c \in Carrier |-> {}]]
      /\ pendingAck' = [pendingAck EXCEPT ![s] = [c \in Carrier |-> {}]]
  BY DEF FinishReset, TypeOK, TypeCarrier
<1>2. UNCHANGED Truth
  BY <1>1 DEF Truth, readVars
<1>3. wire' \in [Side -> [Carrier -> Seq(Frame)]] /\ WireFramesOK'
  <2>1. PICK target \in SUBSET Accepting(s) :
          wire' = [t \in Side |-> [c \in Carrier |->
            IF t = s
              THEN IF c \in target /\ ~broken[c] THEN Append(wire[s][c], RstFrame)
                                                 ELSE wire[s][c]
              ELSE IF c \in Attached(s) THEN <<>> ELSE wire[t][c]]]
    BY DEF FinishReset
  <2>2. \A t \in Side, c \in Carrier : wire[t][c] \in Seq(Frame)
    BY DEF TypeOK, TypeConn
  <2>3. RstFrame \in Frame /\ FrameOK(s, RstFrame)
    BY FrameTypes DEF FrameOK, RstFrame
  <2>4. \A t \in Side, c \in Carrier :
          \/ wire'[t][c] = wire[t][c]
          \/ wire'[t][c] = <<>>
          \/ t = s /\ wire'[t][c] = Append(wire[t][c], RstFrame)
    BY <2>1
  <2>5. ASSUME NEW t \in Side, NEW c \in Carrier
        PROVE  wire'[t][c] \in Seq(Frame) /\
               \A i \in 1 .. Len(wire'[t][c]) : FrameOK(t, wire'[t][c][i])
    <3>1. CASE wire'[t][c] = wire[t][c]
      BY <2>2, <3>1 DEF WireFramesOK
    <3>2. CASE wire'[t][c] = <<>>
      <4>1. <<>> \in Seq(Frame) /\ Len(<<>>) = 0 /\ \A i \in 1 .. 0 : FALSE
        OBVIOUS
      <4> QED BY <3>2, <4>1
    <3>3. CASE t = s /\ wire'[t][c] = Append(wire[t][c], RstFrame)
      <4>. PICK q \in Seq(Frame) : q = wire[t][c] /\ \A i \in 1 .. Len(q) : FrameOK(t, q[i])
        BY <2>2 DEF WireFramesOK
      <4>1. /\ Append(q, RstFrame) \in Seq(Frame)
            /\ \A i \in 1 .. Len(Append(q, RstFrame)) :
                  \/ i \in 1 .. Len(q) /\ Append(q, RstFrame)[i] = q[i]
                  \/ Append(q, RstFrame)[i] = RstFrame
        BY <2>3, AppendFacts
      <4> QED BY <2>3, <3>3, <4>1
    <3> QED BY <2>4, <3>1, <3>2, <3>3
  <2>6. wire' \in [Side -> [Carrier -> Seq(Frame)]]
    <3>1. wire' = [t \in Side |-> [c \in Carrier |-> wire'[t][c]]]
      BY <2>1
    <3> QED BY <2>5, <3>1
  <2> QED BY <1>2, <2>5, <2>6, StableFacts DEF WireFramesOK
<1>4. /\ inbound' \in [Side -> Seq([src : Carrier, frame : Frame])]
      /\ inbound'[s] = <<>>
      /\ \A t \in Side : t # s => inbound'[t] = inbound[t]
  <2>1. <<>> \in Seq([src : Carrier, frame : Frame])
    OBVIOUS
  <2> QED BY <1>1, <2>1 DEF TypeOK, TypeRecv
<1>5. /\ status' \in [Side -> [Carrier -> Status]]
      /\ carrierNext' \in [Side -> [Carrier -> Nat]]
      /\ hasWritten' \in [Side -> [Carrier -> BOOLEAN]]
  BY <1>1 DEF TypeOK, TypeCarrier, Status
<1>6. /\ sending' \in [Side -> [Carrier -> SUBSET InFlight]]
      /\ \A t \in Side, c \in Carrier : sending'[t][c] \subseteq sending[t][c]
      /\ pendingAck' \in [Side -> [Carrier -> SUBSET Frame]]
      /\ \A t \in Side, c \in Carrier : pendingAck'[t][c] \subseteq pendingAck[t][c]
  BY <1>1 DEF TypeOK, TypeCarrier
<1>7. TypeOK'
  <2>1. broken' \in [Carrier -> BOOLEAN] /\ done' \in [Side -> BOOLEAN]
    BY <1>1 DEF TypeOK, TypeConn, TypeFlow
  <2> QED
    BY <1>1, <1>3, <1>4, <1>5, <1>6, <2>1 DEF TypeOK, TypeFlow, TypeRead, TypeHist,
       TypeAck, TypeWritten, TypeRecv, TypeCarrier, TypeConn,
       readVars, histVars, ackVars, writtenVars
<1>8. KeptFramesOK'
  BY <1>1, <1>2, <1>6, StableFacts DEF KeptFramesOK, readVars, histVars
<1>9. InboundFramesOK'
  <2>1. Len(<<>>) = 0 /\ \A i \in 1 .. 0 : FALSE
    OBVIOUS
  <2>2. \A t \in Side : \A i \in 1 .. Len(inbound'[t]) :
          StreamFrameOK(Peer(t), inbound'[t][i].frame)
    BY <1>4, <2>1 DEF InboundFramesOK
  <2> QED BY <1>2, <2>2, StableFacts, PeerFacts DEF InboundFramesOK
<1>10. KeptAcksOK'
  BY <1>1, <1>2, <1>6, StableFacts DEF KeptAcksOK
<1>11. TakenAcksOK' /\ ReceiverOK'
  BY <1>1, <1>2, TakenAcksStable, ReceiverStable
<1>12. HistoryOK' /\ GracefulMeansDelivered'
  BY <1>1, <1>2, HistoryStable, GracefulStable DEF histVars
<1> QED BY <1>3, <1>7, <1>8, <1>9, <1>10, <1>11, <1>12

\* The payload of frames of s is a finite number of bytes.
LEMMA PayloadBytesNat ==
  ASSUME FlowInv, NEW s \in Side, NEW H \in SUBSET history[s]
  PROVE  PayloadBytes(H) \in Nat
<1> DEFINE B == UNION {h.frame.off .. (h.frame.end - 1) : h \in H}
<1>1. offset[s] \in Nat
  BY DEF FlowInv, TypeOK, TypeRead
<1>2. B \subseteq 0 .. offset[s]
  <2>1. ASSUME NEW h \in H, NEW b \in h.frame.off .. (h.frame.end - 1)
        PROVE  b \in 0 .. offset[s]
    <3>1. h.frame \in Frame /\ StreamFrameOK(s, h.frame)
      BY DEF FlowInv, TypeOK, TypeHist, Entry, FramesOK, KeptFramesOK
    <3>2. h.frame.off \in Nat /\ h.frame.end \in Nat /\ h.frame.end <= offset[s]
      BY <1>1, <3>1 DEF Frame, StreamFrameOK, FrameOK
    <3> QED BY <1>1, <3>2
  <2> QED BY <2>1
<1>3. IsFiniteSet(0 .. offset[s])
  BY <1>1, FS_Interval
<1>4. IsFiniteSet(B)
  BY <1>2, <1>3, FS_Subset
<1> QED BY <1>4, FS_CardinalityType DEF PayloadBytes

\* applyAcknowledgementLocked: a true acknowledgement that does not regress
\* moves the bookkeeping forward and prunes only what the peer has.
LEMMA ApplyAckFacts ==
  ASSUME FlowInv, UNCHANGED Truth, NEW s \in Side, NEW a \in Frame,
         AckOK(Peer(s), a), ~AckRegresses(s, a),
         NEW deferred \in SUBSET Frame, \A d \in deferred : AckOK(Peer(s), d),
         ApplyAck(s, a, deferred)
  PROVE  /\ TypeAck' /\ TypeHist' /\ closed' \in [Side -> {"open", "nil", "err"}]
         /\ TakenAcksOK' /\ HistoryOK' /\ GracefulMeansDelivered'
         /\ \A t \in Side : history'[t] \subseteq history[t]
<1> USE DEF FlowInv, AcksOK
<1>. PICK ackFIN \in BOOLEAN : ackFIN = (globalAckFIN[s] \/ a.fin)
  BY DEF TypeOK, TypeAck, Frame
<1>. PICK H \in SUBSET history[s] : H = PruneHistory(history[s], a.off, ackFIN)
  BY DEF PruneHistory
<1>. PICK kept \in SUBSET deferred :
       kept = {d \in deferred : ~(\/ a.off > d.off
                                  \/ a.off = d.off /\ (a.fin \/ ~d.fin))}
  OBVIOUS
<1>1. /\ globalAckOffset' = [globalAckOffset EXCEPT ![s] = a.off]
      /\ globalAckFIN' = [globalAckFIN EXCEPT ![s] = ackFIN]
      /\ deferredAck' = [deferredAck EXCEPT ![s] = kept]
      /\ history' = [history EXCEPT ![s] = H]
      /\ historyBytes' = [historyBytes EXCEPT ![s] = @ - PayloadBytes(history[s] \ H)]
      /\ ClaimIf(s, Complete(localFIN[s], remoteFIN[s], ackFIN, kept, H,
                             remoteFINAckSent[s]), "nil")
  BY DEF ApplyAck
<1>2. /\ a.off \in Nat /\ a.off <= nextOffset[Peer(s)]
      /\ globalAckOffset[s] <= a.off /\ globalAckOffset[s] \in Nat
      /\ ackFIN => FinReached(Peer(s))
  BY PeerFacts DEF Frame, AckOK, AckRegresses, TakenAcksOK, TypeOK, TypeAck
<1>3. TypeAck'
  BY <1>1, <1>2 DEF TypeOK, TypeAck
<1>4. TypeHist' /\ \A t \in Side : history'[t] \subseteq history[t]
  <2>1. PayloadBytes(history[s] \ H) \in Nat
    BY PayloadBytesNat
  <2>2. /\ history' \in [Side -> SUBSET Entry]
        /\ \A t \in Side : history'[t] \subseteq history[t]
    BY <1>1 DEF TypeOK, TypeHist
  <2>3. historyBytes' \in [Side -> Int]
    BY <1>1, <2>1 DEF TypeOK, TypeHist
  <2> QED BY <2>2, <2>3 DEF TypeHist
<1>5. /\ closed' \in [Side -> {"open", "nil", "err"}]
      /\ \A t \in Side : \/ closed'[t] = closed[t]
                         \/ Delivered(t) /\ Delivered(Peer(t))
      /\ \A t \in Side : closed'[t] = "open" => closed[t] = "open"
  <2>. PICK cond \in BOOLEAN :
         cond = Complete(localFIN[s], remoteFIN[s], ackFIN, kept, H, remoteFINAckSent[s])
    BY DEF Complete, ExchangeComplete, TypeOK
  <2>1. cond => ExchangeComplete(localFIN[s], remoteFIN[s], ackFIN, kept, H)
    BY DEF Complete
  <2>2. /\ remoteFIN[s] \in BOOLEAN /\ (remoteFIN[s] => FinReached(s))
        /\ \A d \in kept : AckOK(Peer(s), d)
    BY DEF TypeOK, TypeRecv, ReceiverOK
  <2>3. TypeFlow
    BY DEF TypeOK
  <2> HIDE DEF FlowInv
  <2>4. cond => Delivered(s) /\ Delivered(Peer(s))
    BY <1>2, <2>1, <2>2, CompleteFacts
  <2> QED BY <1>1, <2>3, <2>4, ClaimFacts
<1>6. TakenAcksOK'
  <2>1. /\ globalAckOffset'[s] = a.off /\ globalAckFIN'[s] = ackFIN
        /\ deferredAck'[s] = kept
        /\ \A t \in Side : t # s => /\ globalAckOffset'[t] = globalAckOffset[t]
                                    /\ globalAckFIN'[t] = globalAckFIN[t]
                                    /\ deferredAck'[t] = deferredAck[t]
    BY <1>1 DEF TypeOK, TypeAck
  <2>2. \A t \in Side :
          /\ \A d \in deferredAck'[t] : AckOK(Peer(t), d)
          /\ globalAckOffset'[t] <= nextOffset[Peer(t)]
          /\ globalAckFIN'[t] => FinReached(Peer(t))
    BY <1>2, <2>1 DEF TakenAcksOK
  <2> QED BY <2>2, StableFacts, PeerFacts DEF TakenAcksOK, Truth
<1>7. HistoryOK'
  <2>1. /\ globalAckOffset'[s] = a.off /\ globalAckFIN'[s] = ackFIN /\ history'[s] = H
        /\ \A t \in Side : t # s => /\ globalAckOffset'[t] = globalAckOffset[t]
                                    /\ globalAckFIN'[t] = globalAckFIN[t]
                                    /\ history'[t] = history[t]
    BY <1>1 DEF TypeOK, TypeAck, TypeHist
  <2>2. ASSUME NEW b \in 0 .. (offset[s] - 1), a.off <= b
        PROVE  \E h \in H : h.frame.off <= b /\ b < h.frame.end
    <3>1. b \in Nat /\ globalAckOffset[s] <= b
      BY <1>2, <2>2 DEF TypeOK, TypeRead
    <3>2. PICK h \in history[s] : h.frame.off <= b /\ b < h.frame.end
      BY <3>1 DEF HistoryOK
    <3>3. h.frame \in Frame /\ StreamFrameOK(s, h.frame)
      BY DEF TypeOK, TypeHist, Entry, FramesOK, KeptFramesOK
    <3>4. h.frame.type = "DATA" /\ h.frame.end \in Nat
      BY <3>1, <3>2, <3>3 DEF StreamFrameOK, FrameOK, Frame, TypeOK, TypeRead
    <3>5. ~GlobalAcknowledged(a.off, ackFIN, h.frame)
      BY <1>2, <2>2, <3>1, <3>2, <3>4 DEF GlobalAcknowledged
    <3> QED BY <3>2, <3>5 DEF PruneHistory
  <2>3. ASSUME localFIN[s], closed'[s] = "open", ~ackFIN
        PROVE  \E h \in H : h.frame.type = "FIN"
    <3>1. PICK h \in history[s] : h.frame.type = "FIN"
      BY <1>5, <2>3 DEF HistoryOK
    <3>2. ~GlobalAcknowledged(a.off, ackFIN, h.frame)
      BY <2>3, <3>1 DEF GlobalAcknowledged
    <3> QED BY <3>1, <3>2 DEF PruneHistory
  <2>4. \A t \in Side :
          /\ \A b \in 0 .. (offset[t] - 1) : globalAckOffset'[t] <= b =>
               \E h \in history'[t] : h.frame.off <= b /\ b < h.frame.end
          /\ localFIN[t] /\ closed'[t] = "open" /\ ~globalAckFIN'[t] =>
               \E h \in history'[t] : h.frame.type = "FIN"
    BY <1>5, <2>1, <2>2, <2>3 DEF HistoryOK
  <2> QED BY <2>4 DEF HistoryOK, Truth
<1>8. GracefulMeansDelivered'
  BY <1>5, GracefulStable
<1> QED BY <1>3, <1>4, <1>5, <1>6, <1>7, <1>8

\* A step that takes in acknowledgements and changes carriers' bookkeeping.
LEMMA AckStep ==
  ASSUME FlowInv, UNCHANGED Truth,
         TypeAck', TypeHist', closed' \in [Side -> {"open", "nil", "err"}],
         TakenAcksOK', HistoryOK', GracefulMeansDelivered',
         \A t \in Side : history'[t] \subseteq history[t],
         wire' \in [Side -> [Carrier -> Seq(Frame)]], WireFramesOK',
         TypeWritten', TypeCarrier',
         \A t \in Side, d \in Carrier : sending'[t][d] \subseteq sending[t][d],
         UNCHANGED <<started, done, readVars, recvVars, remoteFINAckSent,
                     pendingAck, broken, failures>>
  PROVE  FlowInv'
<1> USE DEF FlowInv, FramesOK, AcksOK
<1>1. TypeOK'
  BY DEF TypeOK, TypeFlow, TypeRead, TypeRecv, TypeConn, readVars, recvVars
<1>2. KeptFramesOK'
  BY StableFacts DEF KeptFramesOK, readVars
<1>3. InboundFramesOK' /\ KeptAcksOK' /\ ReceiverOK'
  BY InboundFramesStable, KeptAcksStable, ReceiverStable DEF recvVars
<1> QED BY <1>1, <1>2, <1>3

\* A step that takes no acknowledgement keeps the bookkeeping right.
LEMMA NoAckFacts ==
  ASSUME FlowInv, UNCHANGED Truth, UNCHANGED <<histVars, closed, globalAckOffset, globalAckFIN>>,
         deferredAck' \in [Side -> SUBSET Frame],
         \A t \in Side : \A d \in deferredAck'[t] : AckOK(Peer(t), d)
  PROVE  /\ TypeAck' /\ TypeHist' /\ closed' \in [Side -> {"open", "nil", "err"}]
         /\ TakenAcksOK' /\ HistoryOK' /\ GracefulMeansDelivered'
         /\ \A t \in Side : history'[t] \subseteq history[t]
<1> USE DEF FlowInv, AcksOK
<1>1. TypeAck' /\ TypeHist' /\ closed' \in [Side -> {"open", "nil", "err"}]
  BY DEF TypeOK, TypeAck, TypeHist, TypeFlow, histVars
<1>2. TakenAcksOK'
  BY StableFacts, PeerFacts DEF TakenAcksOK, Truth
<1>3. HistoryOK'
  BY DEF HistoryOK, Truth, histVars
<1>4. GracefulMeansDelivered'
  BY GracefulStable
<1> QED BY <1>1, <1>2, <1>3, <1>4 DEF histVars

LEMMA CommitFrameInv ==
  ASSUME FlowInv, NEW s \in Side, NEW c \in Carrier, CommitFrame(s, c)
  PROVE  FlowInv'
<1>1. UNCHANGED <<started, done, readVars, recvVars, remoteFINAckSent, status,
                  pendingAck, connVars, failures>>
  BY DEF CommitFrame
<1>2. UNCHANGED Truth
  BY <1>1 DEF Truth, readVars, recvVars
<1>3. PICK x \in sending[s][c] : \E wOffset, wFIN :
        /\ wOffset = IF x.frame.end > writtenOffset[s] THEN x.frame.end ELSE writtenOffset[s]
        /\ wFIN = IF x.frame.type = "FIN" THEN {x.frame.off} ELSE writtenFIN[s]
        /\ carrierNext' = [carrierNext EXCEPT ![s][c] = x.seq + 1]
        /\ writtenOffset' = [writtenOffset EXCEPT ![s] = wOffset]
        /\ writtenFIN' = [writtenFIN EXCEPT ![s] = wFIN]
        /\ ApplyDeferred(s, wOffset, wFIN)
  BY DEF CommitFrame
<1>3a. PICK wOffset, wFIN :
        /\ wOffset = IF x.frame.end > writtenOffset[s] THEN x.frame.end ELSE writtenOffset[s]
        /\ wFIN = IF x.frame.type = "FIN" THEN {x.frame.off} ELSE writtenFIN[s]
        /\ carrierNext' = [carrierNext EXCEPT ![s][c] = x.seq + 1]
        /\ writtenOffset' = [writtenOffset EXCEPT ![s] = wOffset]
        /\ writtenFIN' = [writtenFIN EXCEPT ![s] = wFIN]
        /\ ApplyDeferred(s, wOffset, wFIN)
  BY <1>3
<1>4. x \in InFlight /\ x.frame \in Frame
  BY DEF FlowInv, TypeOK, TypeCarrier, InFlight
<1>5. TypeWritten'
  <2>1. wOffset \in Nat /\ wFIN \in SUBSET Nat
    BY <1>3a, <1>4 DEF Frame, FlowInv, TypeOK, TypeWritten
  <2> QED BY <1>3a, <2>1 DEF FlowInv, TypeOK, TypeWritten
<1>6. TypeCarrier' /\ \A t \in Side, d \in Carrier : sending'[t][d] \subseteq sending[t][d]
  <2>1. x.seq + 1 \in Nat
    BY <1>4 DEF InFlight
  <2>2. /\ hasWritten' = [hasWritten EXCEPT ![s][c] = TRUE]
        /\ sending' = [sending EXCEPT ![s][c] = {}]
    BY DEF CommitFrame
  <2>3. carrierNext' \in [Side -> [Carrier -> Nat]] /\ hasWritten' \in [Side -> [Carrier -> BOOLEAN]]
    BY <1>3a, <2>1, <2>2, Update2 DEF FlowInv, TypeOK, TypeCarrier
  <2>4. /\ sending' \in [Side -> [Carrier -> SUBSET InFlight]]
        /\ \A t \in Side, d \in Carrier : sending'[t][d] \subseteq sending[t][d]
    BY <2>2, Update2 DEF FlowInv, TypeOK, TypeCarrier
  <2> QED BY <1>1, <2>3, <2>4 DEF FlowInv, TypeOK, TypeCarrier
<1>7. /\ TypeAck' /\ TypeHist' /\ closed' \in [Side -> {"open", "nil", "err"}]
      /\ TakenAcksOK' /\ HistoryOK' /\ GracefulMeansDelivered'
      /\ \A t \in Side : history'[t] \subseteq history[t]
  <2>1. /\ deferredAck \in [Side -> SUBSET Frame]
        /\ \A t \in Side : \A d \in deferredAck[t] : AckOK(Peer(t), d)
    BY DEF FlowInv, TypeOK, TypeAck, AcksOK, TakenAcksOK
  <2>2. CASE UNCHANGED <<ackVars, histVars, closed>>
    BY <1>2, <2>1, <2>2, NoAckFacts DEF ackVars
  <2>3. CASE /\ deferredAck' = [deferredAck EXCEPT ![s] = {}]
             /\ UNCHANGED <<globalAckOffset, globalAckFIN, histVars, closed>>
    <3>1. /\ deferredAck' \in [Side -> SUBSET Frame]
          /\ \A t \in Side : deferredAck'[t] \subseteq deferredAck[t]
      BY <2>1, <2>3
    <3> QED BY <1>2, <2>1, <2>3, <3>1, NoAckFacts
  <2>4. CASE \E d \in deferredAck[s] : ~AckRegresses(s, d) /\ ApplyAck(s, d, {})
    <3>1. \A d \in {} : AckOK(Peer(s), d)
      OBVIOUS
    <3> QED BY <1>2, <2>1, <2>4, <3>1, ApplyAckFacts
  <2> QED BY <1>3a, <2>2, <2>3, <2>4 DEF ApplyDeferred
<1>8. wire' \in [Side -> [Carrier -> Seq(Frame)]] /\ WireFramesOK' /\ UNCHANGED broken
  BY <1>1, <1>2, WireFramesStable DEF connVars, FlowInv, FramesOK, TypeOK, TypeConn
<1> QED BY <1>1, <1>2, <1>5, <1>6, <1>7, <1>8, AckStep

LEMMA ReceiveAckInv ==
  ASSUME FlowInv, NEW s \in Side, NEW c \in Carrier, ReceiveAck(s, c)
  PROVE  FlowInv'
<1>1. UNCHANGED <<started, done, readVars, writtenVars, recvVars,
                  remoteFINAckSent, carrierVars, pendingAck, broken, failures>>
  BY DEF ReceiveAck
<1>2. UNCHANGED Truth
  BY <1>1 DEF Truth, readVars, recvVars
<1>3. PICK a \in Frame : a = Incoming(s, c) /\ AckOK(Peer(s), a)
  BY <1>2, ReceiveFacts DEF ReceiveAck, FrameOK
<1>4. wire' \in [Side -> [Carrier -> Seq(Frame)]] /\ WireFramesOK'
  BY <1>2, ReceiveFacts DEF ReceiveAck
<1>5. /\ TypeAck' /\ TypeHist' /\ closed' \in [Side -> {"open", "nil", "err"}]
      /\ TakenAcksOK' /\ HistoryOK' /\ GracefulMeansDelivered'
      /\ \A t \in Side : history'[t] \subseteq history[t]
  <2>1. /\ deferredAck \in [Side -> SUBSET Frame]
        /\ \A t \in Side : \A d \in deferredAck[t] : AckOK(Peer(t), d)
    BY DEF FlowInv, TypeOK, TypeAck, AcksOK, TakenAcksOK
  <2>2. CASE UNCHANGED <<ackVars, histVars, closed>>
    BY <1>2, <2>1, <2>2, NoAckFacts DEF ackVars
  <2>3. CASE /\ deferredAck' = [deferredAck EXCEPT ![s] =
                                  IF AckRemembered(history[s], a) THEN DeferAck(@, a) ELSE @]
             /\ UNCHANGED <<globalAckOffset, globalAckFIN, histVars, closed>>
    <3>. PICK D \in SUBSET Frame :
           /\ deferredAck' = [deferredAck EXCEPT ![s] = D]
           /\ D \subseteq deferredAck[s] \cup {a}
      <4>. DEFINE D0 == IF AckRemembered(history[s], a) THEN DeferAck(deferredAck[s], a)
                                                       ELSE deferredAck[s]
      <4>1. D0 \subseteq deferredAck[s] \cup {a}
        BY DeferAckSubset
      <4>2. D0 \in SUBSET Frame
        BY <2>1, <4>1
      <4>3. deferredAck' = [deferredAck EXCEPT ![s] = D0]
        BY <2>1, <2>3
      <4> HIDE DEF D0
      <4> QED BY <4>1, <4>2, <4>3
    <3>1. /\ deferredAck' \in [Side -> SUBSET Frame]
          /\ \A t \in Side : deferredAck'[t] \subseteq
                               deferredAck[t] \cup (IF t = s THEN {a} ELSE {})
      BY <2>1
    <3> QED BY <1>2, <1>3, <2>1, <2>3, <3>1, NoAckFacts
  <2>4. CASE ~AckRegresses(s, a) /\ ApplyAck(s, a, deferredAck[s])
    BY <1>2, <1>3, <2>1, <2>4, ApplyAckFacts
  <2> QED BY <1>3, <2>2, <2>3, <2>4 DEF ReceiveAck, Acknowledge
<1>6. TypeWritten' /\ TypeCarrier' /\
      \A t \in Side, d \in Carrier : sending'[t][d] \subseteq sending[t][d]
  BY <1>1 DEF FlowInv, TypeOK, TypeWritten, TypeCarrier, writtenVars, carrierVars
<1> QED BY <1>1, <1>2, <1>4, <1>5, <1>6, AckStep

\* The next frame to deliver is a true stream frame of the peer; the rest stays.
LEMMA HeadInbound ==
  ASSUME FlowInv, NEW s \in Side, inbound[s] # <<>>,
         inbound' = [inbound EXCEPT ![s] = Tail(@)]
  PROVE  /\ Head(inbound[s]).frame \in Frame /\ Head(inbound[s]).src \in Carrier
         /\ StreamFrameOK(Peer(s), Head(inbound[s]).frame)
         /\ inbound' \in [Side -> Seq([src : Carrier, frame : Frame])]
         /\ \A t \in Side : \A i \in 1 .. Len(inbound'[t]) :
              /\ inbound'[t][i].frame \in Frame
              /\ StreamFrameOK(Peer(t), inbound'[t][i].frame)
<1>. PICK q \in Seq([src : Carrier, frame : Frame]) : q = inbound[s]
  BY DEF FlowInv, TypeOK, TypeRecv
<1>1. /\ Tail(q) \in Seq([src : Carrier, frame : Frame])
      /\ Head(q) = q[1] /\ 1 \in 1 .. Len(q)
      /\ \A i \in 1 .. Len(Tail(q)) : i + 1 \in 1 .. Len(q) /\ Tail(q)[i] = q[i + 1]
  BY TailFacts
<1>2. /\ inbound' \in [Side -> Seq([src : Carrier, frame : Frame])]
      /\ inbound'[s] = Tail(q)
      /\ \A t \in Side : t # s => inbound'[t] = inbound[t]
  BY <1>1 DEF FlowInv, TypeOK, TypeRecv
<1>3. \A t \in Side : \A i \in 1 .. Len(inbound[t]) :
         /\ inbound[t][i].frame \in Frame /\ inbound[t][i].src \in Carrier
         /\ StreamFrameOK(Peer(t), inbound[t][i].frame)
  BY InboundTypes DEF FlowInv, FramesOK, InboundFramesOK
<1>4. \A i \in 1 .. Len(inbound'[s]) :
         inbound'[s][i].frame \in Frame /\ StreamFrameOK(Peer(s), inbound'[s][i].frame)
  BY <1>1, <1>2, <1>3
<1>5. \A t \in Side : \A i \in 1 .. Len(inbound'[t]) :
              /\ inbound'[t][i].frame \in Frame
              /\ StreamFrameOK(Peer(t), inbound'[t][i].frame)
  BY <1>2, <1>3, <1>4
<1> QED BY <1>1, <1>2, <1>3, <1>5

\* Push or SetFIN, then DrainTo: the receiver moves forward along the stream of
\* its peer, so what was true of it stays true.
LEMMA AcceptFacts ==
  ASSUME FlowInv, NEW s \in Side, NEW src \in Carrier, NEW f \in Frame,
         StreamFrameOK(Peer(s), f), Accept(s, src, f),
         UNCHANGED <<offset, localFIN>>
  PROVE  \E m \in Nat, fin \in SUBSET Nat, acks \in SUBSET Frame, K \in SUBSET Nat :
           /\ nextOffset[s] <= m /\ m <= offset[Peer(s)]
           /\ \A b \in K : b < offset[Peer(s)]
           /\ \A o \in fin : localFIN[Peer(s)] /\ o = offset[Peer(s)]
           /\ FinReached(s) => m \in fin
           /\ acks \subseteq latestAck[s] \cup {AckFrame(m, m \in fin)}
           /\ nextOffset' = [nextOffset EXCEPT ![s] = m]
           /\ held' = [held EXCEPT ![s] = K]
           /\ finOffset' = [finOffset EXCEPT ![s] = fin]
           /\ latestAck' = [latestAck EXCEPT ![s] = acks]
           /\ delivering' = [delivering EXCEPT ![s] =
                {[pc |-> "ack", src |-> src, acks |-> acks,
                  carriers |-> Attached(s), finished |-> m \in fin]}]
<1> USE DEF FlowInv
<1>1. /\ nextOffset[s] \in Nat /\ offset[Peer(s)] \in Nat /\ held[s] \in SUBSET Nat
      /\ finOffset[s] \in SUBSET Nat /\ latestAck[s] \in SUBSET Frame
      /\ f.off \in Nat /\ f.end \in Nat
      /\ nextOffset[s] <= offset[Peer(s)]
      /\ \A b \in held[s] : b < offset[Peer(s)]
      /\ \A o \in finOffset[s] : localFIN[Peer(s)] /\ o = offset[Peer(s)]
  BY SMTT(30), PeerFacts DEF TypeOK, TypeRecv, TypeRead, ReceiverOK, Frame
<1>. PICK H : H = IF f.type = "DATA"
                    THEN held[s] \cup {b \in f.off .. (f.end - 1) : b >= nextOffset[s]}
                    ELSE held[s]
  OBVIOUS
<1>. PICK fin : fin = IF f.type = "FIN" THEN {f.off} ELSE finOffset[s]
  OBVIOUS
<1>2. H \in SUBSET Nat /\ \A b \in H : b < offset[Peer(s)]
  BY <1>1 DEF StreamFrameOK, FrameOK
<1>3. /\ fin \in SUBSET Nat
      /\ \A o \in fin : localFIN[Peer(s)] /\ o = offset[Peer(s)]
      /\ finOffset[s] # {} => offset[Peer(s)] \in fin
  BY <1>1 DEF StreamFrameOK, FrameOK
<1>4. Cardinality(H) \in Nat
  <2>1. H \subseteq 0 .. offset[Peer(s)]
    BY <1>1, <1>2
  <2> HIDE DEF FlowInv
  <2>2. IsFiniteSet(0 .. offset[Peer(s)])
    <3>1. 0 \in Int /\ offset[Peer(s)] \in Int
      BY <1>1
    <3> QED BY <3>1, FS_Interval
  <2>3. IsFiniteSet(H)
    BY <2>1, <2>2, FS_Subset
  <2> QED BY <2>3, FS_CardinalityType
<1>5. PICK m \in nextOffset[s] .. (nextOffset[s] + Cardinality(H)) :
       /\ (nextOffset[s] .. (m - 1)) \subseteq H /\ m \notin H
       /\ nextOffset' = [nextOffset EXCEPT ![s] = m]
       /\ held' = [held EXCEPT ![s] = {b \in H : b >= m}]
       /\ finOffset' = [finOffset EXCEPT ![s] = fin]
       /\ LET acks == LaterAck(latestAck[s], AckFrame(m, m \in fin))
          IN /\ latestAck' = [latestAck EXCEPT ![s] = acks]
             /\ delivering' = [delivering EXCEPT ![s] =
                  {[pc |-> "ack", src |-> src, acks |-> acks,
                    carriers |-> Attached(s), finished |-> m \in fin]}]
  BY DEF Accept
<1>6. m \in Nat /\ nextOffset[s] <= m
  BY <1>1, <1>4, <1>5
<1>7. m <= offset[Peer(s)]
  <2>1. CASE m = nextOffset[s]
    BY <1>1, <2>1
  <2>2. CASE m > nextOffset[s]
    <3>1. m - 1 \in nextOffset[s] .. (m - 1)
      BY <1>1, <1>6, <2>2
    <3>2. m - 1 < offset[Peer(s)]
      BY <1>2, <1>5, <3>1
    <3> QED BY <1>1, <1>6, <3>2
  <2> QED BY <1>1, <1>6, <2>1, <2>2
<1>8. FinReached(s) => m \in fin
  <2>1. FinReached(s) => nextOffset[s] = offset[Peer(s)] /\ offset[Peer(s)] \in fin
    BY <1>1, <1>3 DEF FinReached
  <2> QED BY <1>1, <1>6, <1>7, <2>1
<1>9. PICK acks \in SUBSET Frame :
        /\ acks = LaterAck(latestAck[s], AckFrame(m, m \in fin))
        /\ acks \subseteq latestAck[s] \cup {AckFrame(m, m \in fin)}
  <2>1. AckFrame(m, m \in fin) \in Frame
    <3>1. (m \in fin) \in BOOLEAN
      OBVIOUS
    <3> QED BY <1>6, <3>1, FrameTypes
  <2> QED BY <1>1, <2>1, LaterAckSubset
<1>10. PICK K \in SUBSET Nat : K = {b \in H : b >= m}
  BY <1>2
<1>11. \A b \in K : b < offset[Peer(s)]
  BY <1>2, <1>10
<1>12. /\ nextOffset' = [nextOffset EXCEPT ![s] = m]
       /\ held' = [held EXCEPT ![s] = K]
       /\ finOffset' = [finOffset EXCEPT ![s] = fin]
       /\ latestAck' = [latestAck EXCEPT ![s] = acks]
       /\ delivering' = [delivering EXCEPT ![s] =
            {[pc |-> "ack", src |-> src, acks |-> acks,
              carriers |-> Attached(s), finished |-> m \in fin]}]
  BY <1>5, <1>9, <1>10
<1> HIDE DEF FlowInv
<1>. m \in Nat /\ fin \in SUBSET Nat
  BY <1>3, <1>6
<1>. WITNESS m \in Nat, fin \in SUBSET Nat, acks \in SUBSET Frame, K \in SUBSET Nat
<1> QED BY <1>3, <1>6, <1>7, <1>8, <1>9, <1>11, <1>12

LEMMA DeliverInv ==
  ASSUME FlowInv, NEW s \in Side, Deliver(s)
  PROVE  FlowInv'
<1> USE DEF FlowInv, AcksOK, FramesOK
<1>1. UNCHANGED <<started, done, readVars, histVars, ackVars, writtenVars,
                  remoteFIN, remoteFINAckSent, carrierVars, pendingAck,
                  connVars, failures>>
  BY DEF Deliver
<1>. PICK f, src : f = Head(inbound[s]).frame /\ src = Head(inbound[s]).src
  OBVIOUS
<1>2. /\ f \in Frame /\ src \in Carrier /\ StreamFrameOK(Peer(s), f)
      /\ inbound' \in [Side -> Seq([src : Carrier, frame : Frame])]
      /\ \A t \in Side : \A i \in 1 .. Len(inbound'[t]) :
              /\ inbound'[t][i].frame \in Frame
              /\ StreamFrameOK(Peer(t), inbound'[t][i].frame)
  <2>1. inbound[s] # <<>> /\ inbound' = [inbound EXCEPT ![s] = Tail(@)]
    BY DEF Deliver
  <2> HIDE DEF FlowInv
  <2> QED BY <2>1, HeadInbound
<1>3. CASE Refused(s, f)
  <2>1. /\ UNCHANGED <<delivering, nextOffset, held, finOffset, latestAck>>
        /\ ClaimIf(s, TRUE, "err")
    BY <1>3 DEF Deliver, ClaimIf
  <2>2. UNCHANGED Truth
    BY <1>1, <2>1 DEF Truth, readVars
  <2>3. /\ closed' \in [Side -> {"open", "nil", "err"}]
        /\ \A t \in Side : closed'[t] = closed[t] \/ closed'[t] = "err"
        /\ \A t \in Side : closed'[t] = "open" => closed[t] = "open"
    BY <2>1, ClaimFacts DEF TypeOK
  <2>4. TypeOK'
    BY <1>1, <1>2, <2>1, <2>3 DEF TypeOK, TypeFlow, TypeRead, TypeHist, TypeAck,
       TypeWritten, TypeRecv, TypeCarrier, TypeConn,
       readVars, histVars, ackVars, writtenVars, carrierVars, connVars
  <2>5. KeptFramesOK' /\ WireFramesOK'
    BY <1>1, <2>2, KeptFramesStable, WireFramesStable DEF readVars, histVars, carrierVars, connVars
  <2>6. InboundFramesOK'
    BY <1>2, <2>2, StableFacts, PeerFacts DEF InboundFramesOK
  <2>7. AcksOK' /\ ReceiverOK'
    BY <1>1, <2>1, <2>2, KeptAcksStable, TakenAcksStable, ReceiverStable
  <2>8. HistoryOK' /\ GracefulMeansDelivered'
    BY <1>1, <2>2, <2>3, HistoryStable, GracefulStable DEF histVars
  <2> QED BY <2>4, <2>5, <2>6, <2>7, <2>8
<1>4. CASE ~Refused(s, f)
  <2>1. Accept(s, src, f) /\ UNCHANGED <<closed, offset, localFIN>>
    BY <1>1, <1>4 DEF Deliver, readVars
  <2>2. PICK m \in Nat, fin \in SUBSET Nat, acks \in SUBSET Frame, K \in SUBSET Nat :
           /\ nextOffset[s] <= m /\ m <= offset[Peer(s)]
           /\ \A b \in K : b < offset[Peer(s)]
           /\ \A o \in fin : localFIN[Peer(s)] /\ o = offset[Peer(s)]
           /\ FinReached(s) => m \in fin
           /\ acks \subseteq latestAck[s] \cup {AckFrame(m, m \in fin)}
           /\ nextOffset' = [nextOffset EXCEPT ![s] = m]
           /\ held' = [held EXCEPT ![s] = K]
           /\ finOffset' = [finOffset EXCEPT ![s] = fin]
           /\ latestAck' = [latestAck EXCEPT ![s] = acks]
           /\ delivering' = [delivering EXCEPT ![s] =
                {[pc |-> "ack", src |-> src, acks |-> acks,
                  carriers |-> Attached(s), finished |-> m \in fin]}]
    <3> HIDE DEF FlowInv
    <3> QED BY <1>2, <2>1, AcceptFacts
  <2>. PICK d \in Delivery :
         /\ d = [pc |-> "ack", src |-> src, acks |-> acks,
                 carriers |-> Attached(s), finished |-> m \in fin]
         /\ d.acks = acks /\ (d.finished <=> m \in fin)
    <3>1. (m \in fin) \in BOOLEAN /\ Attached(s) \in SUBSET Carrier
      BY DEF Attached
    <3>2. [pc |-> "ack", src |-> src, acks |-> acks,
           carriers |-> Attached(s), finished |-> m \in fin] \in Delivery
      BY <1>2, <3>1 DEF Delivery
    <3> QED BY <3>2
  <2>3. /\ nextOffset' \in [Side -> Nat] /\ held' \in [Side -> SUBSET Nat]
        /\ finOffset' \in [Side -> SUBSET Nat] /\ latestAck' \in [Side -> SUBSET Frame]
        /\ delivering' \in [Side -> SUBSET Delivery]
        /\ nextOffset'[s] = m /\ held'[s] = K /\ finOffset'[s] = fin
        /\ latestAck'[s] = acks /\ delivering'[s] = {d}
        /\ \A t \in Side : t # s =>
             /\ nextOffset'[t] = nextOffset[t] /\ held'[t] = held[t]
             /\ finOffset'[t] = finOffset[t] /\ latestAck'[t] = latestAck[t]
             /\ delivering'[t] = delivering[t]
    BY <2>2 DEF TypeOK, TypeRecv
  <2>4. TypeOK'
    BY <1>1, <1>2, <2>1, <2>3 DEF TypeOK, TypeFlow, TypeRead, TypeHist, TypeAck,
       TypeWritten, TypeRecv, TypeCarrier, TypeConn,
       readVars, histVars, ackVars, writtenVars, carrierVars, connVars
  <2>5. \A t \in Side : /\ FinReached(t) => FinReached(t)'
                        /\ nextOffset[t] <= nextOffset'[t]
                        /\ FinReached(t) => nextOffset'[t] = nextOffset[t]
    <3>1. nextOffset[s] \in Nat /\ offset[Peer(s)] \in Nat
      BY PeerFacts DEF TypeOK, TypeRecv, TypeRead
    <3>2. FinReached(s) => nextOffset[s] = offset[Peer(s)]
      BY DEF FinReached, ReceiverOK
    <3>3. \A t \in Side : nextOffset[t] \in Nat
      BY DEF TypeOK, TypeRecv
    <3> QED BY <2>2, <2>3, <3>1, <3>2, <3>3 DEF FinReached
  <2>6. \A t \in Side, a \in Frame : AckOK(t, a) => AckOK(t, a)'
    <3>1. \A t \in Side : nextOffset[t] \in Nat /\ nextOffset'[t] \in Nat
      BY <2>3 DEF TypeOK, TypeRecv
    <3> QED BY <2>5, <3>1 DEF AckOK, Frame
  <2>7. \A t \in Side, g \in Frame : /\ FrameOK(t, g) => FrameOK(t, g)'
                                     /\ StreamFrameOK(t, g) => StreamFrameOK(t, g)'
    BY <2>1, <2>6 DEF FrameOK, StreamFrameOK
  <2>8. KeptFramesOK'
    <3>1. \A t \in Side : /\ \A h \in history[t] : h.frame \in Frame
                          /\ \A w \in waiting[t] : w.frame \in Frame
                          /\ \A c \in Carrier : \A x \in sending[t][c] : x.frame \in Frame
      BY DEF TypeOK, TypeHist, TypeRead, TypeCarrier, Entry, InFlight
    <3> QED BY <1>1, <2>7, <3>1 DEF KeptFramesOK, readVars, histVars, carrierVars
  <2>9. WireFramesOK'
    BY <1>1, <2>7 DEF WireFramesOK, TypeOK, TypeConn, connVars
  <2>10. InboundFramesOK'
    BY <1>2, <2>7, PeerFacts DEF InboundFramesOK
  <2>11. KeptAcksOK'
    <3>1. AckOK(s, AckFrame(m, m \in fin))'
      BY <2>3 DEF AckOK, AckFrame, FinReached
    <3>2. \A a \in acks : AckOK(s, a)'
      BY <2>2, <2>6, <3>1 DEF KeptAcksOK
    <3>3. \A t \in Side : /\ \A a \in latestAck'[t] : AckOK(t, a)'
                          /\ \A x \in delivering'[t] : \A a \in x.acks : AckOK(t, a)'
      <4>1. \A t \in Side : /\ latestAck[t] \subseteq Frame
                            /\ \A x \in delivering[t] : x.acks \subseteq Frame
        BY DEF TypeOK, TypeRecv, Delivery
      <4>2. \A t \in Side : t # s =>
              /\ \A a \in latestAck'[t] : AckOK(t, a)'
              /\ \A x \in delivering'[t] : \A a \in x.acks : AckOK(t, a)'
        BY <2>3, <2>6, <4>1 DEF KeptAcksOK
      <4> QED BY <2>3, <3>2, <4>2
    <3>4. \A t \in Side, c \in Carrier : \A a \in pendingAck'[t][c] : AckOK(t, a)'
      BY <1>1, <2>6 DEF KeptAcksOK, TypeOK
    <3> QED BY <3>3, <3>4 DEF KeptAcksOK
  <2>12. TakenAcksOK'
    <3>1. \A t \in Side : /\ globalAckOffset[t] \in Nat /\ deferredAck[t] \subseteq Frame
                          /\ nextOffset[t] \in Nat /\ nextOffset'[t] \in Nat
      BY <2>3 DEF TypeOK, TypeAck, TypeRecv
    <3> QED BY <1>1, <2>5, <2>6, <3>1, PeerFacts DEF TakenAcksOK, ackVars
  <2>13. ReceiverOK'
    <3>1. \A x \in delivering'[s] : x.finished => FinReached(s)'
      BY <2>3 DEF FinReached
    <3> SUFFICES ASSUME NEW t \in Side
                 PROVE  /\ nextOffset'[t] <= offset[Peer(t)]
                        /\ \A b \in held'[t] : b < offset[Peer(t)]
                        /\ \A o \in finOffset'[t] : localFIN[Peer(t)] /\ o = offset[Peer(t)]
                        /\ localFIN[t] => offset[t] = Total[t]
                        /\ remoteFIN[t] => FinReached(t)'
                        /\ \A x \in delivering'[t] : x.finished => FinReached(t)'
      BY <1>1, <2>1, PeerFacts DEF ReceiverOK
    <3>2. CASE t = s
      BY <2>2, <2>3, <2>5, <3>1, <3>2 DEF ReceiverOK
    <3>3. CASE t # s
      BY <2>3, <2>5, <3>3 DEF ReceiverOK
    <3> QED BY <3>2, <3>3
  <2>14. HistoryOK'
    BY <1>1, <2>1 DEF HistoryOK, histVars, ackVars
  <2>15. GracefulMeansDelivered'
    <3>1. \A t \in Side : Delivered(t) => Delivered(t)'
      <4> SUFFICES ASSUME NEW t \in Side, Delivered(t) PROVE Delivered(t)'
        OBVIOUS
      <4>1. FinReached(Peer(t)) /\ nextOffset[Peer(t)] = offset[t]
        BY DEF Delivered, FinReached
      <4>2. FinReached(Peer(t))' /\ nextOffset'[Peer(t)] = offset[t]
        BY <2>5, <4>1, PeerFacts
      <4> QED BY <2>1, <4>2 DEF Delivered, FinReached
    <3> QED BY <2>1, <3>1, PeerFacts DEF GracefulMeansDelivered
  <2> QED BY <2>4, <2>8, <2>9, <2>10, <2>11, <2>12, <2>13, <2>14, <2>15
<1> QED BY <1>3, <1>4

-----------------------------------------------------------------------------
(* The theorems.                                                           *)

LEMMA InitInv == Init => FlowInv
<1> SUFFICES ASSUME Init PROVE FlowInv
  OBVIOUS
<1>1. TypeFlow /\ TypeRead /\ TypeHist /\ TypeAck /\ TypeWritten
  BY ConstantsAssumption DEF Init, TypeFlow, TypeRead, TypeHist, TypeAck, TypeWritten
<1>2. TypeRecv
  <2>1. <<>> \in Seq([src : Carrier, frame : Frame])
    OBVIOUS
  <2> QED BY <2>1 DEF Init, TypeRecv
<1>3. TypeCarrier
  BY DEF Init, TypeCarrier, Status
<1>4. TypeConn
  <2>1. <<>> \in Seq(Frame)
    OBVIOUS
  <2> QED BY <2>1 DEF Init, TypeConn
<1>5. TypeOK
  BY <1>1, <1>2, <1>3, <1>4 DEF Init, TypeOK
<1>6. Len(<<>>) = 0 /\ \A i \in 1 .. 0 : FALSE
  OBVIOUS
<1>7. FramesOK
  BY <1>6 DEF Init, FramesOK, KeptFramesOK, WireFramesOK, InboundFramesOK
<1>8. AcksOK /\ ReceiverOK
  BY PeerFacts DEF Init, AcksOK, KeptAcksOK, TakenAcksOK, ReceiverOK
<1>9. HistoryOK /\ GracefulMeansDelivered
  BY DEF Init, HistoryOK, GracefulMeansDelivered
<1> QED BY <1>5, <1>7, <1>8, <1>9 DEF FlowInv

LEMMA StutterInv == FlowInv /\ UNCHANGED vars => FlowInv'
<1> SUFFICES ASSUME FlowInv, UNCHANGED vars PROVE FlowInv'
  OBVIOUS
<1> USE DEF FlowInv, FramesOK, AcksOK, vars
<1>1. UNCHANGED Truth
  BY DEF Truth, readVars, recvVars
<1>2. TypeOK'
  BY DEF TypeOK, TypeFlow, TypeRead, TypeHist, TypeAck, TypeWritten, TypeRecv,
     TypeCarrier, TypeConn, flowVars, readVars, histVars, ackVars, writtenVars,
     recvVars, carrierVars, connVars
<1>3. FramesOK'
  BY <1>1, KeptFramesStable, WireFramesStable, InboundFramesStable
     DEF readVars, histVars, recvVars, carrierVars, connVars
<1>4. AcksOK' /\ ReceiverOK'
  BY <1>1, KeptAcksStable, TakenAcksStable, ReceiverStable DEF recvVars
<1>5. HistoryOK' /\ GracefulMeansDelivered'
  BY <1>1, HistoryStable, GracefulStable DEF flowVars, histVars
<1> QED BY <1>2, <1>3, <1>4, <1>5

\* Every step of a goroutine, a carrier or the environment keeps the invariant.
LEMMA NextInv == FlowInv /\ [Next]_vars => FlowInv'
<1> SUFFICES ASSUME FlowInv, Next PROVE FlowInv'
  BY StutterInv
<1>1. ASSUME NEW s \in Side, FlowStep(s) PROVE FlowInv'
  BY <1>1, StartInv, ReadDataInv, RememberDataInv, ReadEOFInv, ReadNoCarriersInv, BroadcastReturnsInv,
     BroadcastNoCarriersInv, DeliverInv, SendAckInv, FinishDeliveryInv, FinishResetInv
     DEF FlowStep, ReadEndpoint, WriteEndpoint
<1>2. ASSUME NEW s \in Side, NEW c \in Carrier, CarrierStep(s, c) PROVE FlowInv'
  BY <1>2, AttachInv, AttachRejectedInv, PickFrameInv, CommitFrameInv, ReceiveAckInv,
     EnqueueInboundInv, ReceiveRSTInv, DetachInv, WriteFrameInv, WriteAckInv, StopInv
     DEF CarrierStep, SendCarrier, ProcessLoop, ReadLoop
<1>3. ASSUME Failure PROVE FlowInv'
  BY <1>3, BreakInv, CloseCarrierInv, ResetFlowInv DEF Failure
<1> QED BY <1>1, <1>2, <1>3, OpenInv DEF Next, Progress

\* The inductive invariant: frames and acknowledgements in any queue, slot or
\* connection are true of the side that made them, and the replay history
\* covers everything unacknowledged (broadcast, acknowledge, deliverInbound).
THEOREM Invariance == Spec => []FlowInv
<1>1. Init => FlowInv
  BY InitInv
<1>2. FlowInv /\ [Next]_vars => FlowInv'
  BY NextInv
<1> QED BY <1>1, <1>2, PTL DEF Spec

\* Type correctness of both flows, their carriers and their connections, for
\* every set of carriers, amount of data, window and number of failures.
THEOREM TypeCorrect == Spec => []TypeOK
<1>1. FlowInv => TypeOK
  BY DEF FlowInv
<1> QED BY <1>1, Invariance, PTL

\* What the history covers of the stream is at least what the peer lacks.
LEMMA NothingForgottenFromInv == FlowInv => NothingForgotten
<1> SUFFICES ASSUME FlowInv, NEW s \in Side
             PROVE  /\ \A b \in 0 .. (offset[s] - 1) : b >= nextOffset[Peer(s)] =>
                         \E h \in history[s] : h.frame.off <= b /\ b < h.frame.end
                    /\ localFIN[s] /\ ~Delivered(s) /\ closed[s] = "open" =>
                         \E h \in history[s] : h.frame.type = "FIN"
  BY DEF NothingForgotten
<1>1. /\ globalAckOffset[s] \in Nat /\ nextOffset[Peer(s)] \in Nat /\ offset[s] \in Nat
      /\ globalAckOffset[s] <= nextOffset[Peer(s)]
      /\ globalAckFIN[s] => FinReached(Peer(s))
  BY PeerFacts DEF FlowInv, TypeOK, TypeAck, TypeRecv, TypeRead, AcksOK, TakenAcksOK
<1>2. ASSUME NEW b \in 0 .. (offset[s] - 1), b >= nextOffset[Peer(s)]
      PROVE  \E h \in history[s] : h.frame.off <= b /\ b < h.frame.end
  BY <1>1, <1>2 DEF FlowInv, HistoryOK
<1>3. ASSUME localFIN[s], ~Delivered(s), closed[s] = "open"
      PROVE  \E h \in history[s] : h.frame.type = "FIN"
  <2>1. ~FinReached(Peer(s))
    BY <1>3, PeerFacts DEF FlowInv, ReceiverOK, FinReached, Delivered
  <2> QED BY <1>1, <1>3, <2>1 DEF FlowInv, HistoryOK
<1> QED BY <1>2, <1>3

\* pruneHistoryLocked and acknowledge: whatever carriers are lost and however
\* ACKs are delayed or overtaken, a byte or FIN that the peer's endpoint has
\* not received is still in the replay history.
THEOREM NothingIsForgotten == Spec => []NothingForgotten
BY Invariance, NothingForgottenFromInv, PTL

\* completeLocked and the resets for want of carriers: a flow that ends without
\* an error has had both directions delivered to the end.
THEOREM GracefulIsDelivered == Spec => []GracefulMeansDelivered
<1>1. FlowInv => GracefulMeansDelivered
  BY DEF FlowInv
<1> QED BY <1>1, Invariance, PTL

-----------------------------------------------------------------------------
(* The order of the frames, on the invariant above: every copy of the      *)
(* stream arrives in order and complete, the history is bounded, the       *)
(* stream survives the loss of carriers, and the two flows implement       *)
(* RelayedStream.                                                          *)

(* Counting the elements of intervals and of unions.                       *)

LEMMA DisjointUnion ==
  ASSUME NEW S, NEW T, IsFiniteSet(S), IsFiniteSet(T), S \cap T = {}
  PROVE  /\ Cardinality(S \cup T) = Cardinality(S) + Cardinality(T)
         /\ Cardinality(S) \in Nat /\ Cardinality(T) \in Nat
<1>1. Cardinality(S \cup T) = Cardinality(S) + Cardinality(T) - Cardinality(S \cap T)
  BY FS_Union
<1>2. Cardinality(S \cap T) = 0
  BY FS_EmptySet
<1>3. Cardinality(S) \in Nat /\ Cardinality(T) \in Nat
  BY FS_CardinalityType
<1> QED BY <1>1, <1>2, <1>3

LEMMA BoundedSet ==
  ASSUME NEW n \in Nat, NEW B, \A b \in B : b \in 0 .. n
  PROVE  IsFiniteSet(B) /\ Cardinality(B) \in Nat
<1>1. IsFiniteSet(0 .. n)
  BY FS_Interval
<1>2. B \in SUBSET (0 .. n)
  OBVIOUS
<1> QED BY <1>1, <1>2, FS_Subset, FS_CardinalityType

LEMMA RangeSize ==
  ASSUME NEW a \in Nat, NEW b \in Nat, a <= b
  PROVE  IsFiniteSet(a .. (b - 1)) /\ Cardinality(a .. (b - 1)) = b - a
<1>1. a \in Int /\ b - 1 \in Int
  OBVIOUS
<1>2. /\ IsFiniteSet(a .. (b - 1))
      /\ Cardinality(a .. (b - 1)) = IF a > b - 1 THEN 0 ELSE (b - 1) - a + 1
  BY <1>1, FS_Interval
<1> QED BY <1>2

-----------------------------------------------------------------------------
(* The types that the arguments below keep needing.                        *)

LEMMA EntryFacts ==
  ASSUME FlowInv, NEW s \in Side, NEW h \in history[s]
  PROVE  /\ h \in Entry /\ h.seq \in Nat /\ h.frame \in Frame
         /\ h.frame.off \in Nat /\ h.frame.end \in Nat
         /\ InStream(h.frame) /\ h.frame.off <= h.frame.end /\ h.frame.end <= offset[s]
         /\ h.frame.type = "DATA" => h.frame.off < h.frame.end
         /\ h.frame.type = "FIN" => localFIN[s] /\ h.frame.off = offset[s]
         /\ offset[s] \in Nat
<1>1. h \in Entry /\ StreamFrameOK(s, h.frame) /\ offset[s] \in Nat
  BY DEF FlowInv, TypeOK, TypeHist, TypeRead, FramesOK, KeptFramesOK
<1>2. h.seq \in Nat /\ h.frame \in Frame
  BY <1>1 DEF Entry
<1>3. h.frame.off \in Nat /\ h.frame.end \in Nat
  BY <1>2 DEF Frame
<1> QED BY <1>1, <1>2, <1>3 DEF InStream, StreamFrameOK, FrameOK

LEMMA NatFacts ==
  ASSUME FlowInv, NEW s \in Side
  PROVE  /\ offset[s] \in Nat /\ nextOffset[s] \in Nat /\ nextSequence[s] \in Nat
         /\ read[s] \in Nat /\ globalAckOffset[s] \in Nat /\ globalAckFIN[s] \in BOOLEAN
         /\ history[s] \in SUBSET Entry /\ historyBytes[s] \in Int
         /\ held[s] \in SUBSET Nat /\ finOffset[s] \in SUBSET Nat
         /\ inbound[s] \in Seq([src : Carrier, frame : Frame])
         /\ localFIN[s] \in BOOLEAN /\ ChunkSize \in Nat /\ Window[s] \in Nat
         /\ \A c \in Carrier : /\ wire[s][c] \in Seq(Frame)
                               /\ carrierNext[s][c] \in Nat
                               /\ sending[s][c] \in SUBSET InFlight
<1>1. TypeOK
  BY DEF FlowInv
<1>2. /\ offset[s] \in Nat /\ nextSequence[s] \in Nat /\ read[s] \in Nat
      /\ localFIN[s] \in BOOLEAN
  BY <1>1 DEF TypeOK, TypeRead
<1>3. /\ globalAckOffset[s] \in Nat /\ globalAckFIN[s] \in BOOLEAN
      /\ history[s] \in SUBSET Entry /\ historyBytes[s] \in Int
  BY <1>1 DEF TypeOK, TypeAck, TypeHist
<1>4. /\ nextOffset[s] \in Nat /\ held[s] \in SUBSET Nat /\ finOffset[s] \in SUBSET Nat
      /\ inbound[s] \in Seq([src : Carrier, frame : Frame])
  BY <1>1 DEF TypeOK, TypeRecv
<1>5. ASSUME NEW c \in Carrier
      PROVE  /\ wire[s][c] \in Seq(Frame) /\ carrierNext[s][c] \in Nat
             /\ sending[s][c] \in SUBSET InFlight
  BY <1>1 DEF TypeOK, TypeConn, TypeCarrier
<1>6. ChunkSize \in Nat /\ Window[s] \in Nat
  BY ConstantsAssumption
<1> QED BY <1>2, <1>3, <1>4, <1>5, <1>6

-----------------------------------------------------------------------------
(* Sequence numbers.                                                       *)

\* Remember, taken apart: one new entry, the last of the history.
LEMMA RememberFacts ==
  ASSUME FlowInv, NEW s \in Side, NEW f \in Frame, Remember(s, f)
  PROVE  \E e \in Entry :
           /\ e.seq = nextSequence[s] /\ e.frame = f
           /\ history'[s] = history[s] \cup {e}
           /\ nextSequence'[s] = nextSequence[s] + 1
           /\ historyBytes'[s] = historyBytes[s] + (f.end - f.off)
           /\ historyBytes'[s] <= Window[s]
           /\ \A t \in Side : t # s => /\ history'[t] = history[t]
                                       /\ nextSequence'[t] = nextSequence[t]
                                       /\ historyBytes'[t] = historyBytes[t]
<1>. PICK e \in Entry : e = [seq |-> nextSequence[s], frame |-> f]
  BY NatFacts DEF Entry
<1>1. /\ history' = [history EXCEPT ![s] = @ \cup {e}]
      /\ historyBytes' = [historyBytes EXCEPT ![s] = @ + (f.end - f.off)]
      /\ nextSequence' = [nextSequence EXCEPT ![s] = @ + 1]
      /\ historyBytes[s] + (f.end - f.off) <= Window[s]
  BY DEF Remember
<1>2. /\ history \in [Side -> SUBSET Entry] /\ historyBytes \in [Side -> Int]
      /\ nextSequence \in [Side -> Nat]
  BY DEF FlowInv, TypeOK, TypeHist, TypeRead
<1> QED BY <1>1, <1>2

LEMMA HistorySeqStable ==
  ASSUME HistorySeqOK, UNCHANGED nextSequence,
         \A t \in Side : history'[t] \subseteq history[t]
  PROVE  HistorySeqOK'
<1> SUFFICES ASSUME NEW t \in Side, NEW g \in history'[t], NEW h \in history'[t]
             PROVE  /\ g.seq < nextSequence[t]
                    /\ g.seq = h.seq => g = h
                    /\ g.seq < h.seq => g.frame.type = "DATA" /\ g.frame.end <= h.frame.off
  BY DEF HistorySeqOK
<1> QED BY DEF HistorySeqOK

\* What readEndpoint may remember: data at its offset, or the FIN, once.
NewFrame(s, f) ==
  /\ f.type = "DATA" \/ f.type = "FIN"
  /\ f.off = offset[s] /\ ~localFIN[s]
  /\ IF f.type = "DATA" THEN f.off < f.end ELSE f.end = f.off

LEMMA HistorySeqGrows ==
  ASSUME FlowInv, HistorySeqOK, NEW s \in Side, NEW f \in Frame,
         NewFrame(s, f), Remember(s, f)
  PROVE  HistorySeqOK'
<1>. PICK e \in Entry :
           /\ e.seq = nextSequence[s] /\ e.frame = f
           /\ history'[s] = history[s] \cup {e}
           /\ nextSequence'[s] = nextSequence[s] + 1
           /\ \A t \in Side : t # s => /\ history'[t] = history[t]
                                       /\ nextSequence'[t] = nextSequence[t]
  BY RememberFacts
<1> SUFFICES ASSUME NEW t \in Side, NEW g \in history'[t], NEW h \in history'[t]
             PROVE  /\ g.seq < nextSequence'[t]
                    /\ g.seq = h.seq => g = h
                    /\ g.seq < h.seq => g.frame.type = "DATA" /\ g.frame.end <= h.frame.off
  BY DEF HistorySeqOK
<1>1. CASE t # s
  BY <1>1 DEF HistorySeqOK
<1>2. CASE t = s
  <2>1. nextSequence[s] \in Nat
    BY NatFacts
  <2>2. ASSUME NEW x \in history[s]
        PROVE  /\ x.seq \in Nat /\ x.seq < e.seq
               /\ x.frame.type = "DATA" /\ x.frame.end <= f.off
    BY EntryFacts DEF NewFrame, HistorySeqOK, InStream
  <2>3. CASE g = e /\ h = e
    BY <1>2, <2>1, <2>3
  <2>4. CASE g \in history[s] /\ h = e
    BY <1>2, <2>1, <2>2, <2>4
  <2>5. CASE g = e /\ h \in history[s]
    BY <1>2, <2>1, <2>2, <2>5
  <2>6. CASE g \in history[s] /\ h \in history[s]
    <3>1. g.seq < e.seq
      BY <2>2, <2>6
    <3>2. g.seq < nextSequence[s] + 1
      BY <2>1, <2>2, <2>6
    <3> QED BY <1>2, <2>6, <3>2 DEF HistorySeqOK
  <2> QED BY <1>2, <2>3, <2>4, <2>5, <2>6
<1> QED BY <1>1, <1>2

\* sendCarrier's frames: a carrier that changes is emptied or keeps its frames.
LEMMA SendingSeqStable ==
  ASSUME SendingSeqOK, UNCHANGED nextSequence,
         \A t \in Side : history'[t] \subseteq history[t],
         \A t \in Side, d \in Carrier :
           \/ sending'[t][d] = {} /\ carrierNext'[t][d] <= nextSequence[t]
           \/ /\ carrierNext'[t][d] = carrierNext[t][d]
              /\ status'[t][d] \in {"none", "opening", "refused"} =>
                   status[t][d] \in {"none", "opening", "refused"}
              /\ \A y \in sending'[t][d] : \E x \in sending[t][d] :
                   y.seq = x.seq /\ y.frame = x.frame
  PROVE  SendingSeqOK'
<1> SUFFICES ASSUME NEW t \in Side, NEW d \in Carrier
             PROVE  /\ carrierNext'[t][d] <= nextSequence[t]
                    /\ status'[t][d] \in {"none", "opening", "refused"} => sending'[t][d] = {}
                    /\ \A x \in sending'[t][d] :
                         /\ x.seq < nextSequence[t]
                         /\ \A g \in history'[t] :
                              /\ g.seq = x.seq => g.frame = x.frame
                              /\ g.seq < x.seq => g.seq < carrierNext'[t][d]
  BY DEF SendingSeqOK
<1>1. CASE sending'[t][d] = {} /\ carrierNext'[t][d] <= nextSequence[t]
  BY <1>1
<1>2. CASE /\ carrierNext'[t][d] = carrierNext[t][d]
           /\ status'[t][d] \in {"none", "opening", "refused"} =>
                   status[t][d] \in {"none", "opening", "refused"}
           /\ \A y \in sending'[t][d] : \E x \in sending[t][d] :
                   y.seq = x.seq /\ y.frame = x.frame
  BY <1>2 DEF SendingSeqOK
<1> QED BY <1>1, <1>2

LEMMA SendingSeqGrows ==
  ASSUME FlowInv, SendingSeqOK, NEW s \in Side, NEW f \in Frame, Remember(s, f),
         UNCHANGED <<status, carrierNext, sending>>
  PROVE  SendingSeqOK'
<1>. PICK e \in Entry :
           /\ e.seq = nextSequence[s] /\ e.frame = f
           /\ history'[s] = history[s] \cup {e}
           /\ nextSequence'[s] = nextSequence[s] + 1
           /\ \A t \in Side : t # s => /\ history'[t] = history[t]
                                       /\ nextSequence'[t] = nextSequence[t]
  BY RememberFacts
<1> SUFFICES ASSUME NEW t \in Side, NEW d \in Carrier
             PROVE  /\ carrierNext[t][d] <= nextSequence'[t]
                    /\ status[t][d] \in {"none", "opening", "refused"} => sending[t][d] = {}
                    /\ \A x \in sending[t][d] :
                         /\ x.seq < nextSequence'[t]
                         /\ \A g \in history'[t] :
                              /\ g.seq = x.seq => g.frame = x.frame
                              /\ g.seq < x.seq => g.seq < carrierNext[t][d]
  BY DEF SendingSeqOK
<1>1. CASE t # s
  BY <1>1 DEF SendingSeqOK
<1>2. CASE t = s
  <2>1. nextSequence[s] \in Nat /\ carrierNext[s][d] \in Nat
    BY NatFacts
  <2>2. \A x \in sending[s][d] : x.seq \in Nat /\ x.seq < nextSequence[s]
    BY NatFacts DEF InFlight, SendingSeqOK
  <2>3. carrierNext[s][d] <= nextSequence[s]
    BY DEF SendingSeqOK
  <2>4. \A x \in sending[s][d], g \in history'[s] :
           /\ g.seq = x.seq => g.frame = x.frame
           /\ g.seq < x.seq => g.seq < carrierNext[s][d]
    BY <2>1, <2>2 DEF SendingSeqOK
  <2>5. \A x \in sending[s][d] : x.seq < nextSequence[s] + 1
    BY <2>1, <2>2
  <2>6. carrierNext[s][d] <= nextSequence[s] + 1
    BY <2>1, <2>3
  <2> QED BY <1>2, <2>4, <2>5, <2>6 DEF SendingSeqOK
<1> QED BY <1>1, <1>2
-----------------------------------------------------------------------------
(* The payload counter.                                                    *)

Bytes(H) == UNION {h.frame.off .. (h.frame.end - 1) : h \in H}

LEMMA BytesCounted ==
  \A H : PayloadBytes(H) = Cardinality(Bytes(H))
BY DEF PayloadBytes, Bytes

LEMMA BytesFacts ==
  ASSUME FlowInv, NEW s \in Side, NEW H \in SUBSET history[s]
  PROVE  /\ Bytes(H) \subseteq 0 .. offset[s] /\ IsFiniteSet(Bytes(H))
         /\ PayloadBytes(H) = Cardinality(Bytes(H)) /\ PayloadBytes(H) \in Nat
         /\ \A b \in Bytes(H) : b < offset[s]
<1>1. offset[s] \in Nat
  BY NatFacts
<1>2. \A b \in Bytes(H) : b \in 0 .. offset[s] /\ b < offset[s]
  BY <1>1, EntryFacts DEF Bytes
<1>3. IsFiniteSet(Bytes(H)) /\ Cardinality(Bytes(H)) \in Nat
  BY <1>1, <1>2, BoundedSet
<1>4. Bytes(H) \subseteq 0 .. offset[s]
  BY <1>2
<1>5. PayloadBytes(H) = Cardinality(Bytes(H)) /\ Cardinality(Bytes(H)) \in Nat
  BY <1>3, BytesCounted
<1> QED BY <1>2, <1>3, <1>4, <1>5

\* Bytes of the history are counted once.
LEMMA BytesSplit ==
  ASSUME FlowInv, HistorySeqOK, NEW s \in Side, NEW H \in SUBSET history[s]
  PROVE  PayloadBytes(history[s]) = PayloadBytes(H) + PayloadBytes(history[s] \ H)
<1> DEFINE G == history[s] \ H
<1>1. Bytes(history[s]) = Bytes(H) \cup Bytes(G)
  BY DEF Bytes
<1>2. Bytes(H) \cap Bytes(G) = {}
  <2> SUFFICES ASSUME NEW g \in H, NEW h \in G, NEW b,
                      b \in g.frame.off .. (g.frame.end - 1),
                      b \in h.frame.off .. (h.frame.end - 1)
               PROVE  FALSE
    BY DEF Bytes
  <2>1. /\ g.seq \in Nat /\ g.frame.off \in Nat /\ g.frame.end \in Nat
        /\ h.seq \in Nat /\ h.frame.off \in Nat /\ h.frame.end \in Nat
    BY EntryFacts
  <2>2. g.seq < h.seq \/ h.seq < g.seq
    BY <2>1 DEF HistorySeqOK
  <2>3. g.frame.end <= h.frame.off \/ h.frame.end <= g.frame.off
    BY <2>2 DEF HistorySeqOK
  <2> QED BY <2>1, <2>3
<1>3. /\ IsFiniteSet(Bytes(H)) /\ IsFiniteSet(Bytes(G))
      /\ PayloadBytes(H) = Cardinality(Bytes(H))
      /\ PayloadBytes(G) = Cardinality(Bytes(G))
      /\ PayloadBytes(history[s]) = Cardinality(Bytes(history[s]))
      /\ PayloadBytes(H) \in Nat /\ PayloadBytes(G) \in Nat
  BY BytesFacts
<1> HIDE DEF G
<1>4. Cardinality(Bytes(H) \cup Bytes(G)) = Cardinality(Bytes(H)) + Cardinality(Bytes(G))
  BY <1>2, <1>3, DisjointUnion
<1>5. PayloadBytes(history[s]) = PayloadBytes(H) + PayloadBytes(G)
  BY <1>1, <1>3, <1>4
<1> QED BY <1>5 DEF G

LEMMA HistoryBoundedStable ==
  ASSUME HistoryBounded, UNCHANGED <<histVars, globalAckOffset, globalAckFIN>>
  PROVE  HistoryBounded'
BY DEF HistoryBounded, histVars, PayloadBytes, PruneHistory, GlobalAcknowledged

\* remember: the new frame does not overlap the others and is unacknowledged.
LEMMA HistoryBoundedGrows ==
  ASSUME FlowInv, HistoryBounded, NEW s \in Side, NEW f \in Frame,
         NewFrame(s, f), Remember(s, f), UNCHANGED <<globalAckOffset, globalAckFIN>>
  PROVE  HistoryBounded'
<1>. PICK e \in Entry :
           /\ e.frame = f
           /\ history'[s] = history[s] \cup {e}
           /\ historyBytes'[s] = historyBytes[s] + (f.end - f.off)
           /\ historyBytes'[s] <= Window[s]
           /\ \A t \in Side : t # s => /\ history'[t] = history[t]
                                       /\ historyBytes'[t] = historyBytes[t]
  BY RememberFacts
<1> DEFINE new == f.off .. (f.end - 1)
<1>1. f.off \in Nat /\ f.end \in Nat /\ f.off <= f.end /\ offset[s] \in Nat
  BY NatFacts DEF Frame, NewFrame
<1>2. PayloadBytes(history'[s]) = PayloadBytes(history[s]) + (f.end - f.off)
  <2>1. Bytes(history'[s]) = Bytes(history[s]) \cup new
    BY DEF Bytes
  <2>2. Bytes(history[s]) \cap new = {}
    <3>1. \A b \in Bytes(history[s]) : b \in Int /\ b < offset[s]
      <4>1. /\ Bytes(history[s]) \subseteq 0 .. offset[s]
            /\ \A b \in Bytes(history[s]) : b < offset[s]
        BY BytesFacts
      <4> QED BY <1>1, <4>1
    <3> QED BY <1>1, <3>1 DEF NewFrame
  <2>3. IsFiniteSet(new) /\ Cardinality(new) = f.end - f.off
    BY <1>1, RangeSize
  <2>4. /\ IsFiniteSet(Bytes(history[s]))
        /\ PayloadBytes(history[s]) = Cardinality(Bytes(history[s]))
        /\ PayloadBytes(history[s]) \in Nat
        /\ PayloadBytes(history'[s]) = Cardinality(Bytes(history'[s]))
    BY BytesFacts, BytesCounted
  <2> HIDE DEF new
  <2>5. Cardinality(Bytes(history[s]) \cup new) =
          Cardinality(Bytes(history[s])) + Cardinality(new)
    BY <2>2, <2>3, <2>4, DisjointUnion
  <2> QED BY <2>1, <2>3, <2>4, <2>5
<1>3. ~GlobalAcknowledged(globalAckOffset[s], globalAckFIN[s], f)
  <2>1. /\ globalAckOffset[s] \in Nat /\ nextOffset[Peer(s)] \in Nat
        /\ globalAckOffset[s] <= nextOffset[Peer(s)]
        /\ nextOffset[Peer(s)] <= offset[s]
        /\ globalAckFIN[s] => FinReached(Peer(s))
    BY NatFacts, PeerFacts DEF FlowInv, AcksOK, TakenAcksOK, ReceiverOK
  <2>2. FinReached(Peer(s)) => localFIN[s]
    BY PeerFacts DEF FlowInv, ReceiverOK, FinReached
  <2> QED BY <1>1, <2>1, <2>2 DEF GlobalAcknowledged, NewFrame
<1>4. history'[s] = PruneHistory(history'[s], globalAckOffset[s], globalAckFIN[s])
  BY <1>3 DEF HistoryBounded, PruneHistory
<1> SUFFICES ASSUME NEW t \in Side
             PROVE  /\ historyBytes'[t] = PayloadBytes(history'[t])
                    /\ historyBytes'[t] <= Window[t]
                    /\ history'[t] = PruneHistory(history'[t], globalAckOffset[t], globalAckFIN[t])
  BY DEF HistoryBounded, PayloadBytes, PruneHistory, GlobalAcknowledged
<1>5. CASE t = s
  BY <1>2, <1>4, <1>5 DEF HistoryBounded
<1>6. CASE t # s
  BY <1>6 DEF HistoryBounded
<1> QED BY <1>5, <1>6

\* pruneHistoryLocked takes off the counter what it takes off the history.
LEMMA HistoryBoundedApply ==
  ASSUME FlowInv, HistorySeqOK, HistoryBounded, NEW s \in Side, NEW a \in Frame,
         NEW deferred, ApplyAck(s, a, deferred)
  PROVE  HistoryBounded' /\ \A t \in Side : history'[t] \subseteq history[t]
<1>. PICK ackFIN \in BOOLEAN : ackFIN = (globalAckFIN[s] \/ a.fin)
  BY NatFacts DEF Frame
<1>. PICK H \in SUBSET history[s] : H = PruneHistory(history[s], a.off, ackFIN)
  BY DEF PruneHistory
<1>1. /\ globalAckOffset' = [globalAckOffset EXCEPT ![s] = a.off]
      /\ globalAckFIN' = [globalAckFIN EXCEPT ![s] = ackFIN]
      /\ history' = [history EXCEPT ![s] = H]
      /\ historyBytes' = [historyBytes EXCEPT ![s] = @ - PayloadBytes(history[s] \ H)]
  BY DEF ApplyAck
<1>2. /\ globalAckOffset'[s] = a.off /\ globalAckFIN'[s] = ackFIN /\ history'[s] = H
      /\ historyBytes'[s] = historyBytes[s] - PayloadBytes(history[s] \ H)
      /\ \A t \in Side : t # s => /\ globalAckOffset'[t] = globalAckOffset[t]
                                  /\ globalAckFIN'[t] = globalAckFIN[t]
                                  /\ history'[t] = history[t]
                                  /\ historyBytes'[t] = historyBytes[t]
  BY <1>1 DEF FlowInv, TypeOK, TypeAck, TypeHist
<1>3. /\ PayloadBytes(history[s]) = PayloadBytes(H) + PayloadBytes(history[s] \ H)
      /\ PayloadBytes(H) \in Nat /\ PayloadBytes(history[s] \ H) \in Nat
  BY BytesSplit, BytesFacts
<1>4. historyBytes'[s] = PayloadBytes(H) /\ historyBytes'[s] <= Window[s]
  BY <1>2, <1>3, NatFacts DEF HistoryBounded
<1>5. H = PruneHistory(H, a.off, ackFIN)
  BY DEF PruneHistory
<1> SUFFICES ASSUME NEW t \in Side
             PROVE  /\ historyBytes'[t] = PayloadBytes(history'[t])
                    /\ historyBytes'[t] <= Window[t]
                    /\ history'[t] = PruneHistory(history'[t], globalAckOffset'[t], globalAckFIN'[t])
                    /\ history'[t] \subseteq history[t]
  BY DEF HistoryBounded, PayloadBytes, PruneHistory, GlobalAcknowledged
<1>6. CASE t = s
  BY <1>2, <1>4, <1>5, <1>6
<1>7. CASE t # s
  BY <1>2, <1>7 DEF HistoryBounded
<1> QED BY <1>6, <1>7

-----------------------------------------------------------------------------
(* Sequences of frames in which each starts no later than those before it  *)
(* end, or at an offset of R.                                              *)

Chain(q, R) ==
  \A i \in 1 .. Len(q) : InStream(q[i]) =>
    \/ q[i].off \in R
    \/ \E j \in 1 .. (i - 1) : InStream(q[j]) /\ q[i].off <= q[j].end

\* Some frame of q ends at the offset o or later; q holds the frame f.
Ends(q, o) == \E j \in 1 .. Len(q) : InStream(q[j]) /\ o <= q[j].end
Holds(q, f) == \E i \in 1 .. Len(q) : q[i] = f

\* The sequence p is q with e appended, without its head, or a prefix of it.
Appended(p, q, e) ==
  /\ Len(q) \in Nat /\ Len(p) = Len(q) + 1 /\ p[Len(q) + 1] = e
  /\ \A i \in 1 .. Len(q) : p[i] = q[i]
Dropped(p, q) ==
  /\ Len(q) \in Nat /\ Len(q) >= 1 /\ Len(p) = Len(q) - 1
  /\ \A i \in 1 .. (Len(q) - 1) : p[i] = q[i + 1]
  /\ \A i \in 2 .. Len(q) : q[i] = p[i - 1]
Cut(p, q) ==
  /\ Len(q) \in Nat /\ Len(p) \in 0 .. Len(q)
  /\ \A i \in 1 .. Len(p) : i \in 1 .. Len(q) /\ p[i] = q[i]

LEMMA AppendIndex ==
  ASSUME NEW S, NEW q \in Seq(S), NEW e \in S
  PROVE  Appended(Append(q, e), q, e)
BY DEF Appended

LEMMA TailIndex ==
  ASSUME NEW S, NEW q \in Seq(S), q # <<>>
  PROVE  Dropped(Tail(q), q) /\ Head(q) = q[1] /\ Head(q) \in S
BY DEF Dropped

LEMMA CutIndex ==
  ASSUME NEW S, NEW q \in Seq(S), NEW k \in 0 .. Len(q)
  PROVE  Cut(SubSeq(q, 1, k), q)
BY DEF Cut

LEMMA ChainMore ==
  ASSUME NEW q, NEW R, NEW R2, Chain(q, R), R \subseteq R2
  PROVE  Chain(q, R2)
BY DEF Chain

LEMMA ChainCut ==
  ASSUME NEW q, NEW p, NEW R, Chain(q, R), Cut(p, q)
  PROVE  Chain(p, R)
<1> SUFFICES ASSUME NEW i \in 1 .. Len(p), InStream(p[i])
             PROVE  \/ p[i].off \in R
                    \/ \E j \in 1 .. (i - 1) : InStream(p[j]) /\ p[i].off <= p[j].end
  BY DEF Chain
<1>1. i \in 1 .. Len(q) /\ p[i] = q[i] /\ \A j \in 1 .. (i - 1) : p[j] = q[j]
  BY DEF Cut
<1> QED BY <1>1 DEF Chain

LEMMA ChainAppend ==
  ASSUME NEW q, NEW p, NEW R, NEW e, Chain(q, R), Appended(p, q, e),
         InStream(e) => e.off \in R \/ Ends(q, e.off)
  PROVE  Chain(p, R)
<1> SUFFICES ASSUME NEW i \in 1 .. Len(p), InStream(p[i])
             PROVE  \/ p[i].off \in R
                    \/ \E j \in 1 .. (i - 1) : InStream(p[j]) /\ p[i].off <= p[j].end
  BY DEF Chain
<1>1. CASE i \in 1 .. Len(q)
  <2>1. p[i] = q[i] /\ \A j \in 1 .. (i - 1) : p[j] = q[j]
    BY <1>1 DEF Appended
  <2> QED BY <1>1, <2>1 DEF Chain
<1>2. CASE i = Len(q) + 1
  BY <1>2 DEF Appended, Ends
<1> QED BY <1>1, <1>2 DEF Appended

LEMMA ChainDrop ==
  ASSUME NEW q, NEW p, NEW R, Chain(q, R), Dropped(p, q),
         \A i \in 1 .. Len(q) : q[i].off \in Nat,
         ~InStream(q[1]) \/ \A o \in Nat : o <= q[1].end => o \in R
  PROVE  Chain(p, R)
<1> SUFFICES ASSUME NEW i \in 1 .. Len(p), InStream(p[i])
             PROVE  \/ p[i].off \in R
                    \/ \E j \in 1 .. (i - 1) : InStream(p[j]) /\ p[i].off <= p[j].end
  BY DEF Chain
<1>1. /\ i \in Nat /\ i >= 1 /\ i + 1 \in 1 .. Len(q) /\ p[i] = q[i + 1]
      /\ (i + 1) - 1 = i
  BY DEF Dropped
<1>2. \/ q[i + 1].off \in R
      \/ \E j \in 1 .. i : InStream(q[j]) /\ q[i + 1].off <= q[j].end
  BY <1>1 DEF Chain
<1>3. CASE q[i + 1].off \in R
  BY <1>1, <1>3
<1>4. CASE \E j \in 1 .. i : InStream(q[j]) /\ q[i + 1].off <= q[j].end
  <2>1. PICK j \in 1 .. i : InStream(q[j]) /\ q[i + 1].off <= q[j].end
    BY <1>4
  <2>2. CASE j = 1
    BY <1>1, <2>1, <2>2
  <2>3. CASE j \in 2 .. i
    <3>1. j - 1 \in 1 .. (i - 1) /\ p[j - 1] = q[j]
      BY SMTT(30), <1>1, <2>3 DEF Dropped
    <3> QED BY <1>1, <2>1, <3>1
  <2> QED BY <1>1, <2>1, <2>2, <2>3
<1> QED BY <1>2, <1>3, <1>4

LEMMA AppendContents ==
  ASSUME NEW q, NEW p, NEW e, Appended(p, q, e)
  PROVE  /\ \A o : Ends(q, o) => Ends(p, o)
         /\ \A o : InStream(e) /\ o <= e.end => Ends(p, o)
         /\ \A f : Holds(q, f) => Holds(p, f)
         /\ Holds(p, e)
<1>1. Len(q) + 1 \in 1 .. Len(p) /\ p[Len(q) + 1] = e
  BY DEF Appended
<1>2. \A i \in 1 .. Len(q) : i \in 1 .. Len(p) /\ p[i] = q[i]
  BY DEF Appended
<1> QED BY <1>1, <1>2 DEF Ends, Holds

LEMMA DropContents ==
  ASSUME NEW q, NEW p, Dropped(p, q)
  PROVE  /\ \A o : Ends(q, o) => Ends(p, o) \/ (InStream(q[1]) /\ o <= q[1].end)
         /\ \A f : Holds(q, f) => Holds(p, f) \/ f = q[1]
<1>1. \A i \in 1 .. Len(q) : i = 1 \/ (i - 1 \in 1 .. Len(p) /\ p[i - 1] = q[i])
  BY DEF Dropped
<1> QED BY <1>1 DEF Ends, Holds

\* The same of the queue of a receiver, whose items hold frames of the stream,
\* with all offsets up to n.
QChain(q, n) ==
  \A i \in 1 .. Len(q) :
    \/ q[i].frame.off <= n
    \/ \E j \in 1 .. (i - 1) : q[i].frame.off <= q[j].frame.end
QEnds(q, o) == \E j \in 1 .. Len(q) : o <= q[j].frame.end
QHolds(q, f) == \E i \in 1 .. Len(q) : q[i].frame = f

LEMMA QueueAppended ==
  ASSUME NEW q, NEW p, NEW e, NEW n, QChain(q, n), Appended(p, q, e),
         e.frame.off <= n \/ QEnds(q, e.frame.off)
  PROVE  QChain(p, n)
<1> SUFFICES ASSUME NEW i \in 1 .. Len(p)
             PROVE  \/ p[i].frame.off <= n
                    \/ \E j \in 1 .. (i - 1) : p[i].frame.off <= p[j].frame.end
  BY DEF QChain
<1>1. CASE i \in 1 .. Len(q)
  <2>1. p[i] = q[i] /\ \A j \in 1 .. (i - 1) : p[j] = q[j]
    BY <1>1 DEF Appended
  <2> QED BY <1>1, <2>1 DEF QChain
<1>2. CASE i = Len(q) + 1
  BY <1>2 DEF Appended, QEnds
<1> QED BY <1>1, <1>2 DEF Appended

LEMMA QueueDropped ==
  ASSUME NEW q, NEW p, NEW n \in Nat, NEW m \in Nat, QChain(q, n), Dropped(p, q),
         \A i \in 1 .. Len(q) : q[i].frame.off \in Nat /\ q[i].frame.end \in Nat,
         n <= m, q[1].frame.end <= m
  PROVE  QChain(p, m)
<1> SUFFICES ASSUME NEW i \in 1 .. Len(p)
             PROVE  \/ p[i].frame.off <= m
                    \/ \E j \in 1 .. (i - 1) : p[i].frame.off <= p[j].frame.end
  BY DEF QChain
<1>1. /\ i \in Nat /\ i >= 1 /\ i + 1 \in 1 .. Len(q) /\ p[i] = q[i + 1]
      /\ (i + 1) - 1 = i /\ 1 \in 1 .. Len(q)
  BY DEF Dropped
<1>2. \/ q[i + 1].frame.off <= n
      \/ \E j \in 1 .. i : q[i + 1].frame.off <= q[j].frame.end
  BY <1>1 DEF QChain
<1>3. CASE q[i + 1].frame.off <= n
  BY <1>1, <1>3
<1>4. CASE \E j \in 1 .. i : q[i + 1].frame.off <= q[j].frame.end
  <2>1. PICK j \in 1 .. i : q[i + 1].frame.off <= q[j].frame.end
    BY <1>4
  <2>2. CASE j = 1
    BY <1>1, <2>1, <2>2
  <2>3. CASE j \in 2 .. i
    <3>1. j - 1 \in 1 .. (i - 1) /\ p[j - 1] = q[j]
      BY SMTT(30), <1>1, <2>3 DEF Dropped
    <3> QED BY <1>1, <2>1, <3>1
  <2> QED BY <1>1, <2>1, <2>2, <2>3
<1> QED BY <1>2, <1>3, <1>4

LEMMA QueueAppendContents ==
  ASSUME NEW q, NEW p, NEW e, Appended(p, q, e)
  PROVE  /\ \A o : QEnds(q, o) => QEnds(p, o)
         /\ \A o : o <= e.frame.end => QEnds(p, o)
         /\ \A f : QHolds(q, f) => QHolds(p, f)
         /\ QHolds(p, e.frame)
<1>1. Len(q) + 1 \in 1 .. Len(p) /\ p[Len(q) + 1] = e
  BY DEF Appended
<1>2. \A i \in 1 .. Len(q) : i \in 1 .. Len(p) /\ p[i] = q[i]
  BY DEF Appended
<1> QED BY <1>1, <1>2 DEF QEnds, QHolds

LEMMA QueueDropContents ==
  ASSUME NEW q, NEW p, Dropped(p, q)
  PROVE  /\ \A o : QEnds(q, o) => QEnds(p, o) \/ o <= q[1].frame.end
         /\ \A f : QHolds(q, f) => QHolds(p, f) \/ f = q[1].frame
<1>1. \A i \in 1 .. Len(q) : i = 1 \/ (i - 1 \in 1 .. Len(p) /\ p[i - 1] = q[i])
  BY DEF Dropped
<1> QED BY <1>1 DEF QEnds, QHolds

-----------------------------------------------------------------------------
(* What is on its way: the queue of a receiver r, and one connection of a  *)
(* sender t below it.                                                      *)

\* The receiver r has the frame f, or it is in its queue.
Queued(r, f) ==
  \/ f.type = "DATA" /\ f.end <= nextOffset[r]
  \/ f.type = "FIN" /\ finOffset[r] # {}
  \/ QHolds(inbound[r], f)

\* The offsets that the queue of r reaches.
Reached(r) == {o \in Nat : QueueReaches(r, o)}

\* The parts of QueueInOrder and WireInOrder.
QueueOrdered(r) ==
  /\ held[r] = {}
  /\ finOffset[r] # {} => nextOffset[r] \in finOffset[r]
  /\ closed[r] = "open" => QChain(inbound[r], nextOffset[r])
WireOrdered(t, d) == Chain(wire[t][d], Reached(Peer(t)))

LEMMA QueueInOrderParts ==
  QueueInOrder <=> \A r \in Side : QueueOrdered(r)
BY DEF QueueInOrder, QueueOrdered, QChain

LEMMA QueueInOrderPartsNext ==
  QueueInOrder' <=> \A r \in Side : QueueOrdered(r)'
BY DEF QueueInOrder, QueueOrdered, QChain

\* A step loses nothing of what is queued, or on its way.
QueueKept(r) ==
  /\ \A o \in Nat : QueueReaches(r, o) => QueueReaches(r, o)'
  /\ \A f \in Frame : InStream(f) /\ Queued(r, f) => Queued(r, f)'
WireKept(t, d) ==
  /\ \A o \in Nat : WireReaches(t, d, o) => WireReaches(t, d, o)'
  /\ \A f \in Frame : InStream(f) /\ Arrived(t, d, f) => Arrived(t, d, f)'

LEMMA ReachForms ==
  /\ \A r, o : QueueReaches(r, o) <=> o <= nextOffset[r] \/ QEnds(inbound[r], o)
  /\ \A r, o : QueueReaches(r, o)' <=> o <= nextOffset'[r] \/ QEnds(inbound'[r], o)
  /\ \A t, d, o : WireReaches(t, d, o) <=>
                    QueueReaches(Peer(t), o) \/ Ends(wire[t][d], o)
  /\ \A t, d, o : WireReaches(t, d, o)' <=>
                    QueueReaches(Peer(t), o)' \/ Ends(wire'[t][d], o)
  /\ \A t, d, f : Arrived(t, d, f) <=> Queued(Peer(t), f) \/ Holds(wire[t][d], f)
  /\ \A t, d, f : Arrived(t, d, f)' <=> Queued(Peer(t), f)' \/ Holds(wire'[t][d], f)
BY DEF QueueReaches, QEnds, WireReaches, Ends, Arrived, Queued, Holds, QHolds

LEMMA QueueSame ==
  ASSUME NEW r \in Side, inbound'[r] = inbound[r], nextOffset'[r] = nextOffset[r],
         finOffset'[r] = finOffset[r]
  PROVE  QueueKept(r)
BY DEF QueueKept, QueueReaches, Queued

LEMMA QueueOrderedSame ==
  ASSUME NEW r \in Side, inbound'[r] = inbound[r], nextOffset'[r] = nextOffset[r],
         finOffset'[r] = finOffset[r], held'[r] = held[r],
         closed'[r] = "open" => closed[r] = "open", QueueOrdered(r)
  PROVE  QueueOrdered(r)'
BY DEF QueueOrdered

LEMMA QueueAppend ==
  ASSUME NEW r \in Side, NEW e, Appended(inbound'[r], inbound[r], e),
         nextOffset'[r] = nextOffset[r], finOffset'[r] = finOffset[r],
         held'[r] = held[r], closed'[r] = "open" => closed[r] = "open",
         QueueOrdered(r), closed[r] = "open" => QueueReaches(r, e.frame.off)
  PROVE  /\ QueueKept(r) /\ QueueOrdered(r)' /\ Queued(r, e.frame)'
         /\ \A o \in Nat : o <= e.frame.end => QueueReaches(r, o)'
<1> DEFINE q == inbound[r]
           p == inbound'[r]
<1>1. /\ \A o : QEnds(q, o) => QEnds(p, o)
      /\ \A o : o <= e.frame.end => QEnds(p, o)
      /\ \A f : QHolds(q, f) => QHolds(p, f)
      /\ QHolds(p, e.frame)
  BY QueueAppendContents
<1>2. closed'[r] = "open" => QChain(p, nextOffset[r])
  BY QueueAppended, ReachForms DEF QueueOrdered
<1>3. QueueKept(r)
  BY <1>1, ReachForms DEF QueueKept, Queued
<1>4. Queued(r, e.frame)' /\ \A o \in Nat : o <= e.frame.end => QueueReaches(r, o)'
  BY <1>1, ReachForms DEF Queued
<1> QED BY <1>2, <1>3, <1>4 DEF QueueOrdered

\* writeEndpoint takes the first item off the queue and delivers to m.
LEMMA QueueTake ==
  ASSUME FlowInv, NEW r \in Side, Dropped(inbound'[r], inbound[r]),
         NEW m \in Nat, nextOffset'[r] = m, nextOffset[r] <= m,
         inbound[r][1].frame.end <= m,
         finOffset[r] # {} => finOffset'[r] # {},
         inbound[r][1].frame.type = "FIN" => finOffset'[r] # {},
         held'[r] = {}, finOffset'[r] # {} => m \in finOffset'[r],
         closed'[r] = "open" => closed[r] = "open", QueueOrdered(r)
  PROVE  QueueKept(r) /\ QueueOrdered(r)'
<1> DEFINE q == inbound[r]
           p == inbound'[r]
<1>1. /\ \A o : QEnds(q, o) => QEnds(p, o) \/ o <= q[1].frame.end
      /\ \A f : QHolds(q, f) => QHolds(p, f) \/ f = q[1].frame
  BY QueueDropContents
<1>2. /\ \A i \in 1 .. Len(q) : q[i].frame \in Frame /\ InStream(q[i].frame)
      /\ nextOffset[r] \in Nat
  BY InboundTypes, NatFacts, PeerFacts
     DEF FlowInv, FramesOK, InboundFramesOK, StreamFrameOK, InStream
<1>3. \A i \in 1 .. Len(q) : q[i].frame.off \in Nat /\ q[i].frame.end \in Nat
  BY <1>2 DEF Frame
<1>4. 1 \in 1 .. Len(q)
  BY DEF Dropped
<1>5. closed'[r] = "open" => QChain(p, m)
  BY <1>2, <1>3, QueueDropped DEF QueueOrdered
<1>6. ASSUME NEW o \in Nat, QueueReaches(r, o)
      PROVE  QueueReaches(r, o)'
  <2>1. q[1].frame.end \in Nat
    BY <1>3, <1>4
  <2>2. o <= nextOffset[r] \/ QEnds(p, o) \/ o <= q[1].frame.end
    BY <1>1, <1>6, ReachForms
  <2>3. o <= m \/ QEnds(p, o)
    BY <1>2, <2>1, <2>2
  <2> QED BY <2>3, ReachForms
<1>7. ASSUME NEW f \in Frame, InStream(f), Queued(r, f)
      PROVE  Queued(r, f)'
  <2>1. f.end \in Nat
    BY DEF Frame
  <2> QED BY <1>1, <1>2, <1>7, <2>1 DEF Queued, InStream
<1> QED BY <1>5, <1>6, <1>7 DEF QueueKept, QueueOrdered

LEMMA ReachedGrows ==
  ASSUME NEW r, QueueKept(r)
  PROVE  Reached(r) \subseteq Reached(r)'
BY DEF Reached, QueueKept

LEMMA WireOrderedNext ==
  \A t, d : WireOrdered(t, d)' <=> Chain(wire'[t][d], Reached(Peer(t))')
BY DEF WireOrdered

LEMMA WireSame ==
  ASSUME NEW t, NEW d, QueueKept(Peer(t)), wire'[t][d] = wire[t][d],
         WireOrdered(t, d)
  PROVE  WireOrdered(t, d)' /\ WireKept(t, d)
<1>1. WireOrdered(t, d)'
  BY ChainMore, ReachedGrows, WireOrderedNext DEF WireOrdered
<1>2. WireKept(t, d)
  BY ReachForms DEF WireKept, QueueKept
<1> QED BY <1>1, <1>2

LEMMA WireCut ==
  ASSUME NEW t, NEW d, QueueKept(Peer(t)), Cut(wire'[t][d], wire[t][d]),
         WireOrdered(t, d)
  PROVE  WireOrdered(t, d)'
<1>1. Chain(wire'[t][d], Reached(Peer(t)))
  BY ChainCut DEF WireOrdered
<1> QED BY <1>1, ChainMore, ReachedGrows, WireOrderedNext

LEMMA WireAppend ==
  ASSUME NEW t \in Side, NEW d \in Carrier, QueueKept(Peer(t)),
         NEW g \in Frame, Appended(wire'[t][d], wire[t][d], g), WireOrdered(t, d),
         InStream(g) => WireReaches(t, d, g.off)
  PROVE  WireOrdered(t, d)' /\ WireKept(t, d) /\ Arrived(t, d, g)'
<1>1. g.off \in Nat
  BY DEF Frame
<1>2. InStream(g) => g.off \in Reached(Peer(t)) \/ Ends(wire[t][d], g.off)
  BY <1>1, ReachForms DEF Reached
<1>3. Chain(wire'[t][d], Reached(Peer(t)))
  BY <1>2, ChainAppend DEF WireOrdered
<1>4. WireOrdered(t, d)'
  BY <1>3, ChainMore, ReachedGrows, WireOrderedNext
<1>5. /\ \A o : Ends(wire[t][d], o) => Ends(wire'[t][d], o)
      /\ \A f : Holds(wire[t][d], f) => Holds(wire'[t][d], f)
      /\ Holds(wire'[t][d], g)
  BY AppendContents
<1> QED BY <1>4, <1>5, ReachForms DEF WireKept, QueueKept

\* Taking the first frame off the connection, when the queue has it then or it
\* is none of the stream.
LEMMA WireTail ==
  ASSUME FlowInv, NEW t \in Side, NEW d \in Carrier, QueueKept(Peer(t)),
         Dropped(wire'[t][d], wire[t][d]), WireOrdered(t, d),
         NEW g, g = wire[t][d][1],
         \/ ~InStream(g)
         \/ /\ Queued(Peer(t), g)'
            /\ \A o \in Nat : o <= g.end => QueueReaches(Peer(t), o)'
  PROVE  WireOrdered(t, d)' /\ WireKept(t, d)
<1> DEFINE q == wire[t][d]
           p == wire'[t][d]
<1>1. \A i \in 1 .. Len(q) : q[i].off \in Nat
  <2>1. \A i \in 1 .. Len(q) : q[i] \in Frame
    BY NatFacts
  <2> QED BY <2>1 DEF Frame
<1>2. Chain(q, Reached(Peer(t))')
  BY ChainMore, ReachedGrows DEF WireOrdered
<1>3. ~InStream(q[1]) \/ \A o \in Nat : o <= q[1].end => o \in Reached(Peer(t))'
  BY DEF Reached
<1>4. WireOrdered(t, d)'
  BY <1>1, <1>2, <1>3, ChainDrop, WireOrderedNext
<1>5. /\ \A o : Ends(q, o) => Ends(p, o) \/ (InStream(q[1]) /\ o <= q[1].end)
      /\ \A f : Holds(q, f) => Holds(p, f) \/ f = q[1]
  BY DropContents
<1>6. \A o \in Nat : WireReaches(t, d, o) => WireReaches(t, d, o)'
  BY <1>5, ReachForms DEF QueueKept
<1>7. ASSUME NEW f \in Frame, InStream(f), Arrived(t, d, f)
      PROVE  Arrived(t, d, f)'
  <2>1. Queued(Peer(t), f) \/ Holds(p, f) \/ f = q[1]
    BY <1>5, <1>7, ReachForms
  <2>2. Queued(Peer(t), f)' \/ Holds(p, f)
    <3>1. CASE f = q[1]
      BY <1>7, <3>1
    <3>2. CASE Queued(Peer(t), f)
      BY <1>7, <3>2 DEF QueueKept
    <3> QED BY <2>1, <3>1, <3>2
  <2> QED BY <2>2, ReachForms
<1> QED BY <1>4, <1>6, <1>7 DEF WireKept

-----------------------------------------------------------------------------
(* Frames on their way, by action.                                         *)

PipeInv == QueueInOrder /\ WireInOrder /\ SendingInOrder /\ CarrierCopyComplete

LEMMA WireInOrderParts ==
  ASSUME FlowInv
  PROVE  WireInOrder <=> \A t \in Side, d \in Carrier :
                           closed[Peer(t)] = "open" => WireOrdered(t, d)
<1>1. ASSUME NEW t \in Side, NEW d \in Carrier, NEW i \in 1 .. Len(wire[t][d])
      PROVE  wire[t][d][i].off \in Nat
  <2>1. wire[t][d][i] \in Frame
    BY NatFacts
  <2> QED BY <2>1 DEF Frame
<1> QED BY <1>1 DEF WireInOrder, WireOrdered, Chain, Reached

LEMMA WireInOrderPartsNext ==
  ASSUME FlowInv', \A t \in Side, d \in Carrier :
                     closed'[Peer(t)] = "open" => WireOrdered(t, d)'
  PROVE  WireInOrder'
BY DEF WireInOrder, WireOrdered, Chain, Reached

\* A flow that is closed never opens again.
OpenBefore == \A t \in Side : closed'[t] = "open" => closed[t] = "open"

\* The parts of SendingInOrder and CarrierCopyComplete.
CarrierGood(t, d) ==
  /\ \A x \in sending[t][d] : /\ WireReaches(t, d, x.frame.off)
                              /\ x.written => Arrived(t, d, x.frame)
  /\ \A h \in history[t] : h.seq < carrierNext[t][d] => Arrived(t, d, h.frame)

LEMMA CarrierParts ==
  SendingInOrder /\ CarrierCopyComplete <=>
    \A t \in Side, d \in Carrier : Healthy(t, d) => CarrierGood(t, d)
BY DEF SendingInOrder, CarrierCopyComplete, CarrierGood

LEMMA CarrierPartsNext ==
  ASSUME \A t \in Side, d \in Carrier : Healthy(t, d)' => CarrierGood(t, d)'
  PROVE  SendingInOrder' /\ CarrierCopyComplete'
BY DEF SendingInOrder, CarrierCopyComplete, CarrierGood

\* A carrier that works after the step worked before it and keeps its place.
CarrierKept(t, d) ==
  /\ Healthy(t, d) /\ WireKept(t, d)
  /\ \A h \in history'[t] : h.seq < carrierNext'[t][d] =>
       h \in history[t] /\ h.seq < carrierNext[t][d]
  /\ \A y \in sending'[t][d] : \E x \in sending[t][d] :
       y.frame = x.frame /\ (y.written => x.written)

LEMMA SendingFrames ==
  ASSUME FlowInv, NEW t \in Side, NEW d \in Carrier, NEW x \in sending[t][d]
  PROVE  /\ x \in InFlight /\ x.seq \in Nat /\ x.frame \in Frame /\ InStream(x.frame)
         /\ x.frame.off \in Nat /\ x.frame.end \in Nat /\ StreamFrameOK(t, x.frame)
<1>1. x \in InFlight /\ StreamFrameOK(t, x.frame)
  BY NatFacts DEF FlowInv, FramesOK, KeptFramesOK
<1>2. x.seq \in Nat /\ x.frame \in Frame
  BY <1>1 DEF InFlight
<1> QED BY <1>1, <1>2 DEF Frame, InStream, StreamFrameOK

LEMMA KeptIsGood ==
  ASSUME FlowInv, PipeInv, NEW t \in Side, NEW d \in Carrier, CarrierKept(t, d)
  PROVE  CarrierGood(t, d)'
<1>1. CarrierGood(t, d)
  BY CarrierParts DEF PipeInv, CarrierKept
<1>2. ASSUME NEW y \in sending'[t][d]
      PROVE  /\ WireReaches(t, d, y.frame.off)'
             /\ y.written => Arrived(t, d, y.frame)'
  <2>1. PICK x \in sending[t][d] : y.frame = x.frame /\ (y.written => x.written)
    BY DEF CarrierKept
  <2>2. x.frame \in Frame /\ InStream(x.frame) /\ x.frame.off \in Nat
    BY SendingFrames
  <2> QED BY <1>1, <2>1, <2>2 DEF CarrierKept, WireKept, CarrierGood
<1>3. ASSUME NEW h \in history'[t], h.seq < carrierNext'[t][d]
      PROVE  Arrived(t, d, h.frame)'
  <2>1. h \in history[t] /\ h.seq < carrierNext[t][d]
    BY <1>3 DEF CarrierKept
  <2>2. h.frame \in Frame /\ InStream(h.frame)
    BY <2>1, EntryFacts
  <2> QED BY <1>1, <2>1, <2>2 DEF CarrierKept, WireKept, CarrierGood
<1> QED BY <1>2, <1>3 DEF CarrierGood

LEMMA PipeStep ==
  ASSUME FlowInv, FlowInv', PipeInv,
         \A r \in Side : QueueOrdered(r)',
         \A t \in Side, d \in Carrier : closed'[Peer(t)] = "open" => WireOrdered(t, d)',
         \A t \in Side, d \in Carrier :
           Healthy(t, d)' => CarrierKept(t, d) \/ CarrierGood(t, d)'
  PROVE  PipeInv'
<1>1. QueueInOrder' /\ WireInOrder'
  BY QueueInOrderPartsNext, WireInOrderPartsNext
<1>2. \A t \in Side, d \in Carrier : Healthy(t, d)' => CarrierGood(t, d)'
  BY KeptIsGood
<1> QED BY <1>1, <1>2, CarrierPartsNext DEF PipeInv

QueueVars == <<inbound, nextOffset, held, finOffset>>

LEMMA QueuesSame ==
  ASSUME PipeInv, UNCHANGED QueueVars,
         \A r \in Side : closed'[r] = "open" => closed[r] = "open"
  PROVE  \A r \in Side : QueueOrdered(r)' /\ QueueKept(r)
BY QueueSame, QueueOrderedSame, QueueInOrderParts DEF QueueVars, PipeInv

\* At most one connection t, d changes.
LEMMA WiresAround ==
  ASSUME FlowInv, PipeInv,
         \A r \in Side : closed'[r] = "open" => closed[r] = "open" /\ QueueKept(r),
         NEW t \in Side, NEW d \in Carrier,
         \A u \in Side, e \in Carrier : u # t \/ e # d => wire'[u][e] = wire[u][e],
         closed'[Peer(t)] = "open" => WireOrdered(t, d)'
  PROVE  \A u \in Side, e \in Carrier : closed'[Peer(u)] = "open" =>
           WireOrdered(u, e)' /\ (u # t \/ e # d => WireKept(u, e))
<1> SUFFICES ASSUME NEW u \in Side, NEW e \in Carrier, closed'[Peer(u)] = "open",
                    u # t \/ e # d
             PROVE  WireOrdered(u, e)' /\ WireKept(u, e)
  OBVIOUS
<1>1. QueueKept(Peer(u)) /\ WireOrdered(u, e)
  BY PeerFacts, WireInOrderParts DEF PipeInv
<1> QED BY <1>1, WireSame

LEMMA WiresSame ==
  ASSUME FlowInv, PipeInv, UNCHANGED wire,
         \A r \in Side : closed'[r] = "open" => closed[r] = "open" /\ QueueKept(r)
  PROVE  \A u \in Side, e \in Carrier : closed'[Peer(u)] = "open" =>
           WireOrdered(u, e)' /\ WireKept(u, e)
<1> SUFFICES ASSUME NEW u \in Side, NEW e \in Carrier, closed'[Peer(u)] = "open"
             PROVE  WireOrdered(u, e)' /\ WireKept(u, e)
  OBVIOUS
<1>1. QueueKept(Peer(u)) /\ WireOrdered(u, e)
  BY PeerFacts, WireInOrderParts DEF PipeInv
<1> QED BY <1>1, WireSame

\* What the carrier d of t keeps in hand and how far it is stays the same.
SamePlace(t, d) ==
  /\ carrierNext'[t][d] = carrierNext[t][d] /\ sending'[t][d] = sending[t][d]
  /\ history'[t] \subseteq history[t]
  /\ broken'[d] = broken[d] /\ status'[t][d] = status[t][d]

LEMMA SamePlaceKept ==
  ASSUME NEW t \in Side, NEW d \in Carrier, SamePlace(t, d), Healthy(t, d)',
         closed'[Peer(t)] = "open" => closed[Peer(t)] = "open", WireKept(t, d)
  PROVE  CarrierKept(t, d)
BY DEF SamePlace, CarrierKept, Healthy

\* Frames stay where they are; every carrier stays as it is, stops or is right.
LEMMA PipeQuiet ==
  ASSUME FlowInv, FlowInv', PipeInv, OpenBefore, UNCHANGED <<QueueVars, wire>>,
         \A t \in Side, d \in Carrier :
           SamePlace(t, d) \/ ~Healthy(t, d)' \/ CarrierGood(t, d)'
  PROVE  PipeInv'
<1>1. \A r \in Side : QueueOrdered(r)' /\ QueueKept(r)
  BY QueuesSame DEF OpenBefore
<1>2. \A u \in Side, e \in Carrier : closed'[Peer(u)] = "open" =>
        WireOrdered(u, e)' /\ WireKept(u, e)
  BY <1>1, WiresSame DEF OpenBefore
<1>3. \A t \in Side, d \in Carrier : Healthy(t, d)' => closed'[Peer(t)] = "open"
  BY DEF Healthy
<1>4. \A t \in Side : closed'[Peer(t)] = "open" => closed[Peer(t)] = "open"
  BY PeerFacts DEF OpenBefore
<1>5. \A t \in Side, d \in Carrier :
        Healthy(t, d)' => CarrierKept(t, d) \/ CarrierGood(t, d)'
  BY <1>2, <1>3, <1>4, SamePlaceKept
<1> QED BY <1>1, <1>2, <1>5, PipeStep

\* The same when one connection t, d changes.
LEMMA PipeOne ==
  ASSUME FlowInv, FlowInv', PipeInv, OpenBefore,
         \A r \in Side : QueueOrdered(r)' /\ QueueKept(r),
         NEW t \in Side, NEW d \in Carrier,
         \A u \in Side, e \in Carrier : u # t \/ e # d => wire'[u][e] = wire[u][e],
         closed'[Peer(t)] = "open" => WireOrdered(t, d)',
         \A u \in Side, e \in Carrier :
           SamePlace(u, e) \/ ~Healthy(u, e)' \/ CarrierGood(u, e)',
         WireKept(t, d) \/ ~Healthy(t, d)' \/ CarrierGood(t, d)'
  PROVE  PipeInv'
<1>1. \A u \in Side, e \in Carrier : closed'[Peer(u)] = "open" =>
        WireOrdered(u, e)' /\ (u # t \/ e # d => WireKept(u, e))
  BY WiresAround DEF OpenBefore
<1>2. \A u \in Side, e \in Carrier : Healthy(u, e)' => closed'[Peer(u)] = "open"
  BY DEF Healthy
<1>3. \A u \in Side : closed'[Peer(u)] = "open" => closed[Peer(u)] = "open"
  BY PeerFacts DEF OpenBefore
<1>4. \A u \in Side, e \in Carrier :
        Healthy(u, e)' => CarrierKept(u, e) \/ CarrierGood(u, e)'
  BY <1>1, <1>2, <1>3, SamePlaceKept
<1> QED BY <1>1, <1>4, PipeStep

-----------------------------------------------------------------------------
(* The steps, and what they do to the lifecycle and to the history.        *)

LEMMA NextCases ==
  ASSUME Next
  PROVE  \/ \E s \in Side :
              \/ Start(s) \/ ReadData(s) \/ RememberData(s) \/ ReadEOF(s)
              \/ ReadNoCarriers(s) \/ BroadcastReturns(s) \/ BroadcastNoCarriers(s)
              \/ Deliver(s) \/ SendAck(s) \/ FinishDelivery(s)
              \/ FinishReset(s) \/ ResetFlow(s)
         \/ \E c \in Carrier :
              AcceptOpen(c) \/ RefuseOpen(c) \/ Break(c) \/ CloseCarrier(c)
         \/ \E s \in Side, c \in Carrier :
              \/ Attach(s, c) \/ AttachRejected(s, c)
              \/ PickFrame(s, c) \/ WriteFrame(s, c) \/ CommitFrame(s, c) \/ WriteAck(s, c)
              \/ ReceiveAck(s, c) \/ EnqueueInbound(s, c) \/ ReceiveRST(s, c)
              \/ StopAtEOF(s, c) \/ StopAtWriteError(s, c) \/ Detach(s, c)
<1>1. ASSUME NEW s \in Side, FlowStep(s)
      PROVE  \/ Start(s) \/ ReadData(s) \/ RememberData(s) \/ ReadEOF(s)
             \/ ReadNoCarriers(s) \/ BroadcastReturns(s) \/ BroadcastNoCarriers(s)
             \/ Deliver(s) \/ SendAck(s) \/ FinishDelivery(s) \/ FinishReset(s)
  BY <1>1 DEF FlowStep, ReadEndpoint, WriteEndpoint
<1>2. ASSUME NEW s \in Side, NEW c \in Carrier, CarrierStep(s, c)
      PROVE  \/ Attach(s, c) \/ AttachRejected(s, c)
             \/ PickFrame(s, c) \/ WriteFrame(s, c) \/ CommitFrame(s, c) \/ WriteAck(s, c)
             \/ ReceiveAck(s, c) \/ EnqueueInbound(s, c) \/ ReceiveRST(s, c)
             \/ StopAtEOF(s, c) \/ StopAtWriteError(s, c) \/ Detach(s, c)
  BY <1>2 DEF CarrierStep, SendCarrier, ProcessLoop, ReadLoop
<1> QED BY <1>1, <1>2 DEF Next, Progress, Failure

LEMMA ClosedStays ==
  ASSUME FlowInv, Next
  PROVE  OpenBefore
<1>1. \A s \in Side, outcome \in {"nil", "err"} : Claim(s, outcome) => OpenBefore
  BY DEF OpenBefore, Claim, FlowInv, TypeOK, TypeFlow
<1>2. \A cond : \A s \in Side, outcome \in {"nil", "err"} :
        ClaimIf(s, cond, outcome) => OpenBefore
  BY <1>1 DEF ClaimIf, OpenBefore
<1>3. \A a, deferred : \A s \in Side : ApplyAck(s, a, deferred) => OpenBefore
  BY <1>2 DEF ApplyAck
<1>4. UNCHANGED closed => OpenBefore
  BY DEF OpenBefore
<1>5. \A s \in Side : NoCarriersOutcome(s) \in {"nil", "err"}
  BY DEF NoCarriersOutcome
<1>6. ASSUME NEW s \in Side,
             \/ Start(s) \/ ReadData(s) \/ RememberData(s) \/ ReadEOF(s)
             \/ ReadNoCarriers(s) \/ BroadcastReturns(s)
             \/ SendAck(s) \/ FinishReset(s) \/ ResetFlow(s)
      PROVE  OpenBefore
  BY <1>1, <1>2, <1>4, <1>6 DEF Start, ReadData, RememberData, ReadEOF, ReadNoCarriers,
     BroadcastReturns, SendAck, FinishReset, ResetFlow, flowVars
<1>7. ASSUME NEW s \in Side, BroadcastNoCarriers(s) \/ FinishDelivery(s)
      PROVE  OpenBefore
  BY <1>1, <1>2, <1>5, <1>7 DEF BroadcastNoCarriers, FinishDelivery
<1>8. ASSUME NEW s \in Side, Deliver(s) PROVE OpenBefore
  BY <1>1, <1>4, <1>8 DEF Deliver
<1>9. ASSUME NEW c \in Carrier,
             AcceptOpen(c) \/ RefuseOpen(c) \/ Break(c) \/ CloseCarrier(c)
      PROVE  OpenBefore
  BY <1>4, <1>9 DEF AcceptOpen, RefuseOpen, Break, CloseCarrier, StopCarrier, flowVars
<1>10. ASSUME NEW s \in Side, NEW c \in Carrier,
              \/ Attach(s, c) \/ AttachRejected(s, c) \/ PickFrame(s, c)
              \/ WriteFrame(s, c) \/ WriteAck(s, c) \/ EnqueueInbound(s, c)
              \/ ReceiveRST(s, c)
      PROVE  OpenBefore
  BY <1>1, <1>2, <1>4, <1>10 DEF Attach, AttachRejected, PickFrame, WriteFrame, WriteAck,
     EnqueueInbound, ReceiveRST, flowVars
<1>11. ASSUME NEW s \in Side, NEW c \in Carrier,
              StopAtEOF(s, c) \/ StopAtWriteError(s, c) \/ Detach(s, c)
      PROVE  OpenBefore
  <2>1. CASE StopAtEOF(s, c) \/ StopAtWriteError(s, c)
    BY <1>4, <2>1 DEF StopAtEOF, StopAtWriteError, StopCarrier, flowVars
  <2>2. CASE Detach(s, c)
    <3>1. PICK cond : ClaimIf(s, cond, NoCarriersOutcome(s))
      BY <2>2 DEF Detach
    <3> QED BY <1>2, <1>5, <3>1
  <2> QED BY <1>11, <2>1, <2>2
<1>12. ASSUME NEW s \in Side, NEW c \in Carrier, CommitFrame(s, c) \/ ReceiveAck(s, c)
      PROVE  OpenBefore
  BY <1>3, <1>4, <1>12 DEF CommitFrame, ReceiveAck, ApplyDeferred, Acknowledge
<1> QED BY <1>6, <1>7, <1>8, <1>9, <1>10, <1>11, <1>12, NextCases

\* The history changes by remembering a frame or by an acknowledgement.
HistoryQuiet == UNCHANGED <<histVars, nextSequence, globalAckOffset, globalAckFIN>>
Remembers(s, f) ==
  /\ NewFrame(s, f) /\ Remember(s, f)
  /\ UNCHANGED <<globalAckOffset, globalAckFIN, status, carrierNext, sending>>
Applies(s) ==
  /\ UNCHANGED nextSequence
  /\ \E a \in Frame : \E deferred : ApplyAck(s, a, deferred)

LEMMA RemembersFacts ==
  ASSUME FlowInv, NEW s \in Side, RememberData(s) \/ ReadEOF(s)
  PROVE  \E f \in Frame :
           /\ Remembers(s, f) /\ f.end = offset'[s]
           /\ f.type = "DATA" => f.end - f.off = read[s]
<1>1. /\ offset[s] \in Nat /\ read[s] \in Nat
      /\ localFIN[s] => offset[s] = Total[s]
      /\ offset \in [Side -> Nat] /\ offset[s] + read[s] <= Total[s] /\ Total[s] \in Nat
  BY ConstantsAssumption DEF FlowInv, TypeOK, TypeRead, ReceiverOK
<1>2. CASE RememberData(s)
  <2>1. PICK f \in Frame : f = DataFrame(offset[s], offset[s] + read[s])
    BY <1>1, FrameTypes
  <2>2. /\ f.type = "DATA" /\ f.off = offset[s] /\ f.end = offset[s] + read[s]
    BY <2>1 DEF DataFrame
  <2>3. ~localFIN[s] /\ read[s] > 0 /\ offset'[s] = offset[s] + read[s]
    BY <1>1, <1>2 DEF RememberData
  <2>4. Remember(s, f) /\ UNCHANGED <<globalAckOffset, globalAckFIN, status, carrierNext, sending>>
    BY <1>2, <2>1 DEF RememberData, ackVars, carrierVars
  <2>5. NewFrame(s, f) /\ f.end - f.off = read[s]
    BY <1>1, <2>2, <2>3 DEF NewFrame
  <2> QED BY <2>2, <2>3, <2>4, <2>5 DEF Remembers
<1>3. CASE ReadEOF(s)
  <2>1. PICK f \in Frame : f = FinFrame(offset[s])
    BY <1>1, FrameTypes
  <2>2. /\ f.type = "FIN" /\ f.off = offset[s] /\ f.end = offset[s]
    BY <2>1 DEF FinFrame
  <2>3. ~localFIN[s] /\ offset'[s] = offset[s]
    BY <1>3 DEF ReadEOF, AtEOF
  <2>4. Remember(s, f) /\ UNCHANGED <<globalAckOffset, globalAckFIN, status, carrierNext, sending>>
    BY <1>3, <2>1 DEF ReadEOF, ackVars, carrierVars
  <2> QED BY <2>2, <2>3, <2>4 DEF NewFrame, Remembers
<1> QED BY <1>2, <1>3

LEMMA AppliesFacts ==
  ASSUME FlowInv, NEW s \in Side, NEW c \in Carrier, CommitFrame(s, c) \/ ReceiveAck(s, c)
  PROVE  HistoryQuiet \/ Applies(s)
<1>1. UNCHANGED nextSequence
  BY DEF CommitFrame, ReceiveAck, readVars
<1>2. UNCHANGED <<globalAckOffset, globalAckFIN, histVars>> => HistoryQuiet
  BY <1>1 DEF HistoryQuiet
<1>3. UNCHANGED <<ackVars, histVars>> => HistoryQuiet
  BY <1>2 DEF ackVars
<1>4. \A a \in Frame : \A deferred : ApplyAck(s, a, deferred) => Applies(s)
  BY <1>1 DEF Applies
<1>5. CASE CommitFrame(s, c)
  <2>1. deferredAck[s] \in SUBSET Frame
    BY DEF FlowInv, TypeOK, TypeAck
  <2>2. \A w, v : ApplyDeferred(s, w, v) => HistoryQuiet \/ Applies(s)
    BY <1>2, <1>3, <1>4, <2>1 DEF ApplyDeferred
  <2> QED BY <1>5, <2>2 DEF CommitFrame
<1>6. CASE ReceiveAck(s, c)
  <2>1. Incoming(s, c) \in Frame
    <3>1. wire[Peer(s)][c] \in Seq(Frame) /\ wire[Peer(s)][c] # <<>>
      BY <1>6, NatFacts, PeerFacts DEF ReceiveAck, Receive
    <3> QED BY <3>1 DEF Incoming
  <2> QED BY <1>2, <1>3, <1>4, <1>6, <2>1 DEF ReceiveAck, Acknowledge
<1> QED BY <1>5, <1>6

LEMMA HistorySteps ==
  ASSUME FlowInv, Next
  PROVE  \/ HistoryQuiet
         \/ \E s \in Side, f \in Frame :
              /\ Remembers(s, f)
              /\ f.type = "DATA" => f.end - f.off = read[s]
         \/ \E s \in Side : Applies(s)
<1>1. ASSUME NEW s \in Side,
             \/ Start(s) \/ ReadData(s) \/ ReadNoCarriers(s) \/ BroadcastReturns(s)
             \/ BroadcastNoCarriers(s) \/ Deliver(s) \/ SendAck(s) \/ FinishDelivery(s)
             \/ FinishReset(s) \/ ResetFlow(s)
      PROVE  HistoryQuiet
  BY <1>1 DEF HistoryQuiet, Start, ReadData, ReadNoCarriers, BroadcastReturns,
     BroadcastNoCarriers, Deliver, SendAck, FinishDelivery, FinishReset, ResetFlow,
     readVars, ackVars
<1>2. ASSUME NEW c \in Carrier,
             AcceptOpen(c) \/ RefuseOpen(c) \/ Break(c) \/ CloseCarrier(c)
      PROVE  HistoryQuiet
  BY <1>2 DEF HistoryQuiet, AcceptOpen, RefuseOpen, Break, CloseCarrier, StopCarrier,
     readVars, ackVars
<1>3. ASSUME NEW s \in Side, NEW c \in Carrier,
             \/ Attach(s, c) \/ AttachRejected(s, c) \/ PickFrame(s, c)
             \/ WriteFrame(s, c) \/ WriteAck(s, c) \/ EnqueueInbound(s, c)
             \/ ReceiveRST(s, c)
             \/ StopAtEOF(s, c) \/ StopAtWriteError(s, c) \/ Detach(s, c)
      PROVE  HistoryQuiet
  BY <1>3 DEF HistoryQuiet, Attach, AttachRejected, PickFrame, WriteFrame, WriteAck,
     EnqueueInbound, ReceiveRST, StopAtEOF, StopAtWriteError, StopCarrier, Detach,
     readVars, ackVars
<1> QED BY <1>1, <1>2, <1>3, RemembersFacts, AppliesFacts, NextCases

\* Sequence numbers, the counter and the window, by every step.
LEMMA HistoryPart ==
  ASSUME FlowInv, HistorySeqOK, HistoryBounded, Next
  PROVE  HistorySeqOK' /\ HistoryBounded'
<1>1. CASE HistoryQuiet
  BY <1>1, HistorySeqStable, HistoryBoundedStable DEF HistoryQuiet, histVars
<1>2. ASSUME NEW s \in Side, NEW f \in Frame, Remembers(s, f)
      PROVE  HistorySeqOK' /\ HistoryBounded'
  BY <1>2, HistorySeqGrows, HistoryBoundedGrows DEF Remembers
<1>3. ASSUME NEW s \in Side, Applies(s)
      PROVE  HistorySeqOK' /\ HistoryBounded'
  BY <1>3, HistorySeqStable, HistoryBoundedApply DEF Applies
<1> QED BY <1>1, <1>2, <1>3, HistorySteps

-----------------------------------------------------------------------------
(* The frames in the hands of sendCarrier, by every step.                  *)

LEMMA HistoryShrinks ==
  ASSUME FlowInv, HistorySeqOK, HistoryBounded, NEW s \in Side, HistoryQuiet \/ Applies(s)
  PROVE  UNCHANGED nextSequence /\ \A t \in Side : history'[t] \subseteq history[t]
<1>1. CASE HistoryQuiet
  BY <1>1 DEF HistoryQuiet, histVars
<1>2. CASE Applies(s)
  BY <1>2, HistoryBoundedApply DEF Applies
<1> QED BY <1>1, <1>2

\* A step of one carrier c of s, on what it changes of the sending side.
LEMMA SendingOne ==
  ASSUME FlowInv, SendingSeqOK, UNCHANGED nextSequence,
         \A t \in Side : history'[t] \subseteq history[t],
         NEW s \in Side, NEW c \in Carrier,
         NEW st \in Status, status' = [status EXCEPT ![s][c] = st],
         NEW n \in Nat, carrierNext' = [carrierNext EXCEPT ![s][c] = n],
         NEW S \in SUBSET InFlight, sending' = [sending EXCEPT ![s][c] = S],
         \/ S = {} /\ n <= nextSequence[s]
         \/ /\ n = carrierNext[s][c]
            /\ st \in {"none", "opening", "refused"} =>
                 status[s][c] \in {"none", "opening", "refused"}
            /\ \A y \in S : \E x \in sending[s][c] : y.seq = x.seq /\ y.frame = x.frame
  PROVE  SendingSeqOK'
<1>1. /\ status \in [Side -> [Carrier -> Status]]
      /\ carrierNext \in [Side -> [Carrier -> Nat]]
      /\ sending \in [Side -> [Carrier -> SUBSET InFlight]]
  BY DEF FlowInv, TypeOK, TypeCarrier
<1>2. /\ \A t \in Side, d \in Carrier :
              status'[t][d] = IF t = s /\ d = c THEN st ELSE status[t][d]
      /\ \A t \in Side, d \in Carrier :
              carrierNext'[t][d] = IF t = s /\ d = c THEN n ELSE carrierNext[t][d]
      /\ \A t \in Side, d \in Carrier :
              sending'[t][d] = IF t = s /\ d = c THEN S ELSE sending[t][d]
  BY <1>1, Update2
<1>3. \A t \in Side, d \in Carrier :
        \/ sending'[t][d] = {} /\ carrierNext'[t][d] <= nextSequence[t]
        \/ /\ carrierNext'[t][d] = carrierNext[t][d]
           /\ status'[t][d] \in {"none", "opening", "refused"} =>
                status[t][d] \in {"none", "opening", "refused"}
           /\ \A y \in sending'[t][d] : \E x \in sending[t][d] :
                y.seq = x.seq /\ y.frame = x.frame
  BY <1>2
<1> QED BY <1>3, SendingSeqStable

\* Values that an update leaves as they are.
LEMMA SameUpdates ==
  ASSUME FlowInv, NEW s \in Side, NEW c \in Carrier
  PROVE  /\ status = [status EXCEPT ![s][c] = status[s][c]]
         /\ carrierNext = [carrierNext EXCEPT ![s][c] = carrierNext[s][c]]
         /\ sending = [sending EXCEPT ![s][c] = sending[s][c]]
         /\ status[s][c] \in Status /\ carrierNext[s][c] \in Nat
         /\ sending[s][c] \in SUBSET InFlight
<1>1. /\ status \in [Side -> [Carrier -> Status]]
      /\ carrierNext \in [Side -> [Carrier -> Nat]]
      /\ sending \in [Side -> [Carrier -> SUBSET InFlight]]
  BY DEF FlowInv, TypeOK, TypeCarrier
<1> QED BY <1>1

\* sendCarrier takes the oldest frame the carrier has not sent.
LEMMA PickedFacts ==
  ASSUME FlowInv, NEW s \in Side, NEW c \in Carrier, PickFrame(s, c)
  PROVE  \E h \in NextFrame(s, c), x \in InFlight :
           /\ h \in history[s] /\ x.seq = h.seq /\ x.frame = h.frame /\ ~x.written
           /\ \A t \in Side, d \in Carrier :
                sending'[t][d] = IF t = s /\ d = c THEN {x} ELSE sending[t][d]
<1>1. PICK h \in NextFrame(s, c) :
        sending' = [sending EXCEPT ![s][c] =
                      {[seq |-> h.seq, frame |-> h.frame, written |-> FALSE]}]
  BY DEF PickFrame
<1>2. h \in history[s] /\ h.seq \in Nat /\ h.frame \in Frame
  BY EntryFacts DEF NextFrame
<1>3. PICK x \in InFlight : x = [seq |-> h.seq, frame |-> h.frame, written |-> FALSE]
  BY <1>2 DEF InFlight
<1>4. sending \in [Side -> [Carrier -> SUBSET InFlight]]
  BY DEF FlowInv, TypeOK, TypeCarrier
<1>5. \A t \in Side, d \in Carrier :
        sending'[t][d] = IF t = s /\ d = c THEN {x} ELSE sending[t][d]
  BY <1>1, <1>3, <1>4, Update2
<1> QED BY <1>2, <1>3, <1>5

LEMMA PickFrameSending ==
  ASSUME FlowInv, HistorySeqOK, SendingSeqOK, NEW s \in Side, NEW c \in Carrier,
         PickFrame(s, c)
  PROVE  SendingSeqOK'
<1>. PICK h \in NextFrame(s, c), x \in InFlight :
       /\ h \in history[s] /\ x.seq = h.seq /\ x.frame = h.frame /\ ~x.written
       /\ \A t \in Side, d \in Carrier :
            sending'[t][d] = IF t = s /\ d = c THEN {x} ELSE sending[t][d]
  BY PickedFacts
<1>1. /\ UNCHANGED <<history, nextSequence, status, carrierNext>>
      /\ status[s][c] = "up"
  BY DEF PickFrame, histVars, readVars
<1>2. /\ x.seq < nextSequence[s]
      /\ \A g \in history[s] : g.seq = x.seq => g.frame = x.frame
  BY DEF HistorySeqOK
<1>3. \A g \in history[s] : g.seq < x.seq => g.seq < carrierNext[s][c]
  <2> SUFFICES ASSUME NEW g \in history[s], g.seq < x.seq, ~(g.seq < carrierNext[s][c])
               PROVE  FALSE
    OBVIOUS
  <2>1. g.seq \in Nat /\ h.seq \in Nat /\ carrierNext[s][c] \in Nat
    BY EntryFacts, NatFacts
  <2>2. h.seq <= g.seq
    BY <2>1 DEF NextFrame
  <2> QED BY <2>1, <2>2
<1> SUFFICES ASSUME NEW t \in Side, NEW d \in Carrier
             PROVE  /\ carrierNext[t][d] <= nextSequence[t]
                    /\ status[t][d] \in {"none", "opening", "refused"} => sending'[t][d] = {}
                    /\ \A y \in sending'[t][d] :
                         /\ y.seq < nextSequence[t]
                         /\ \A g \in history[t] :
                              /\ g.seq = y.seq => g.frame = y.frame
                              /\ g.seq < y.seq => g.seq < carrierNext[t][d]
  BY <1>1 DEF SendingSeqOK
<1>4. CASE t = s /\ d = c
  BY <1>1, <1>2, <1>3, <1>4 DEF SendingSeqOK
<1>5. CASE ~(t = s /\ d = c)
  BY <1>5 DEF SendingSeqOK
<1> QED BY <1>4, <1>5

\* A new carrier starts within the history, or right after it.
LEMMA ReplayStartFacts ==
  ASSUME FlowInv, HistorySeqOK, NEW s \in Side, NEW q \in ReplayStart(s)
  PROVE  q \in Nat /\ q <= nextSequence[s] /\ \A h \in history[s] : q <= h.seq
<1>1. nextSequence[s] \in Nat /\ \A h \in history[s] : h.seq \in Nat /\ h.seq < nextSequence[s]
  BY EntryFacts, NatFacts DEF HistorySeqOK
<1>2. CASE q = nextSequence[s]
  BY <1>1, <1>2 DEF ReplayStart
<1>3. CASE \E h \in history[s] : q = h.seq
  BY <1>1, <1>3 DEF ReplayStart
<1> QED BY <1>2, <1>3 DEF ReplayStart

LEMMA CarrierSending ==
  ASSUME FlowInv, HistorySeqOK, SendingSeqOK, UNCHANGED nextSequence,
         \A t \in Side : history'[t] \subseteq history[t],
         NEW s \in Side, NEW c \in Carrier,
         \/ Attach(s, c) \/ AttachRejected(s, c) \/ WriteFrame(s, c) \/ CommitFrame(s, c)
         \/ \E k : \E to \in {"draining", "closing"} : StopCarrier(s, c, k, to)
         \/ Detach(s, c)
  PROVE  SendingSeqOK'
<1>0. /\ status = [status EXCEPT ![s][c] = status[s][c]]
      /\ carrierNext = [carrierNext EXCEPT ![s][c] = carrierNext[s][c]]
      /\ sending = [sending EXCEPT ![s][c] = sending[s][c]]
      /\ status[s][c] \in Status /\ carrierNext[s][c] \in Nat
      /\ sending[s][c] \in SUBSET InFlight /\ nextSequence[s] \in Nat
      /\ {} \in SUBSET InFlight
  BY SameUpdates, NatFacts
<1>1. CASE Attach(s, c)
  <2>1. PICK q \in ReplayStart(s) : carrierNext' = [carrierNext EXCEPT ![s][c] = q]
    BY <1>1 DEF Attach
  <2>2. q \in Nat /\ q <= nextSequence[s]
    BY ReplayStartFacts
  <2>3. sending[s][c] = {}
    <3>1. status[s][c] \in {"none", "opening"}
      BY <1>1 DEF Attach, Opened, Side
    <3> QED BY <3>1 DEF SendingSeqOK
  <2>4. status' = [status EXCEPT ![s][c] = "up"] /\ "up" \in Status
    BY <1>1 DEF Attach, Status
  <2>5. sending' = [sending EXCEPT ![s][c] = {}]
    BY <1>0, <1>1, <2>3 DEF Attach
  <2> QED BY <1>0, <2>1, <2>2, <2>4, <2>5, SendingOne
<1>2. CASE AttachRejected(s, c)
  <2>1. status' = [status EXCEPT ![s][c] = "gone"] /\ "gone" \in Status
    BY <1>2 DEF AttachRejected, Status
  <2>2. /\ carrierNext' = [carrierNext EXCEPT ![s][c] = carrierNext[s][c]]
        /\ sending' = [sending EXCEPT ![s][c] = sending[s][c]]
    BY <1>0, <1>2 DEF AttachRejected
  <2> QED BY <1>0, <2>1, <2>2, SendingOne
<1>3. CASE WriteFrame(s, c)
  <2>1. PICK x \in sending[s][c] :
          sending' = [sending EXCEPT ![s][c] =
                        {[seq |-> x.seq, frame |-> x.frame, written |-> TRUE]}]
    BY <1>3 DEF WriteFrame
  <2>2. PICK y \in InFlight : y = [seq |-> x.seq, frame |-> x.frame, written |-> TRUE]
    BY <1>0 DEF InFlight
  <2>3. y.seq = x.seq /\ y.frame = x.frame /\ {y} \in SUBSET InFlight
    BY <2>2
  <2>4. /\ status' = [status EXCEPT ![s][c] = status[s][c]]
        /\ carrierNext' = [carrierNext EXCEPT ![s][c] = carrierNext[s][c]]
    BY <1>0, <1>3 DEF WriteFrame
  <2>5. sending' = [sending EXCEPT ![s][c] = {y}]
    BY <2>1, <2>2
  <2>6. \A z \in {y} : \E w \in sending[s][c] : z.seq = w.seq /\ z.frame = w.frame
    BY <2>1, <2>3
  <2> QED BY <1>0, <2>3, <2>4, <2>5, <2>6, SendingOne
<1>4. CASE CommitFrame(s, c)
  <2>1. PICK x \in sending[s][c] : carrierNext' = [carrierNext EXCEPT ![s][c] = x.seq + 1]
    BY <1>4 DEF CommitFrame
  <2>2. x.seq \in Nat /\ x.seq + 1 \in Nat /\ x.seq + 1 <= nextSequence[s]
    <3>1. x.seq \in Nat
      BY <1>0 DEF InFlight
    <3> QED BY <1>0, <3>1 DEF SendingSeqOK
  <2>3. /\ sending' = [sending EXCEPT ![s][c] = {}]
        /\ status' = [status EXCEPT ![s][c] = status[s][c]]
    BY <1>0, <1>4 DEF CommitFrame
  <2> QED BY <1>0, <2>1, <2>2, <2>3, SendingOne
<1>5. ASSUME NEW k, NEW to \in {"draining", "closing"}, StopCarrier(s, c, k, to)
      PROVE  SendingSeqOK'
  <2>1. status' = [status EXCEPT ![s][c] = to] /\ to \in Status
    BY <1>5 DEF StopCarrier, Status
  <2>2. PICK S \in SUBSET sending[s][c] : sending' = [sending EXCEPT ![s][c] = S]
    BY <1>5 DEF StopCarrier
  <2>3. carrierNext' = [carrierNext EXCEPT ![s][c] = carrierNext[s][c]]
    BY <1>0, <1>5 DEF StopCarrier
  <2>4. to \notin {"none", "opening", "refused"} /\ S \in SUBSET InFlight
    BY <1>0, <2>2
  <2> QED BY <1>0, <2>1, <2>2, <2>3, <2>4, SendingOne
<1>6. CASE Detach(s, c)
  <2>1. status' = [status EXCEPT ![s][c] = "gone"] /\ "gone" \in Status
    BY <1>6 DEF Detach, Status
  <2>2. /\ sending' = [sending EXCEPT ![s][c] = {}]
        /\ carrierNext' = [carrierNext EXCEPT ![s][c] = 0]
    BY <1>6 DEF Detach
  <2>3. 0 \in Nat /\ 0 <= nextSequence[s]
    BY <1>0
  <2> QED BY <1>0, <2>1, <2>2, <2>3, SendingOne
<1> QED BY <1>1, <1>2, <1>3, <1>4, <1>5, <1>6

LEMMA SendingPart ==
  ASSUME FlowInv, HistorySeqOK, HistoryBounded, SendingSeqOK, Next
  PROVE  SendingSeqOK'
<1>1. ASSUME NEW s \in Side,
             \/ Start(s) \/ ReadData(s) \/ ReadNoCarriers(s) \/ BroadcastReturns(s)
             \/ BroadcastNoCarriers(s) \/ Deliver(s) \/ SendAck(s) \/ FinishDelivery(s)
             \/ ResetFlow(s)
      PROVE  UNCHANGED <<history, nextSequence, status, carrierNext, sending>>
  BY <1>1 DEF Start, ReadData, ReadNoCarriers, BroadcastReturns,
     BroadcastNoCarriers, Deliver, SendAck, FinishDelivery, ResetFlow,
     readVars, histVars, carrierVars
<1>2. ASSUME NEW c \in Carrier, Break(c)
      PROVE  UNCHANGED <<history, nextSequence, status, carrierNext, sending>>
  BY <1>2 DEF Break, readVars, histVars, carrierVars
<1>3. ASSUME NEW s \in Side, NEW c \in Carrier,
             WriteAck(s, c) \/ EnqueueInbound(s, c) \/ ReceiveRST(s, c)
      PROVE  UNCHANGED <<history, nextSequence, status, carrierNext, sending>>
  BY <1>3 DEF WriteAck, EnqueueInbound, ReceiveRST, readVars, histVars, carrierVars
<1>4. UNCHANGED <<history, nextSequence, status, carrierNext, sending>> => SendingSeqOK'
  BY SendingSeqStable
<1>5. ASSUME NEW s \in Side, RememberData(s) \/ ReadEOF(s)
      PROVE  SendingSeqOK'
  <2>1. PICK f \in Frame : Remembers(s, f)
    BY <1>5, RemembersFacts
  <2> QED BY <2>1, SendingSeqGrows DEF Remembers
<1>6. ASSUME NEW s \in Side, FinishReset(s)
      PROVE  SendingSeqOK'
  <2>1. /\ UNCHANGED <<history, nextSequence>>
        /\ carrierNext' = [carrierNext EXCEPT ![s] = [c \in Carrier |-> 0]]
        /\ sending' = [sending EXCEPT ![s] = [c \in Carrier |-> {}]]
        /\ \E f : status' = [status EXCEPT ![s] = f]
    BY <1>6 DEF FinishReset, readVars, histVars
  <2>2. /\ status \in [Side -> [Carrier -> Status]]
        /\ carrierNext \in [Side -> [Carrier -> Nat]]
        /\ sending \in [Side -> [Carrier -> SUBSET InFlight]]
        /\ nextSequence \in [Side -> Nat]
    BY DEF FlowInv, TypeOK, TypeCarrier, TypeRead
  <2>3. \A t \in Side, d \in Carrier :
          \/ sending'[t][d] = {} /\ carrierNext'[t][d] = 0
          \/ /\ carrierNext'[t][d] = carrierNext[t][d]
             /\ status'[t][d] = status[t][d]
             /\ sending'[t][d] = sending[t][d]
    BY <2>1, <2>2
  <2>4. \A t \in Side : 0 <= nextSequence[t]
    BY <2>2
  <2> QED BY <2>1, <2>3, <2>4, SendingSeqStable
<1>7. ASSUME NEW c \in Carrier, AcceptOpen(c) \/ RefuseOpen(c)
      PROVE  SendingSeqOK'
  <2>1. PICK st \in {"opening", "refused"} :
          status' = [status EXCEPT !["server"][c] = st]
    BY <1>7 DEF AcceptOpen, RefuseOpen
  <2>2. /\ UNCHANGED <<history, nextSequence, carrierNext, sending>>
        /\ status["server"][c] = "none"
    BY <1>7 DEF AcceptOpen, RefuseOpen, readVars, histVars
  <2>3. "server" \in Side /\ st \in Status
    BY <2>1 DEF Side, Status
  <2>4. /\ carrierNext = [carrierNext EXCEPT !["server"][c] = carrierNext["server"][c]]
        /\ sending = [sending EXCEPT !["server"][c] = sending["server"][c]]
        /\ carrierNext["server"][c] \in Nat /\ sending["server"][c] \in SUBSET InFlight
    BY <2>3, SameUpdates
  <2>5. /\ carrierNext' = [carrierNext EXCEPT !["server"][c] = carrierNext["server"][c]]
        /\ sending' = [sending EXCEPT !["server"][c] = sending["server"][c]]
    BY <2>2, <2>4
  <2> QED BY <2>1, <2>2, <2>3, <2>4, <2>5, SendingOne
<1>8. ASSUME NEW s \in Side, NEW c \in Carrier, CommitFrame(s, c) \/ ReceiveAck(s, c)
      PROVE  SendingSeqOK'
  <2>1. UNCHANGED nextSequence /\ \A t \in Side : history'[t] \subseteq history[t]
    BY <1>8, AppliesFacts, HistoryShrinks
  <2>2. CASE CommitFrame(s, c)
    BY <2>1, <2>2, CarrierSending
  <2>3. CASE ReceiveAck(s, c)
    BY <2>1, <2>3, SendingSeqStable DEF ReceiveAck, carrierVars
  <2> QED BY <1>8, <2>2, <2>3
<1>9. ASSUME NEW s \in Side, NEW c \in Carrier,
             Attach(s, c) \/ AttachRejected(s, c) \/ WriteFrame(s, c) \/ Detach(s, c)
      PROVE  SendingSeqOK'
  <2>1. UNCHANGED <<history, nextSequence>>
    BY <1>9 DEF Attach, AttachRejected, WriteFrame, Detach, readVars, histVars
  <2> QED BY <1>9, <2>1, CarrierSending
<1>10. ASSUME NEW s \in Side, NEW c \in Carrier, NEW k, NEW to \in {"draining", "closing"},
              StopCarrier(s, c, k, to)
       PROVE  SendingSeqOK'
  <2>1. UNCHANGED <<history, nextSequence>>
    BY <1>10 DEF StopCarrier, readVars, histVars
  <2> QED BY <1>10, <2>1, CarrierSending
<1>11. ASSUME NEW s \in Side, NEW c \in Carrier,
              StopAtEOF(s, c) \/ StopAtWriteError(s, c)
       PROVE  SendingSeqOK'
  BY <1>10, <1>11 DEF StopAtEOF, StopAtWriteError
<1>12. ASSUME NEW c \in Carrier, CloseCarrier(c)
       PROVE  SendingSeqOK'
  BY <1>10, <1>12 DEF CloseCarrier, Side
<1> QED BY <1>1, <1>2, <1>3, <1>4, <1>5, <1>6, <1>7, <1>8, <1>9, <1>11, <1>12,
           PickFrameSending, NextCases

-----------------------------------------------------------------------------
(* Frames on their way, by every step.                                     *)

\* Steps that touch neither frames nor carriers.
LEMMA LifecyclePipe ==
  ASSUME FlowInv, FlowInv', PipeInv, OpenBefore,
         UNCHANGED <<QueueVars, connVars, carrierVars, history>>
  PROVE  PipeInv'
<1>1. \A t \in Side, d \in Carrier : SamePlace(t, d)
  BY DEF SamePlace, connVars, carrierVars
<1> QED BY <1>1, PipeQuiet DEF connVars

LEMMA RememberPipe ==
  ASSUME FlowInv, FlowInv', PipeInv, SendingSeqOK, NEW s \in Side, OpenBefore,
         RememberData(s) \/ ReadEOF(s)
  PROVE  PipeInv'
<1>1. PICK f \in Frame : Remembers(s, f)
  BY RemembersFacts
<1>2. PICK e \in Entry :
           /\ e.seq = nextSequence[s]
           /\ history'[s] = history[s] \cup {e}
           /\ \A t \in Side : t # s => history'[t] = history[t]
  BY <1>1, RememberFacts DEF Remembers
<1>3. UNCHANGED <<QueueVars, carrierVars, wire, broken>>
  BY DEF RememberData, ReadEOF, recvVars, connVars, QueueVars
<1>4. \A r \in Side : QueueOrdered(r)' /\ QueueKept(r)
  BY <1>3, QueuesSame DEF OpenBefore, QueueVars
<1>5. \A u \in Side, d \in Carrier : closed'[Peer(u)] = "open" =>
        WireOrdered(u, d)' /\ WireKept(u, d)
  BY <1>3, <1>4, WiresSame DEF OpenBefore
<1>6. ASSUME NEW t \in Side, NEW d \in Carrier, Healthy(t, d)'
      PROVE  CarrierKept(t, d)
  <2>1. Healthy(t, d) /\ WireKept(t, d) /\ sending'[t][d] = sending[t][d]
        /\ carrierNext'[t][d] = carrierNext[t][d]
    BY <1>3, <1>5, <1>6, PeerFacts DEF Healthy, OpenBefore, carrierVars
  <2>2. \A h \in history'[t] : h.seq < carrierNext[t][d] => h \in history[t]
    <3>1. CASE t = s
      <4>1. /\ carrierNext[s][d] \in Nat /\ nextSequence[s] \in Nat
            /\ carrierNext[s][d] <= nextSequence[s]
        BY NatFacts DEF SendingSeqOK
      <4> QED BY <1>2, <3>1, <4>1
    <3>2. CASE t # s
      BY <1>2, <3>2
    <3> QED BY <3>1, <3>2
  <2> QED BY <2>1, <2>2 DEF CarrierKept
<1> QED BY <1>4, <1>5, <1>6, PipeStep

\* The frames before an unacknowledged one reach it.
LEMMA HistoryReaches ==
  ASSUME FlowInv, HistorySeqOK, NEW s \in Side, NEW h \in history[s]
  PROVE  \/ h.frame.off <= nextOffset[Peer(s)]
         \/ \E g \in history[s] : /\ g.seq < h.seq /\ g.frame.type = "DATA"
                                  /\ h.frame.off <= g.frame.end
<1>1. /\ h.frame.off \in Nat /\ h.frame.end \in Nat /\ offset[s] \in Nat
      /\ h.frame.off <= h.frame.end /\ h.frame.end <= offset[s] /\ h.seq \in Nat
  BY EntryFacts
<1>2. /\ globalAckOffset[s] \in Nat /\ nextOffset[Peer(s)] \in Nat
      /\ globalAckOffset[s] <= nextOffset[Peer(s)]
  BY NatFacts, PeerFacts DEF FlowInv, AcksOK, TakenAcksOK
<1> SUFFICES ASSUME ~(h.frame.off <= nextOffset[Peer(s)])
             PROVE  \E g \in history[s] : /\ g.seq < h.seq /\ g.frame.type = "DATA"
                                          /\ h.frame.off <= g.frame.end
  OBVIOUS
<1>3. /\ h.frame.off - 1 \in 0 .. (offset[s] - 1)
      /\ globalAckOffset[s] <= h.frame.off - 1
  BY <1>1, <1>2
<1>4. PICK g \in history[s] :
        g.frame.off <= h.frame.off - 1 /\ h.frame.off - 1 < g.frame.end
  BY <1>3 DEF FlowInv, HistoryOK
<1>5. g.seq \in Nat /\ g.frame.off \in Nat /\ g.frame.end \in Nat
  BY EntryFacts
<1>6. g.seq < h.seq
  <2>1. ~(g.seq = h.seq)
    BY <1>1, <1>4, <1>5 DEF HistorySeqOK
  <2>2. ~(h.seq < g.seq)
    <3>1. h.seq < g.seq => h.frame.end <= g.frame.off
      BY DEF HistorySeqOK
    <3> QED BY <1>1, <1>4, <1>5, <3>1
  <2> QED BY <1>1, <1>5, <2>1, <2>2
<1>7. g.frame.type = "DATA"
  BY <1>6 DEF HistorySeqOK
<1> QED BY <1>1, <1>4, <1>5, <1>6, <1>7

LEMMA PickFramePipe ==
  ASSUME FlowInv, FlowInv', PipeInv, HistorySeqOK, OpenBefore,
         NEW s \in Side, NEW c \in Carrier, PickFrame(s, c)
  PROVE  PipeInv'
<1>. PICK h \in NextFrame(s, c), x \in InFlight :
       /\ h \in history[s] /\ x.seq = h.seq /\ x.frame = h.frame /\ ~x.written
       /\ \A t \in Side, d \in Carrier :
            sending'[t][d] = IF t = s /\ d = c THEN {x} ELSE sending[t][d]
  BY PickedFacts
<1>1. UNCHANGED <<QueueVars, wire, broken, status, carrierNext, history, closed>>
  BY DEF PickFrame, recvVars, connVars, histVars, flowVars, QueueVars
<1>2. ASSUME Healthy(s, c)
      PROVE  WireReaches(s, c, h.frame.off)
  <2>1. h.frame.off \in Nat
    BY EntryFacts
  <2>2. CASE h.frame.off <= nextOffset[Peer(s)]
    BY <2>2, ReachForms
  <2>3. ASSUME NEW g \in history[s], g.seq < h.seq, g.frame.type = "DATA",
               h.frame.off <= g.frame.end
        PROVE  WireReaches(s, c, h.frame.off)
    <3>1. g.seq \in Nat /\ h.seq \in Nat /\ carrierNext[s][c] \in Nat /\ g.frame.end \in Nat
      BY EntryFacts, NatFacts
    <3>2. g.seq < carrierNext[s][c]
      BY <2>3, <3>1 DEF NextFrame
    <3>3. Arrived(s, c, g.frame)
      BY <1>2, <3>2 DEF PipeInv, CarrierCopyComplete
    <3>4. CASE g.frame.end <= nextOffset[Peer(s)]
      <4>1. nextOffset[Peer(s)] \in Nat
        BY NatFacts, PeerFacts
      <4>2. h.frame.off <= nextOffset[Peer(s)]
        BY <2>1, <2>3, <3>1, <3>4, <4>1
      <4> QED BY <4>2, ReachForms
    <3>5. CASE \E i \in 1 .. Len(wire[s][c]) : wire[s][c][i] = g.frame
      BY <2>3, <3>5 DEF WireReaches, InStream
    <3>6. CASE \E i \in 1 .. Len(inbound[Peer(s)]) : inbound[Peer(s)][i].frame = g.frame
      BY <2>3, <3>6 DEF WireReaches, QueueReaches
    <3> QED BY <2>3, <3>3, <3>4, <3>5, <3>6 DEF Arrived
  <2> QED BY <2>2, <2>3, HistoryReaches
<1>3. ASSUME Healthy(s, c)' PROVE CarrierGood(s, c)'
  <2>1. Healthy(s, c)
    BY <1>1, <1>3 DEF Healthy
  <2>2. WireReaches(s, c, h.frame.off)'
    BY <1>1, <1>2, <2>1 DEF WireReaches, QueueReaches, QueueVars
  <2>3. sending'[s][c] = {x}
    OBVIOUS
  <2>4. \A g \in history[s] : g.seq < carrierNext[s][c] => Arrived(s, c, g.frame)
    BY <2>1 DEF PipeInv, CarrierCopyComplete
  <2>5. \A g \in history'[s] : g.seq < carrierNext'[s][c] => Arrived(s, c, g.frame)'
    BY <1>1, <2>4 DEF Arrived, QueueVars
  <2> QED BY <2>2, <2>3, <2>5 DEF CarrierGood
<1>4. \A t \in Side, d \in Carrier :
        SamePlace(t, d) \/ ~Healthy(t, d)' \/ CarrierGood(t, d)'
  BY <1>1, <1>3 DEF SamePlace
<1> QED BY <1>1, <1>4, PipeQuiet

LEMMA AttachPipe ==
  ASSUME FlowInv, FlowInv', PipeInv, HistorySeqOK, SendingSeqOK, OpenBefore,
         NEW s \in Side, NEW c \in Carrier, Attach(s, c)
  PROVE  PipeInv'
<1>1. UNCHANGED <<QueueVars, wire, broken, sending, history, closed>>
  BY DEF Attach, recvVars, connVars, histVars, flowVars, QueueVars
<1>2. PICK q \in ReplayStart(s) : carrierNext' = [carrierNext EXCEPT ![s][c] = q]
  BY DEF Attach
<1>3. /\ status \in [Side -> [Carrier -> Status]]
      /\ carrierNext \in [Side -> [Carrier -> Nat]]
      /\ status' = [status EXCEPT ![s][c] = "up"]
  BY DEF FlowInv, TypeOK, TypeCarrier, Attach
<1>4. /\ carrierNext'[s][c] = q
      /\ \A t \in Side, d \in Carrier : t # s \/ d # c =>
           carrierNext'[t][d] = carrierNext[t][d] /\ status'[t][d] = status[t][d]
  BY <1>2, <1>3
<1>5. sending[s][c] = {}
  <2>1. status[s][c] \in {"none", "opening"}
    BY DEF Attach, Opened, Side
  <2> QED BY <2>1 DEF SendingSeqOK
<1>6. \A h \in history[s] : ~(h.seq < q)
  <2>1. q \in Nat /\ \A h \in history[s] : q <= h.seq
    BY ReplayStartFacts
  <2>2. \A h \in history[s] : h.seq \in Nat
    BY EntryFacts
  <2> QED BY <2>1, <2>2
<1>7. CarrierGood(s, c)'
  BY <1>1, <1>4, <1>5, <1>6 DEF CarrierGood
<1>8. \A t \in Side, d \in Carrier :
        SamePlace(t, d) \/ ~Healthy(t, d)' \/ CarrierGood(t, d)'
  BY <1>1, <1>4, <1>7 DEF SamePlace
<1> QED BY <1>1, <1>8, PipeQuiet

LEMMA OpenPipe ==
  ASSUME FlowInv, FlowInv', PipeInv, OpenBefore, NEW c \in Carrier,
         AcceptOpen(c) \/ RefuseOpen(c)
  PROVE  PipeInv'
<1>1. UNCHANGED <<QueueVars, wire, broken, carrierNext, sending, history, closed>>
  BY DEF AcceptOpen, RefuseOpen, recvVars, connVars, histVars, flowVars, QueueVars
<1>2. PICK st \in {"opening", "refused"} : status' = [status EXCEPT !["server"][c] = st]
  BY DEF AcceptOpen, RefuseOpen
<1>3. status \in [Side -> [Carrier -> Status]] /\ "server" \in Side
  BY DEF FlowInv, TypeOK, TypeCarrier, Side
<1>4. \A t \in Side, d \in Carrier : status'[t][d] = status[t][d] \/ status'[t][d] # "up"
  BY <1>2, <1>3
<1>5. \A t \in Side, d \in Carrier : SamePlace(t, d) \/ ~Healthy(t, d)'
  BY <1>1, <1>4 DEF SamePlace, Healthy
<1> QED BY <1>1, <1>5, PipeQuiet

LEMMA DetachPipe ==
  ASSUME FlowInv, FlowInv', PipeInv, OpenBefore, NEW s \in Side, NEW c \in Carrier,
         Detach(s, c)
  PROVE  PipeInv'
<1>1. UNCHANGED <<QueueVars, wire, broken, history>>
  BY DEF Detach, recvVars, connVars, histVars, QueueVars
<1>2. /\ status' = [status EXCEPT ![s][c] = "gone"]
      /\ sending' = [sending EXCEPT ![s][c] = {}]
      /\ carrierNext' = [carrierNext EXCEPT ![s][c] = 0]
  BY DEF Detach
<1>3. /\ status \in [Side -> [Carrier -> Status]]
      /\ carrierNext \in [Side -> [Carrier -> Nat]]
      /\ sending \in [Side -> [Carrier -> SUBSET InFlight]]
  BY DEF FlowInv, TypeOK, TypeCarrier
<1>4. /\ status'[s][c] # "up"
      /\ \A t \in Side, d \in Carrier : t # s \/ d # c =>
           /\ carrierNext'[t][d] = carrierNext[t][d] /\ status'[t][d] = status[t][d]
           /\ sending'[t][d] = sending[t][d]
  BY <1>2, <1>3
<1>5. \A t \in Side, d \in Carrier : SamePlace(t, d) \/ ~Healthy(t, d)'
  BY <1>1, <1>4 DEF SamePlace, Healthy
<1> QED BY <1>1, <1>5, PipeQuiet

LEMMA PipeFixed ==
  ASSUME UNCHANGED <<QueueVars, wire>>
  PROVE  /\ \A t, d, o : WireReaches(t, d, o)' <=> WireReaches(t, d, o)
         /\ \A t, d, f : Arrived(t, d, f)' <=> Arrived(t, d, f)
BY DEF WireReaches, QueueReaches, Arrived, QueueVars

LEMMA CommitFramePipe ==
  ASSUME FlowInv, FlowInv', PipeInv, HistorySeqOK, HistoryBounded, SendingSeqOK, OpenBefore,
         NEW s \in Side, NEW c \in Carrier, CommitFrame(s, c)
  PROVE  PipeInv'
<1>1. UNCHANGED <<QueueVars, wire, broken, status>>
  BY DEF CommitFrame, recvVars, connVars, QueueVars
<1>2. PICK x \in sending[s][c] :
        x.written /\ carrierNext' = [carrierNext EXCEPT ![s][c] = x.seq + 1]
  BY DEF CommitFrame
<1>3. /\ carrierNext \in [Side -> [Carrier -> Nat]]
      /\ sending \in [Side -> [Carrier -> SUBSET InFlight]]
      /\ sending' = [sending EXCEPT ![s][c] = {}]
  BY DEF FlowInv, TypeOK, TypeCarrier, CommitFrame
<1>4. /\ carrierNext'[s][c] = x.seq + 1 /\ sending'[s][c] = {}
      /\ \A t \in Side, d \in Carrier : t # s \/ d # c =>
           carrierNext'[t][d] = carrierNext[t][d] /\ sending'[t][d] = sending[t][d]
  BY <1>2, <1>3
<1>5. \A t \in Side : history'[t] \subseteq history[t]
  BY AppliesFacts, HistoryShrinks
<1>6. ASSUME Healthy(s, c)', NEW h \in history'[s], h.seq < carrierNext'[s][c]
      PROVE  Arrived(s, c, h.frame)'
  <2>1. Healthy(s, c)
    BY <1>1, <1>6, PeerFacts DEF Healthy, OpenBefore
  <2>2. h \in history[s] /\ h.seq \in Nat /\ x.seq \in Nat
    BY <1>5, EntryFacts, SendingFrames
  <2>3. h.seq < x.seq \/ h.seq = x.seq
    BY <1>4, <1>6, <2>2
  <2>4. CASE h.seq < x.seq
    <3>1. h.seq < carrierNext[s][c]
      BY <2>2, <2>4 DEF SendingSeqOK
    <3> QED BY <1>1, <2>1, <2>2, <3>1, PipeFixed DEF PipeInv, CarrierCopyComplete
  <2>5. CASE h.seq = x.seq
    <3>1. h.frame = x.frame
      BY <2>2, <2>5 DEF SendingSeqOK
    <3> QED BY <1>1, <1>2, <2>1, <3>1, PipeFixed DEF PipeInv, SendingInOrder
  <2> QED BY <2>3, <2>4, <2>5
<1>7. Healthy(s, c)' => CarrierGood(s, c)'
  BY <1>4, <1>6 DEF CarrierGood
<1>8. \A t \in Side, d \in Carrier :
        SamePlace(t, d) \/ ~Healthy(t, d)' \/ CarrierGood(t, d)'
  BY <1>1, <1>4, <1>5, <1>7 DEF SamePlace
<1> QED BY <1>1, <1>8, PipeQuiet

\* The connections after one of them was written or read.
LEMMA TransmitEffect ==
  ASSUME FlowInv, NEW s \in Side, NEW c \in Carrier, NEW f \in Frame,
         wire' = Transmit(s, c, f), ~broken[c]
  PROVE  /\ Appended(wire'[s][c], wire[s][c], f)
         /\ \A u \in Side, e \in Carrier : u # s \/ e # c => wire'[u][e] = wire[u][e]
<1>1. wire[s][c] \in Seq(Frame)
  BY NatFacts
<1>2. PICK v : v = Append(wire[s][c], f) /\ Appended(v, wire[s][c], f)
  BY <1>1, AppendIndex
<1>3. wire' = [wire EXCEPT ![s][c] = v]
  BY <1>2 DEF Transmit
<1>4. /\ wire'[s][c] = v
      /\ \A u \in Side, e \in Carrier : u # s \/ e # c => wire'[u][e] = wire[u][e]
  <2>1. wire \in [Side -> [Carrier -> Seq(Frame)]]
    BY DEF FlowInv, TypeOK, TypeConn
  <2> QED BY <1>3, <2>1
<1>5. Appended(wire'[s][c], wire[s][c], f)
  BY <1>2, <1>4
<1> QED BY <1>4, <1>5

LEMMA WriteFramePipe ==
  ASSUME FlowInv, FlowInv', PipeInv, OpenBefore,
         NEW s \in Side, NEW c \in Carrier, WriteFrame(s, c)
  PROVE  PipeInv'
<1>1. /\ UNCHANGED <<QueueVars, status, broken, carrierNext, history, closed>>
      /\ status[s][c] = "up"
  BY DEF WriteFrame, recvVars, histVars, flowVars, QueueVars
<1>2. PICK x \in sending[s][c] :
        /\ wire' = Transmit(s, c, x.frame)
        /\ sending' = [sending EXCEPT ![s][c] =
                         {[seq |-> x.seq, frame |-> x.frame, written |-> TRUE]}]
  BY DEF WriteFrame
<1>3. PICK f \in Frame : f = x.frame /\ InStream(f)
  BY SendingFrames
<1>4. /\ \A y \in sending'[s][c] : y.frame = f
      /\ \A t \in Side, d \in Carrier : t # s \/ d # c => sending'[t][d] = sending[t][d]
  <2>1. sending \in [Side -> [Carrier -> SUBSET InFlight]]
    BY DEF FlowInv, TypeOK, TypeCarrier
  <2>2. PICK y : y = [seq |-> x.seq, frame |-> x.frame, written |-> TRUE]
    OBVIOUS
  <2>3. y.frame = f /\ sending' = [sending EXCEPT ![s][c] = {y}]
    BY <1>2, <1>3, <2>2
  <2>4. sending'[s][c] = {y}
    BY <2>1, <2>3
  <2>5. \A t \in Side, d \in Carrier : t # s \/ d # c => sending'[t][d] = sending[t][d]
    BY <2>1, <2>3
  <2> QED BY <2>3, <2>4, <2>5
<1>5. \A r \in Side : QueueOrdered(r)' /\ QueueKept(r)
  BY <1>1, QueuesSame
<1>6. \A t \in Side, d \in Carrier : t # s \/ d # c => SamePlace(t, d)
  BY <1>1, <1>4 DEF SamePlace
<1>7. CASE broken[c]
  <2>1. UNCHANGED wire
    BY <1>2, <1>7 DEF Transmit
  <2>2. ~Healthy(s, c)'
    BY <1>1, <1>7 DEF Healthy
  <2> QED BY <1>1, <1>6, <2>1, <2>2, PipeQuiet
<1>8. CASE ~broken[c]
  <2>1. /\ Appended(wire'[s][c], wire[s][c], f)
        /\ \A u \in Side, e \in Carrier : u # s \/ e # c => wire'[u][e] = wire[u][e]
    BY <1>2, <1>3, <1>8, TransmitEffect
  <2>2. ASSUME closed[Peer(s)] = "open"
        PROVE  WireOrdered(s, c)' /\ WireKept(s, c) /\ Arrived(s, c, f)'
    <3>1. Healthy(s, c)
      BY <1>1, <1>8, <2>2 DEF Healthy
    <3>2. WireReaches(s, c, f.off)
      BY <1>3, <3>1 DEF PipeInv, SendingInOrder
    <3>3. WireOrdered(s, c)
      BY <2>2, WireInOrderParts DEF PipeInv
    <3> QED BY <1>5, <2>1, <3>2, <3>3, PeerFacts, WireAppend
  <2>3. ASSUME Healthy(s, c)' PROVE CarrierGood(s, c)'
    <3>1. Healthy(s, c) /\ closed[Peer(s)] = "open"
      BY <1>1, <2>3 DEF Healthy
    <3>2. CarrierGood(s, c) /\ WireKept(s, c) /\ Arrived(s, c, f)'
      BY <2>2, <3>1, CarrierParts DEF PipeInv
    <3>3. WireReaches(s, c, f.off) /\ f.off \in Nat
      BY <1>3, <3>2 DEF CarrierGood, Frame
    <3>4. \A y \in sending'[s][c] : /\ WireReaches(s, c, y.frame.off)'
                                    /\ y.written => Arrived(s, c, y.frame)'
      <4>1. WireReaches(s, c, f.off)'
        BY <3>2, <3>3 DEF WireKept
      <4> QED BY <1>4, <3>2, <4>1
    <3>5. \A h \in history[s] : h.frame \in Frame /\ InStream(h.frame)
      BY EntryFacts
    <3>6. \A h \in history'[s] : h.seq < carrierNext'[s][c] => Arrived(s, c, h.frame)'
      BY <1>1, <3>2, <3>5 DEF CarrierGood, WireKept
    <3> QED BY <3>4, <3>6 DEF CarrierGood
  <2>4. closed'[Peer(s)] = "open" => WireOrdered(s, c)'
    BY <1>1, <2>2
  <2> QED BY <1>5, <1>6, <2>1, <2>3, <2>4, PipeOne
<1> QED BY <1>7, <1>8

\* One connection t, d is written or read, and no carrier of a side moves.
LEMMA PipeMoves ==
  ASSUME FlowInv, FlowInv', PipeInv, OpenBefore,
         \A r \in Side : QueueOrdered(r)' /\ QueueKept(r),
         NEW t \in Side, NEW d \in Carrier,
         \A u \in Side, e \in Carrier : u # t \/ e # d => wire'[u][e] = wire[u][e],
         closed'[Peer(t)] = "open" => WireOrdered(t, d)' /\ WireKept(t, d),
         UNCHANGED <<carrierNext, sending, broken, status>>,
         \A u \in Side : history'[u] \subseteq history[u]
  PROVE  PipeInv'
<1>1. \A u \in Side, e \in Carrier : SamePlace(u, e)
  BY DEF SamePlace
<1>2. WireKept(t, d) \/ ~Healthy(t, d)'
  BY DEF Healthy
<1> QED BY <1>1, <1>2, PipeOne

LEMMA WriteAckPipe ==
  ASSUME FlowInv, FlowInv', PipeInv, OpenBefore,
         NEW s \in Side, NEW c \in Carrier, WriteAck(s, c)
  PROVE  PipeInv'
<1>1. UNCHANGED <<QueueVars, carrierVars, broken, history>>
  BY DEF WriteAck, recvVars, histVars, QueueVars
<1>2. PICK a \in pendingAck[s][c] : wire' = Transmit(s, c, a)
  BY DEF WriteAck
<1>3. PICK f \in Frame : f = a /\ ~InStream(f)
  BY DEF FlowInv, TypeOK, AcksOK, KeptAcksOK, AckOK, InStream
<1>4. \A r \in Side : QueueOrdered(r)' /\ QueueKept(r)
  BY <1>1, QueuesSame DEF OpenBefore
<1>5. CASE broken[c]
  <2>1. UNCHANGED wire
    BY <1>2, <1>5 DEF Transmit
  <2> QED BY <1>1, <2>1, LifecyclePipe DEF connVars
<1>6. CASE ~broken[c]
  <2>1. /\ Appended(wire'[s][c], wire[s][c], f)
        /\ \A u \in Side, e \in Carrier : u # s \/ e # c => wire'[u][e] = wire[u][e]
    BY <1>2, <1>3, <1>6, TransmitEffect
  <2>2. closed'[Peer(s)] = "open" => WireOrdered(s, c)' /\ WireKept(s, c)
    <3> SUFFICES ASSUME closed'[Peer(s)] = "open"
                 PROVE  WireOrdered(s, c)' /\ WireKept(s, c)
      OBVIOUS
    <3>1. WireOrdered(s, c)
      BY WireInOrderParts, PeerFacts DEF PipeInv, OpenBefore
    <3> QED BY <1>3, <1>4, <2>1, <3>1, PeerFacts, WireAppend
  <2> QED BY <1>1, <1>4, <2>1, <2>2, PipeMoves DEF carrierVars
<1> QED BY <1>5, <1>6

LEMMA ReceiveEffect ==
  ASSUME FlowInv, NEW s \in Side, NEW c \in Carrier, NEW kind, Receive(s, c, kind)
  PROVE  \E g \in Frame :
           /\ g = Incoming(s, c) /\ g = wire[Peer(s)][c][1] /\ g.type \in kind
           /\ Dropped(wire'[Peer(s)][c], wire[Peer(s)][c])
           /\ 1 \in 1 .. Len(wire[Peer(s)][c])
           /\ \A u \in Side, e \in Carrier : u # Peer(s) \/ e # c =>
                wire'[u][e] = wire[u][e]
<1> DEFINE q == wire[Peer(s)][c]
<1>1. q \in Seq(Frame) /\ q # <<>> /\ Peer(s) \in Side
  BY NatFacts, PeerFacts DEF Receive
<1>2. PICK v, g : v = Tail(q) /\ g = Head(q) /\ Dropped(v, q) /\ g = q[1] /\ g \in Frame
  BY <1>1, TailIndex
<1>3. wire' = [wire EXCEPT ![Peer(s)][c] = v]
  BY <1>2 DEF Receive
<1>4. /\ wire'[Peer(s)][c] = v
      /\ \A u \in Side, e \in Carrier : u # Peer(s) \/ e # c => wire'[u][e] = wire[u][e]
  <2>1. wire \in [Side -> [Carrier -> Seq(Frame)]]
    BY DEF FlowInv, TypeOK, TypeConn
  <2> QED BY <1>1, <1>3, <2>1
<1>5. g = Incoming(s, c) /\ g.type \in kind /\ 1 \in 1 .. Len(q)
  BY <1>1, <1>2 DEF Incoming, Receive
<1>6. Dropped(wire'[Peer(s)][c], wire[Peer(s)][c]) /\ g \in Frame /\ g = q[1]
  BY <1>2, <1>4
<1> QED BY <1>4, <1>5, <1>6

LEMMA ReceivePipe ==
  ASSUME FlowInv, FlowInv', PipeInv, HistorySeqOK, HistoryBounded, OpenBefore,
         NEW s \in Side, NEW c \in Carrier, ReceiveAck(s, c) \/ ReceiveRST(s, c)
  PROVE  PipeInv'
<1>1. /\ UNCHANGED <<QueueVars, carrierVars, broken>>
      /\ \A u \in Side : history'[u] \subseteq history[u]
  <2>1. CASE ReceiveAck(s, c)
    BY <2>1, AppliesFacts, HistoryShrinks DEF ReceiveAck, recvVars, QueueVars
  <2>2. CASE ReceiveRST(s, c)
    BY <2>2 DEF ReceiveRST, recvVars, histVars, QueueVars
  <2> QED BY <2>1, <2>2
<1>2. PICK kind : Receive(s, c, kind) /\ "DATA" \notin kind /\ "FIN" \notin kind
  BY DEF ReceiveAck, ReceiveRST
<1>3. PICK g \in Frame :
        /\ g = wire[Peer(s)][c][1] /\ g.type \in kind
        /\ Dropped(wire'[Peer(s)][c], wire[Peer(s)][c])
        /\ \A u \in Side, e \in Carrier : u # Peer(s) \/ e # c => wire'[u][e] = wire[u][e]
  BY <1>2, ReceiveEffect
<1>4. ~InStream(g)
  BY <1>2, <1>3 DEF InStream
<1>5. \A r \in Side : QueueOrdered(r)' /\ QueueKept(r)
  BY <1>1, QueuesSame DEF OpenBefore
<1>6. ASSUME closed'[Peer(Peer(s))] = "open"
      PROVE  WireOrdered(Peer(s), c)' /\ WireKept(Peer(s), c)
  <2>1. WireOrdered(Peer(s), c) /\ Peer(s) \in Side /\ QueueKept(Peer(Peer(s)))
    BY <1>5, <1>6, WireInOrderParts, PeerFacts DEF PipeInv, OpenBefore
  <2> QED BY <1>3, <1>4, <2>1, WireTail
<1> QED BY <1>1, <1>3, <1>5, <1>6, PeerFacts, PipeMoves DEF carrierVars

LEMMA EnqueueInboundPipe ==
  ASSUME FlowInv, FlowInv', PipeInv, OpenBefore,
         NEW s \in Side, NEW c \in Carrier, EnqueueInbound(s, c)
  PROVE  PipeInv'
<1>1. /\ UNCHANGED <<nextOffset, held, finOffset, carrierVars, broken, history, closed>>
      /\ closed[s] = "open"
  BY DEF EnqueueInbound, Receive, histVars, flowVars
<1>2. PICK g \in Frame :
        /\ g = Incoming(s, c) /\ g = wire[Peer(s)][c][1] /\ g.type \in {"DATA", "FIN"}
        /\ Dropped(wire'[Peer(s)][c], wire[Peer(s)][c])
        /\ 1 \in 1 .. Len(wire[Peer(s)][c])
        /\ \A u \in Side, e \in Carrier : u # Peer(s) \/ e # c => wire'[u][e] = wire[u][e]
  BY ReceiveEffect DEF EnqueueInbound
<1>3. PICK e \in [src : Carrier, frame : Frame] : e = [src |-> c, frame |-> g]
  OBVIOUS
<1>4. /\ Appended(inbound'[s], inbound[s], e)
      /\ \A r \in Side : r # s => inbound'[r] = inbound[r]
  <2>1. /\ inbound \in [Side -> Seq([src : Carrier, frame : Frame])]
        /\ inbound' = [inbound EXCEPT ![s] = Append(@, e)]
    BY <1>2, <1>3 DEF FlowInv, TypeOK, TypeRecv, EnqueueInbound
  <2>2. inbound'[s] = Append(inbound[s], e) /\ inbound[s] \in Seq([src : Carrier, frame : Frame])
    BY <2>1
  <2>3. \A r \in Side : r # s => inbound'[r] = inbound[r]
    BY <2>1
  <2> QED BY <2>2, <2>3, AppendIndex
<1>5. WireOrdered(Peer(s), c)
  BY <1>1, PeerFacts, WireInOrderParts DEF PipeInv
<1>6. QueueReaches(s, g.off)
  BY <1>2, <1>5, PeerFacts DEF WireOrdered, Chain, Reached, InStream
<1>7. /\ QueueKept(s) /\ QueueOrdered(s)' /\ Queued(s, g)'
      /\ \A o \in Nat : o <= g.end => QueueReaches(s, o)'
  <2>1. QueueOrdered(s)
    BY QueueInOrderParts DEF PipeInv
  <2>2. g = e.frame
    BY <1>3
  <2>3. /\ QueueKept(s) /\ QueueOrdered(s)' /\ Queued(s, e.frame)'
        /\ \A o \in Nat : o <= e.frame.end => QueueReaches(s, o)'
    BY <1>1, <1>4, <1>6, <2>1, <2>2, QueueAppend
  <2> QED BY <2>2, <2>3
<1>8. \A r \in Side : QueueOrdered(r)' /\ QueueKept(r)
  <2>1. ASSUME NEW r \in Side, r # s PROVE QueueOrdered(r)' /\ QueueKept(r)
    BY <1>1, <1>4, <2>1, QueueSame, QueueOrderedSame, QueueInOrderParts DEF PipeInv
  <2> QED BY <1>7, <2>1
<1>9. WireOrdered(Peer(s), c)' /\ WireKept(Peer(s), c)
  <2>1. Peer(s) \in Side /\ Peer(Peer(s)) = s
    BY PeerFacts
  <2>2. /\ QueueKept(Peer(Peer(s))) /\ Queued(Peer(Peer(s)), g)'
        /\ \A o \in Nat : o <= g.end => QueueReaches(Peer(Peer(s)), o)'
    BY <1>7, <2>1
  <2> QED BY <1>2, <1>5, <2>1, <2>2, WireTail
<1> QED BY <1>1, <1>2, <1>8, <1>9, PeerFacts, PipeMoves DEF carrierVars

\* What connection c carried is cut, and c is broken from now on.
LEMMA LosePipe ==
  ASSUME FlowInv, FlowInv', PipeInv, OpenBefore, UNCHANGED QueueVars,
         NEW c \in Carrier, broken'[c],
         \A u \in Side : Cut(wire'[u][c], wire[u][c]),
         \A u \in Side, e \in Carrier : e # c => wire'[u][e] = wire[u][e] /\ SamePlace(u, e)
  PROVE  PipeInv'
<1>1. \A r \in Side : QueueOrdered(r)' /\ QueueKept(r)
  BY QueuesSame DEF OpenBefore
<1>2. ASSUME NEW t \in Side, NEW d \in Carrier, closed'[Peer(t)] = "open"
      PROVE  /\ WireOrdered(t, d)'
             /\ d # c => WireKept(t, d)
  <2>1. WireOrdered(t, d) /\ QueueKept(Peer(t))
    BY <1>1, <1>2, WireInOrderParts, PeerFacts DEF PipeInv, OpenBefore
  <2>2. CASE d = c
    BY <2>1, <2>2, WireCut
  <2>3. CASE d # c
    BY <2>1, <2>3, WireSame
  <2> QED BY <2>2, <2>3
<1>3. ASSUME NEW t \in Side, NEW d \in Carrier, Healthy(t, d)'
      PROVE  CarrierKept(t, d)
  <2>1. d # c /\ closed'[Peer(t)] = "open"
    BY <1>3 DEF Healthy
  <2>2. WireKept(t, d) /\ SamePlace(t, d)
    BY <1>2, <2>1
  <2> QED BY <1>3, <2>1, <2>2, SamePlaceKept, PeerFacts DEF OpenBefore
<1> QED BY <1>1, <1>2, <1>3, PipeStep

LEMMA CutSelf ==
  ASSUME NEW S, NEW q \in Seq(S)
  PROVE  Cut(q, q) /\ Cut(<<>>, q)
<1>1. Len(q) \in Nat /\ Len(<<>>) = 0
  OBVIOUS
<1> QED BY <1>1 DEF Cut

\* One connection loses the end of what it carried.
LEMMA CutEffect ==
  ASSUME FlowInv, NEW t \in Side, NEW c \in Carrier, NEW v,
         wire' = [wire EXCEPT ![t][c] = v], Cut(v, wire[t][c])
  PROVE  /\ \A u \in Side : Cut(wire'[u][c], wire[u][c])
         /\ \A u \in Side, e \in Carrier : e # c => wire'[u][e] = wire[u][e]
<1>1. wire \in [Side -> [Carrier -> Seq(Frame)]]
  BY DEF FlowInv, TypeOK, TypeConn
<1>2. /\ wire'[t][c] = v
      /\ \A u \in Side, e \in Carrier : u # t \/ e # c => wire'[u][e] = wire[u][e]
  BY <1>1
<1>3. \A u \in Side : Cut(wire[u][c], wire[u][c])
  BY NatFacts, CutSelf
<1> QED BY <1>2, <1>3

LEMMA AttachRejectedPipe ==
  ASSUME FlowInv, FlowInv', PipeInv, OpenBefore,
         NEW s \in Side, NEW c \in Carrier, AttachRejected(s, c)
  PROVE  PipeInv'
<1>1. /\ UNCHANGED <<QueueVars, carrierNext, sending, history>>
      /\ status' = [status EXCEPT ![s][c] = "gone"]
      /\ broken' = [broken EXCEPT ![c] = TRUE]
  BY DEF AttachRejected, recvVars, histVars, QueueVars
<1>2. PICK v : v = <<>> /\ Cut(v, wire[Peer(s)][c]) /\ Peer(s) \in Side
  BY NatFacts, CutSelf, PeerFacts
<1>3. wire' = [wire EXCEPT ![Peer(s)][c] = v]
  BY <1>2 DEF AttachRejected
<1>4. /\ \A u \in Side : Cut(wire'[u][c], wire[u][c])
      /\ \A u \in Side, e \in Carrier : e # c => wire'[u][e] = wire[u][e]
  BY <1>2, <1>3, CutEffect
<1>5. /\ broken'[c]
      /\ \A u \in Side, e \in Carrier : e # c =>
           status'[u][e] = status[u][e] /\ broken'[e] = broken[e]
  BY <1>1 DEF FlowInv, TypeOK, TypeCarrier, TypeConn
<1>6. \A u \in Side, e \in Carrier : e # c => SamePlace(u, e)
  BY <1>1, <1>5 DEF SamePlace
<1> QED BY <1>1, <1>4, <1>5, <1>6, LosePipe

LEMMA StopCarrierPipe ==
  ASSUME FlowInv, FlowInv', PipeInv, OpenBefore, NEW s \in Side, NEW c \in Carrier,
         NEW k \in 0 .. Len(wire[Peer(s)][c]), NEW to, StopCarrier(s, c, k, to)
  PROVE  PipeInv'
<1>1. /\ UNCHANGED <<QueueVars, carrierNext, history>>
      /\ status' = [status EXCEPT ![s][c] = to]
      /\ broken' = [broken EXCEPT ![c] = TRUE]
  BY DEF StopCarrier, recvVars, histVars, QueueVars
<1>2. PICK v : v = SubSeq(wire[Peer(s)][c], 1, k) /\ Cut(v, wire[Peer(s)][c])
  BY NatFacts, CutIndex, PeerFacts
<1>3. wire' = [wire EXCEPT ![Peer(s)][c] = v]
  BY <1>2 DEF StopCarrier
<1>4. /\ \A u \in Side : Cut(wire'[u][c], wire[u][c])
      /\ \A u \in Side, e \in Carrier : e # c => wire'[u][e] = wire[u][e]
  BY <1>2, <1>3, PeerFacts, CutEffect
<1>5. /\ broken'[c]
      /\ \A u \in Side, e \in Carrier : e # c =>
           /\ status'[u][e] = status[u][e] /\ broken'[e] = broken[e]
           /\ sending'[u][e] = sending[u][e]
  <2>1. PICK S : sending' = [sending EXCEPT ![s][c] = S]
    BY DEF StopCarrier
  <2>2. \A u \in Side, e \in Carrier : e # c => sending'[u][e] = sending[u][e]
    BY <2>1 DEF FlowInv, TypeOK, TypeCarrier
  <2>3. /\ broken'[c]
        /\ \A u \in Side, e \in Carrier : e # c =>
             status'[u][e] = status[u][e] /\ broken'[e] = broken[e]
    BY <1>1 DEF FlowInv, TypeOK, TypeCarrier, TypeConn
  <2> QED BY <2>2, <2>3
<1>6. \A u \in Side, e \in Carrier : e # c => SamePlace(u, e)
  BY <1>1, <1>5 DEF SamePlace
<1> QED BY <1>1, <1>4, <1>5, <1>6, LosePipe

\* A carrier that stops keeps the first frames it can still read.
LEMMA StopCuts ==
  ASSUME FlowInv, NEW s \in Side, NEW c \in Carrier,
         StopAtEOF(s, c) \/ StopAtWriteError(s, c)
  PROVE  \E k \in 0 .. Len(wire[Peer(s)][c]) : StopCarrier(s, c, k, "draining")
<1>1. Peer(s) \in Side /\ Len(wire[Peer(s)][c]) \in Nat
  BY NatFacts, PeerFacts
<1>2. CASE StopAtEOF(s, c)
  BY <1>1, <1>2 DEF StopAtEOF
<1>3. CASE StopAtWriteError(s, c)
  <2>1. PICK k \in 0 .. CarrierReadAhead :
          k <= Len(wire[Peer(s)][c]) /\ StopCarrier(s, c, k, "draining")
    BY <1>3 DEF StopAtWriteError
  <2>2. k \in 0 .. Len(wire[Peer(s)][c])
    BY <1>1, <2>1 DEF CarrierReadAhead
  <2> QED BY <2>1, <2>2
<1> QED BY <1>2, <1>3

LEMMA CloseCuts ==
  ASSUME FlowInv, NEW c \in Carrier, CloseCarrier(c)
  PROVE  \E s \in Side : s = "client" /\
           \E k \in 0 .. Len(wire[Peer(s)][c]) : StopCarrier(s, c, k, "closing")
<1>1. PICK s \in Side : s = "client"
  BY DEF Side
<1>2. Len(wire[Peer(s)][c]) \in Nat
  BY NatFacts, PeerFacts
<1>3. 0 \in 0 .. Len(wire[Peer(s)][c])
  BY <1>2
<1>4. StopCarrier(s, c, 0, "closing")
  BY <1>1 DEF CloseCarrier
<1> QED BY <1>1, <1>3, <1>4

LEMMA StopPipe ==
  ASSUME FlowInv, FlowInv', PipeInv, OpenBefore, NEW s \in Side, NEW c \in Carrier,
         StopAtEOF(s, c) \/ StopAtWriteError(s, c)
  PROVE  PipeInv'
BY StopCuts, StopCarrierPipe

LEMMA CloseCarrierPipe ==
  ASSUME FlowInv, FlowInv', PipeInv, OpenBefore, NEW c \in Carrier, CloseCarrier(c)
  PROVE  PipeInv'
BY CloseCuts, StopCarrierPipe

LEMMA BreakPipe ==
  ASSUME FlowInv, FlowInv', PipeInv, OpenBefore, NEW c \in Carrier, Break(c)
  PROVE  PipeInv'
<1>1. /\ UNCHANGED <<QueueVars, carrierVars, history>>
      /\ broken' = [broken EXCEPT ![c] = TRUE]
  BY DEF Break, recvVars, histVars, QueueVars
<1>2. PICK k \in 0 .. Len(wire["client"][c]), l \in 0 .. Len(wire["server"][c]) :
        wire' = [wire EXCEPT !["client"][c] = SubSeq(@, 1, k),
                             !["server"][c] = SubSeq(@, 1, l)]
  BY DEF Break
<1>3. PICK v, w : /\ v = SubSeq(wire["client"][c], 1, k) /\ Cut(v, wire["client"][c])
                  /\ w = SubSeq(wire["server"][c], 1, l) /\ Cut(w, wire["server"][c])
  BY NatFacts, CutIndex DEF Side
<1>4. wire \in [Side -> [Carrier -> Seq(Frame)]]
  BY DEF FlowInv, TypeOK, TypeConn
<1>5. wire' = [wire EXCEPT !["client"][c] = v, !["server"][c] = w]
  BY <1>2, <1>3, <1>4 DEF Side
<1>6. /\ wire'["client"][c] = v /\ wire'["server"][c] = w
      /\ \A u \in Side, e \in Carrier : e # c => wire'[u][e] = wire[u][e]
  BY <1>4, <1>5 DEF Side
<1>7. \A u \in Side : Cut(wire'[u][c], wire[u][c])
  BY <1>3, <1>6 DEF Side
<1>8. broken'[c] /\ \A e \in Carrier : e # c => broken'[e] = broken[e]
  BY <1>1 DEF FlowInv, TypeOK, TypeConn
<1>9. \A u \in Side, e \in Carrier : e # c => SamePlace(u, e)
  BY <1>1, <1>8 DEF SamePlace, carrierVars
<1> QED BY <1>1, <1>6, <1>7, <1>8, <1>9, LosePipe

\* finishReset: this side reads no more, and has no carrier left.
LEMMA FinishResetPipe ==
  ASSUME FlowInv, FlowInv', PipeInv, OpenBefore, NEW s \in Side, FinishReset(s)
  PROVE  PipeInv'
<1>1. /\ UNCHANGED <<nextOffset, held, finOffset, closed>> /\ closed[s] # "open"
      /\ inbound' = [inbound EXCEPT ![s] = <<>>]
      /\ status' = [status EXCEPT ![s] =
           [c \in Carrier |-> IF c \in Attached(s) THEN "gone" ELSE status[s][c]]]
  BY DEF FinishReset, FlowInv, TypeOK, TypeCarrier
<1>2. /\ \A r \in Side : r # s => inbound'[r] = inbound[r]
      /\ \A d \in Carrier : status'[s][d] # "up"
  BY <1>1 DEF FlowInv, TypeOK, TypeCarrier, TypeRecv, Attached
<1>3. ASSUME NEW r \in Side
      PROVE  QueueOrdered(r)' /\ (r # s => QueueKept(r))
  <2>1. QueueOrdered(r)
    BY QueueInOrderParts DEF PipeInv
  <2>2. CASE r = s
    BY <1>1, <2>1, <2>2 DEF QueueOrdered
  <2>3. CASE r # s
    BY <1>1, <1>2, <2>1, <2>3, QueueSame, QueueOrderedSame
  <2> QED BY <2>2, <2>3
<1>4. ASSUME NEW t \in Side, NEW d \in Carrier, closed'[Peer(t)] = "open"
      PROVE  WireOrdered(t, d)' /\ ~Healthy(t, d)'
  <2>1. t = s /\ Peer(t) \in Side /\ Peer(t) # s
    BY <1>1, <1>4 DEF Side, Peer
  <2>2. WireOrdered(t, d) /\ QueueKept(Peer(t))
    BY <1>1, <1>3, <1>4, <2>1, WireInOrderParts DEF PipeInv
  <2>3. PICK target \in SUBSET Accepting(s) :
          wire' = [u \in Side |-> [c \in Carrier |->
            IF u = s
              THEN IF c \in target /\ ~broken[c] THEN Append(wire[s][c], RstFrame)
                                                 ELSE wire[s][c]
              ELSE IF c \in Attached(s) THEN <<>> ELSE wire[u][c]]]
    BY DEF FinishReset
  <2>4. wire'[t][d] = wire[t][d] \/ wire'[t][d] = Append(wire[t][d], RstFrame)
    BY <2>1, <2>3
  <2>5. PICK g \in Frame : g = RstFrame /\ ~InStream(g)
    BY FrameTypes DEF RstFrame, InStream
  <2>6. CASE wire'[t][d] = wire[t][d]
    BY <2>2, <2>6, WireSame, <1>2, <2>1 DEF Healthy
  <2>7. CASE wire'[t][d] = Append(wire[t][d], RstFrame)
    <3>1. wire'[t][d] = Append(wire[t][d], g) /\ wire[t][d] \in Seq(Frame)
      BY <2>5, <2>7, NatFacts
    <3>2. Appended(wire'[t][d], wire[t][d], g)
      BY <3>1, AppendIndex
    <3>3. WireOrdered(t, d)'
      BY <2>2, <2>5, <3>2, WireAppend
    <3> QED BY <3>3, <1>2, <2>1 DEF Healthy
  <2> QED BY <2>4, <2>6, <2>7
<1>5. \A t \in Side, d \in Carrier : ~Healthy(t, d)'
  BY <1>4 DEF Healthy
<1> QED BY <1>3, <1>4, <1>5, PipeStep

\* Push or SetFIN, then DrainTo, of a frame that starts no later than the next
\* missing byte: nothing is held back.
LEMMA AcceptOrder ==
  ASSUME FlowInv, NEW s \in Side, NEW src \in Carrier, NEW f \in Frame,
         StreamFrameOK(Peer(s), f), Accept(s, src, f), ~Refused(s, f),
         held[s] = {}, f.off <= nextOffset[s],
         finOffset[s] # {} => nextOffset[s] \in finOffset[s]
  PROVE  \E m \in Nat :
           /\ nextOffset[s] <= m /\ f.end <= m
           /\ nextOffset'[s] = m /\ held'[s] = {}
           /\ finOffset[s] # {} => finOffset'[s] # {}
           /\ f.type = "FIN" => finOffset'[s] # {}
           /\ finOffset'[s] # {} => m \in finOffset'[s]
<1>1. /\ nextOffset[s] \in Nat /\ offset[Peer(s)] \in Nat
      /\ finOffset[s] \in SUBSET Nat
      /\ f.off \in Nat /\ f.end \in Nat
      /\ nextOffset[s] <= offset[Peer(s)]
      /\ \A o \in finOffset[s] : o = offset[Peer(s)]
      /\ f.type \in {"DATA", "FIN"}
      /\ f.type = "DATA" => f.off < f.end /\ f.end <= offset[Peer(s)]
      /\ f.type = "FIN" => f.off = offset[Peer(s)] /\ f.end = offset[Peer(s)]
  BY NatFacts, PeerFacts DEF FlowInv, ReceiverOK, Frame, StreamFrameOK, FrameOK
<1>. PICK n \in Nat : n = nextOffset[s]
  BY <1>1
<1>. PICK H : H = IF f.type = "DATA"
                    THEN held[s] \cup {b \in f.off .. (f.end - 1) : b >= nextOffset[s]}
                    ELSE held[s]
  OBVIOUS
<1>. PICK fin : fin = IF f.type = "FIN" THEN {f.off} ELSE finOffset[s]
  OBVIOUS
<1>2. PICK m \in n .. (n + Cardinality(H)) :
       /\ (n .. (m - 1)) \subseteq H /\ m \notin H
       /\ nextOffset' = [nextOffset EXCEPT ![s] = m]
       /\ held' = [held EXCEPT ![s] = {b \in H : b >= m}]
       /\ finOffset' = [finOffset EXCEPT ![s] = fin]
  BY DEF Accept
<1>3. /\ H \in SUBSET Nat
      /\ \A b \in H : f.type = "DATA" /\ n <= b /\ b < f.end
      /\ f.type = "DATA" => \A b \in Nat : n <= b /\ b < f.end => b \in H
  <2>1. CASE f.type = "DATA"
    <3>1. H = {b \in f.off .. (f.end - 1) : b >= n}
      BY <2>1
    <3> QED BY <1>1, <2>1, <3>1
  <2>2. CASE f.type # "DATA"
    BY <2>2
  <2> QED BY <2>1, <2>2
<1>4. Cardinality(H) \in Nat
  <2>1. \A b \in H : b \in 0 .. f.end
    BY <1>1, <1>3
  <2> QED BY <1>1, <2>1, BoundedSet
<1>5. m \in Nat /\ n <= m
  BY <1>2, <1>4
<1>6. f.type = "DATA" => f.end <= m
  BY <1>1, <1>2, <1>3, <1>5
<1>7. {b \in H : b >= m} = {}
  BY <1>1, <1>3, <1>6
<1>8. m # n => m <= f.end /\ f.type = "DATA"
  <2> SUFFICES ASSUME m # n PROVE m <= f.end /\ f.type = "DATA"
    OBVIOUS
  <2>1. m - 1 \in H
    BY <1>2, <1>5
  <2> QED BY <1>1, <1>3, <1>5, <2>1
<1>9. /\ nextOffset'[s] = m /\ held'[s] = {} /\ finOffset'[s] = fin
  BY <1>2, <1>7 DEF FlowInv, TypeOK, TypeRecv
<1>10. f.type = "FIN" => f.end <= m /\ fin = {m}
  BY <1>1, <1>5, <1>8
<1>11. f.type = "DATA" /\ fin # {} => m \in fin
  <2> SUFFICES ASSUME f.type = "DATA", fin # {} PROVE m \in fin
    OBVIOUS
  <2>1. fin = finOffset[s] /\ n \in fin /\ n = offset[Peer(s)]
    BY <1>1
  <2> QED BY <1>1, <1>5, <1>8, <2>1
<1>12. /\ f.end <= m
       /\ finOffset[s] # {} => fin # {}
       /\ f.type = "FIN" => fin # {}
       /\ fin # {} => m \in fin
  BY <1>1, <1>6, <1>10, <1>11
<1> QED BY <1>5, <1>9, <1>12

LEMMA DeliverPipe ==
  ASSUME FlowInv, FlowInv', PipeInv, OpenBefore, NEW s \in Side, Deliver(s)
  PROVE  PipeInv'
<1>1. /\ UNCHANGED <<carrierVars, wire, broken, history>>
      /\ closed[s] = "open" /\ inbound[s] # <<>>
      /\ inbound' = [inbound EXCEPT ![s] = Tail(@)]
  BY DEF Deliver, connVars, histVars
<1>2. PICK f \in Frame, src \in Carrier :
        /\ f = Head(inbound[s]).frame /\ src = Head(inbound[s]).src
        /\ StreamFrameOK(Peer(s), f)
  BY <1>1, HeadInbound
<1>3. \A r \in Side : QueueOrdered(r)
  BY QueueInOrderParts DEF PipeInv
<1>4. /\ Dropped(inbound'[s], inbound[s]) /\ inbound[s][1].frame = f
      /\ \A r \in Side : r # s => inbound'[r] = inbound[r]
  <2>1. inbound \in [Side -> Seq([src : Carrier, frame : Frame])]
    BY DEF FlowInv, TypeOK, TypeRecv
  <2>2. PICK q \in Seq([src : Carrier, frame : Frame]) : q = inbound[s] /\ q # <<>>
    BY <1>1, <2>1
  <2>3. PICK v : v = Tail(q) /\ Dropped(v, q) /\ Head(q) = q[1]
    BY <2>2, TailIndex
  <2>4. inbound' = [inbound EXCEPT ![s] = v]
    BY <1>1, <2>1, <2>2, <2>3
  <2>5. inbound'[s] = v /\ \A r \in Side : r # s => inbound'[r] = inbound[r]
    BY <2>1, <2>4
  <2>6. inbound[s][1].frame = f
    BY <1>2, <2>2, <2>3
  <2> QED BY <2>2, <2>3, <2>5, <2>6
<1>5. f.off <= nextOffset[s] /\ held[s] = {}
      /\ (finOffset[s] # {} => nextOffset[s] \in finOffset[s])
  <2>1. Len(inbound[s]) >= 1 /\ Len(inbound[s]) \in Nat
    BY <1>4 DEF Dropped
  <2>2. QChain(inbound[s], nextOffset[s])
    BY <1>1, <1>3 DEF QueueOrdered
  <2>3. 1 \in 1 .. Len(inbound[s]) /\ ~\E j \in 1 .. (1 - 1) : TRUE
    BY <2>1
  <2>4. inbound[s][1].frame.off <= nextOffset[s]
    BY <2>2, <2>3 DEF QChain
  <2> QED BY <1>3, <1>4, <2>4 DEF QueueOrdered
<1>6. CASE Refused(s, f)
  <2>1. Claim(s, "err") /\ UNCHANGED <<nextOffset, held, finOffset>>
    BY <1>2, <1>6 DEF Deliver
  <2>2. closed'[s] # "open"
    BY <2>1 DEF Claim, FlowInv, TypeOK, TypeFlow
  <2>3. ASSUME NEW r \in Side
        PROVE  QueueOrdered(r)' /\ (closed'[r] = "open" => QueueKept(r))
    <3>1. CASE r = s
      BY <1>3, <2>1, <2>2, <3>1 DEF QueueOrdered
    <3>2. CASE r # s
      BY <1>3, <1>4, <2>1, <3>2, QueueSame, QueueOrderedSame DEF OpenBefore
    <3> QED BY <3>1, <3>2
  <2>4. \A u \in Side, e \in Carrier : closed'[Peer(u)] = "open" =>
           WireOrdered(u, e)' /\ WireKept(u, e)
    BY <1>1, <2>3, WiresSame DEF OpenBefore
  <2>5. \A u \in Side, e \in Carrier : Healthy(u, e)' => CarrierKept(u, e)
    <3> SUFFICES ASSUME NEW u \in Side, NEW e \in Carrier, Healthy(u, e)'
                 PROVE  CarrierKept(u, e)
      OBVIOUS
    <3>1. WireKept(u, e)
      BY <2>4 DEF Healthy
    <3>2. SamePlace(u, e)
      BY <1>1 DEF SamePlace, carrierVars
    <3> QED BY <3>1, <3>2, PeerFacts, SamePlaceKept DEF OpenBefore
  <2> QED BY <2>3, <2>4, <2>5, PipeStep
<1>7. CASE ~Refused(s, f)
  <2>1. Accept(s, src, f) /\ UNCHANGED closed
    BY <1>2, <1>7 DEF Deliver
  <2>2. PICK m \in Nat :
           /\ nextOffset[s] <= m /\ f.end <= m
           /\ nextOffset'[s] = m /\ held'[s] = {}
           /\ finOffset[s] # {} => finOffset'[s] # {}
           /\ f.type = "FIN" => finOffset'[s] # {}
           /\ finOffset'[s] # {} => m \in finOffset'[s]
    BY <1>2, <1>5, <1>7, <2>1, AcceptOrder
  <2>3. QueueKept(s) /\ QueueOrdered(s)'
    BY <1>3, <1>4, <2>1, <2>2, QueueTake
  <2>4. \A r \in Side : r # s => /\ nextOffset'[r] = nextOffset[r]
                                 /\ held'[r] = held[r] /\ finOffset'[r] = finOffset[r]
    <3>1. /\ \E v : nextOffset' = [nextOffset EXCEPT ![s] = v]
          /\ \E v : held' = [held EXCEPT ![s] = v]
          /\ \E v : finOffset' = [finOffset EXCEPT ![s] = v]
      BY <2>1 DEF Accept
    <3> QED BY <3>1 DEF FlowInv, TypeOK, TypeRecv
  <2>5. \A r \in Side : QueueOrdered(r)' /\ QueueKept(r)
    <3> SUFFICES ASSUME NEW r \in Side, r # s PROVE QueueOrdered(r)' /\ QueueKept(r)
      BY <2>3
    <3> QED BY <1>3, <1>4, <2>1, <2>4, QueueSame, QueueOrderedSame
  <2>6. \A u \in Side, e \in Carrier : closed'[Peer(u)] = "open" =>
           WireOrdered(u, e)' /\ WireKept(u, e)
    BY <1>1, <2>1, <2>5, WiresSame
  <2>7. \A u \in Side, e \in Carrier : Healthy(u, e)' => CarrierKept(u, e)
    <3> SUFFICES ASSUME NEW u \in Side, NEW e \in Carrier, Healthy(u, e)'
                 PROVE  CarrierKept(u, e)
      OBVIOUS
    <3>1. WireKept(u, e)
      BY <2>6 DEF Healthy
    <3>2. SamePlace(u, e)
      BY <1>1 DEF SamePlace, carrierVars
    <3> QED BY <3>1, <3>2, PeerFacts, SamePlaceKept DEF OpenBefore
  <2> QED BY <2>5, <2>6, <2>7, PipeStep
<1> QED BY <1>6, <1>7

LEMMA PipePart ==
  ASSUME FlowInv, FlowInv', PipeInv, HistorySeqOK, HistoryBounded, SendingSeqOK, Next
  PROVE  PipeInv'
<1>1. OpenBefore
  BY ClosedStays
<1>2. ASSUME NEW s \in Side,
             \/ Start(s) \/ ReadData(s) \/ ReadNoCarriers(s) \/ BroadcastReturns(s)
             \/ BroadcastNoCarriers(s) \/ SendAck(s) \/ FinishDelivery(s) \/ ResetFlow(s)
      PROVE  PipeInv'
  <2>1. UNCHANGED <<QueueVars, connVars, carrierVars, history>>
    BY <1>2 DEF Start, ReadData, ReadNoCarriers, BroadcastReturns, BroadcastNoCarriers,
       SendAck, FinishDelivery, ResetFlow, QueueVars, recvVars, histVars
  <2> QED BY <1>1, <2>1, LifecyclePipe
<1>3. ASSUME NEW s \in Side,
             RememberData(s) \/ ReadEOF(s) \/ Deliver(s) \/ FinishReset(s)
      PROVE  PipeInv'
  BY <1>1, <1>3, RememberPipe, DeliverPipe, FinishResetPipe
<1>4. ASSUME NEW c \in Carrier,
             AcceptOpen(c) \/ RefuseOpen(c) \/ Break(c) \/ CloseCarrier(c)
      PROVE  PipeInv'
  BY <1>1, <1>4, OpenPipe, BreakPipe, CloseCarrierPipe
<1>5. ASSUME NEW s \in Side, NEW c \in Carrier,
             Attach(s, c) \/ AttachRejected(s, c) \/ PickFrame(s, c) \/ WriteFrame(s, c)
             \/ CommitFrame(s, c) \/ WriteAck(s, c)
      PROVE  PipeInv'
  BY <1>1, <1>5, AttachPipe, AttachRejectedPipe, PickFramePipe, WriteFramePipe,
     CommitFramePipe, WriteAckPipe
<1>6. ASSUME NEW s \in Side, NEW c \in Carrier,
             ReceiveAck(s, c) \/ EnqueueInbound(s, c) \/ ReceiveRST(s, c)
             \/ StopAtEOF(s, c) \/ StopAtWriteError(s, c) \/ Detach(s, c)
      PROVE  PipeInv'
  <2>1. CASE ReceiveAck(s, c) \/ EnqueueInbound(s, c) \/ ReceiveRST(s, c)
    BY <1>1, <2>1, ReceivePipe, EnqueueInboundPipe
  <2>2. CASE StopAtEOF(s, c) \/ StopAtWriteError(s, c)
    BY <1>1, <2>2, StopPipe
  <2>3. CASE Detach(s, c)
    BY <1>1, <2>3, DetachPipe
  <2> QED BY <1>6, <2>1, <2>2, <2>3
<1>7. \A s \in Side :
        \/ Start(s) \/ ReadData(s) \/ RememberData(s) \/ ReadEOF(s)
        \/ ReadNoCarriers(s) \/ BroadcastReturns(s) \/ BroadcastNoCarriers(s)
        \/ Deliver(s) \/ SendAck(s) \/ FinishDelivery(s)
        \/ FinishReset(s) \/ ResetFlow(s)
        => PipeInv'
  BY <1>2, <1>3
<1>8. \A s \in Side, c \in Carrier :
        \/ Attach(s, c) \/ AttachRejected(s, c)
        \/ PickFrame(s, c) \/ WriteFrame(s, c) \/ CommitFrame(s, c) \/ WriteAck(s, c)
        \/ ReceiveAck(s, c) \/ EnqueueInbound(s, c) \/ ReceiveRST(s, c)
        \/ StopAtEOF(s, c) \/ StopAtWriteError(s, c) \/ Detach(s, c)
        => PipeInv'
  BY <1>5, <1>6
<1> QED BY <1>4, <1>7, <1>8, NextCases

-----------------------------------------------------------------------------
(* Where the frames in flight come from.                                   *)

LEMMA AppendedFrom ==
  ASSUME NEW q, NEW p, NEW e, Appended(p, q, e)
  PROVE  /\ \A f : Holds(p, f) => Holds(q, f) \/ f = e
         /\ \A f : QHolds(p, f) => QHolds(q, f) \/ f = e.frame
<1>1. \A i \in 1 .. Len(p) : (i \in 1 .. Len(q) /\ p[i] = q[i]) \/ p[i] = e
  BY DEF Appended
<1> QED BY <1>1 DEF Holds, QHolds

LEMMA DroppedFrom ==
  ASSUME NEW q, NEW p, Dropped(p, q)
  PROVE  /\ \A f : Holds(p, f) => Holds(q, f)
         /\ \A f : QHolds(p, f) => QHolds(q, f)
<1>1. \A i \in 1 .. Len(p) : i + 1 \in 1 .. Len(q) /\ p[i] = q[i + 1]
  BY DEF Dropped
<1> QED BY <1>1 DEF Holds, QHolds

LEMMA CutFrom ==
  ASSUME NEW q, NEW p, Cut(p, q)
  PROVE  \A f : Holds(p, f) => Holds(q, f)
BY DEF Cut, Holds

\* The frame g may reach the connection t, d: it was there, the carrier had it
\* in flight, or it is no data.
WireSource(t, d, g) ==
  \/ Holds(wire[t][d], g)
  \/ \E x \in sending[t][d] : x.frame = g
  \/ g.type = "ACK"
  \/ g.type = "RST" /\ closed[t] # "open"
WireFrom ==
  \A t \in Side, d \in Carrier : \A g : Holds(wire'[t][d], g) => WireSource(t, d, g)
InboundFrom ==
  \A t \in Side : \A g : QHolds(inbound'[t], g) =>
    QHolds(inbound[t], g) \/ \E d \in Carrier : Holds(wire[Peer(t)][d], g)
SendingFrom ==
  \A t \in Side, d \in Carrier : \A y \in sending'[t][d] :
    \/ \E x \in sending[t][d] : y.frame = x.frame
    \/ \E h \in history[t] : y.frame = h.frame

LEMMA WireCutFrom ==
  ASSUME \A u \in Side, e \in Carrier :
           \/ wire'[u][e] = wire[u][e]
           \/ Cut(wire'[u][e], wire[u][e])
           \/ Dropped(wire'[u][e], wire[u][e])
           \/ \E f : Appended(wire'[u][e], wire[u][e], f) /\ WireSource(u, e, f)
  PROVE  WireFrom
<1> SUFFICES ASSUME NEW t \in Side, NEW d \in Carrier, NEW g, Holds(wire'[t][d], g)
             PROVE  WireSource(t, d, g)
  BY DEF WireFrom
<1>1. CASE wire'[t][d] = wire[t][d]
  BY <1>1 DEF WireSource
<1>2. CASE Cut(wire'[t][d], wire[t][d])
  BY <1>2, CutFrom DEF WireSource
<1>3. CASE Dropped(wire'[t][d], wire[t][d])
  BY <1>3, DroppedFrom DEF WireSource
<1>4. CASE \E f : Appended(wire'[t][d], wire[t][d], f) /\ WireSource(t, d, f)
  <2>1. PICK f : Appended(wire'[t][d], wire[t][d], f) /\ WireSource(t, d, f)
    BY <1>4
  <2>2. Holds(wire[t][d], g) \/ g = f
    BY <2>1, AppendedFrom
  <2> QED BY <2>1, <2>2 DEF WireSource
<1> QED BY <1>1, <1>2, <1>3, <1>4

LEMMA WriteWireFrom ==
  ASSUME FlowInv, NEW s \in Side, NEW c \in Carrier, WriteFrame(s, c) \/ WriteAck(s, c)
  PROVE  WireFrom
<1>1. PICK f \in Frame : wire' = Transmit(s, c, f) /\ WireSource(s, c, f)
  <2>1. CASE WriteFrame(s, c)
    <3>1. PICK x \in sending[s][c] : wire' = Transmit(s, c, x.frame)
      BY <2>1 DEF WriteFrame
    <3>2. x.frame \in Frame /\ WireSource(s, c, x.frame)
      BY SendingFrames DEF WireSource
    <3> QED BY <3>1, <3>2
  <2>2. CASE WriteAck(s, c)
    <3>1. PICK a \in pendingAck[s][c] : wire' = Transmit(s, c, a)
      BY <2>2 DEF WriteAck
    <3>2. a \in Frame /\ a.type = "ACK"
      BY DEF FlowInv, TypeOK, AcksOK, KeptAcksOK, AckOK
    <3> QED BY <3>1, <3>2 DEF WireSource
  <2> QED BY <2>1, <2>2
<1>2. CASE broken[c]
  BY <1>1, <1>2, WireCutFrom DEF Transmit
<1>3. CASE ~broken[c]
  <2>1. /\ Appended(wire'[s][c], wire[s][c], f)
        /\ \A u \in Side, e \in Carrier : u # s \/ e # c => wire'[u][e] = wire[u][e]
    BY <1>1, <1>3, TransmitEffect
  <2> QED BY <1>1, <2>1, WireCutFrom
<1> QED BY <1>2, <1>3

LEMMA CutWireFrom ==
  ASSUME FlowInv, NEW s \in Side, NEW c \in Carrier,
         \/ AttachRejected(s, c)
         \/ \E k \in 0 .. Len(wire[Peer(s)][c]) : \E to : StopCarrier(s, c, k, to)
  PROVE  WireFrom
<1>1. PICK v : wire' = [wire EXCEPT ![Peer(s)][c] = v] /\ Cut(v, wire[Peer(s)][c])
  <2>1. CASE AttachRejected(s, c)
    <3>1. PICK v : v = <<>> /\ Cut(v, wire[Peer(s)][c])
      BY NatFacts, CutSelf, PeerFacts
    <3> QED BY <2>1, <3>1 DEF AttachRejected
  <2>2. CASE \E k \in 0 .. Len(wire[Peer(s)][c]) : \E to : StopCarrier(s, c, k, to)
    <3>1. PICK k \in 0 .. Len(wire[Peer(s)][c]) : \E to : StopCarrier(s, c, k, to)
      BY <2>2
    <3>2. PICK v : v = SubSeq(wire[Peer(s)][c], 1, k) /\ Cut(v, wire[Peer(s)][c])
      BY NatFacts, CutIndex, PeerFacts
    <3>3. wire' = [wire EXCEPT ![Peer(s)][c] = v]
      BY <3>1, <3>2 DEF StopCarrier
    <3> QED BY <3>2, <3>3
  <2> QED BY <2>1, <2>2
<1>2. /\ \A u \in Side : Cut(wire'[u][c], wire[u][c])
      /\ \A u \in Side, e \in Carrier : e # c => wire'[u][e] = wire[u][e]
  BY <1>1, PeerFacts, CutEffect
<1> QED BY <1>2, WireCutFrom

LEMMA ReceiveWireFrom ==
  ASSUME FlowInv, NEW s \in Side, NEW c \in Carrier, NEW kind, Receive(s, c, kind)
  PROVE  WireFrom
<1>1. /\ Dropped(wire'[Peer(s)][c], wire[Peer(s)][c])
      /\ \A u \in Side, e \in Carrier : u # Peer(s) \/ e # c => wire'[u][e] = wire[u][e]
  BY ReceiveEffect
<1> QED BY <1>1, WireCutFrom

LEMMA BreakWireFrom ==
  ASSUME FlowInv, NEW c \in Carrier, Break(c)
  PROVE  WireFrom
<1>2. PICK k \in 0 .. Len(wire["client"][c]), l \in 0 .. Len(wire["server"][c]) :
        wire' = [wire EXCEPT !["client"][c] = SubSeq(@, 1, k),
                             !["server"][c] = SubSeq(@, 1, l)]
  BY DEF Break
<1>3. PICK v, w : /\ v = SubSeq(wire["client"][c], 1, k) /\ Cut(v, wire["client"][c])
                  /\ w = SubSeq(wire["server"][c], 1, l) /\ Cut(w, wire["server"][c])
  BY NatFacts, CutIndex DEF Side
<1>4. wire \in [Side -> [Carrier -> Seq(Frame)]]
  BY DEF FlowInv, TypeOK, TypeConn
<1>5. wire' = [wire EXCEPT !["client"][c] = v, !["server"][c] = w]
  BY <1>2, <1>3, <1>4 DEF Side
<1>6. /\ wire'["client"][c] = v /\ wire'["server"][c] = w
      /\ \A u \in Side, e \in Carrier : e # c => wire'[u][e] = wire[u][e]
  BY <1>4, <1>5 DEF Side
<1>7. \A u \in Side : Cut(wire'[u][c], wire[u][c])
  BY <1>3, <1>6 DEF Side
<1> QED BY <1>6, <1>7, WireCutFrom

LEMMA ResetWireFrom ==
  ASSUME FlowInv, NEW s \in Side, FinishReset(s)
  PROVE  WireFrom
<1>1. PICK target \in SUBSET Accepting(s) :
        wire' = [u \in Side |-> [c \in Carrier |->
          IF u = s
            THEN IF c \in target /\ ~broken[c] THEN Append(wire[s][c], RstFrame)
                                               ELSE wire[s][c]
            ELSE IF c \in Attached(s) THEN <<>> ELSE wire[u][c]]]
  BY DEF FinishReset
<1>2. \A u \in Side, e \in Carrier :
        \/ wire'[u][e] = wire[u][e]
        \/ wire'[u][e] = <<>>
        \/ u = s /\ wire'[u][e] = Append(wire[u][e], RstFrame)
  BY <1>1
<1>3. PICK g \in Frame : g = RstFrame /\ g.type = "RST"
  BY FrameTypes DEF RstFrame
<1>4. ASSUME NEW u \in Side, NEW e \in Carrier
      PROVE  \/ wire'[u][e] = wire[u][e]
             \/ Cut(wire'[u][e], wire[u][e])
             \/ \E f : Appended(wire'[u][e], wire[u][e], f) /\ WireSource(u, e, f)
  <2>1. wire[u][e] \in Seq(Frame)
    BY NatFacts
  <2>2. CASE wire'[u][e] = <<>>
    BY <2>1, <2>2, CutSelf
  <2>3. CASE u = s /\ wire'[u][e] = Append(wire[u][e], RstFrame)
    <3>1. wire'[u][e] = Append(wire[u][e], g)
      BY <1>3, <2>3
    <3>2. Appended(wire'[u][e], wire[u][e], g)
      BY <2>1, <3>1, AppendIndex
    <3>3. WireSource(u, e, g)
      BY <1>3, <2>3 DEF WireSource, FinishReset
    <3> QED BY <3>2, <3>3
  <2> QED BY <1>2, <2>2, <2>3
<1> QED BY <1>4, WireCutFrom

LEMMA WireOrigins ==
  ASSUME FlowInv, Next
  PROVE  WireFrom
<1>1. UNCHANGED wire => WireFrom
  BY WireCutFrom
<1>2. ASSUME NEW s \in Side,
             \/ Start(s) \/ ReadData(s) \/ RememberData(s) \/ ReadEOF(s)
             \/ ReadNoCarriers(s) \/ BroadcastReturns(s) \/ BroadcastNoCarriers(s)
             \/ Deliver(s) \/ SendAck(s) \/ FinishDelivery(s) \/ ResetFlow(s)
      PROVE  UNCHANGED wire
  BY <1>2 DEF Start, ReadData, RememberData, ReadEOF, ReadNoCarriers, BroadcastReturns,
     BroadcastNoCarriers, Deliver, SendAck, FinishDelivery, ResetFlow, connVars
<1>3. \A s \in Side :
        \/ Start(s) \/ ReadData(s) \/ RememberData(s) \/ ReadEOF(s)
        \/ ReadNoCarriers(s) \/ BroadcastReturns(s) \/ BroadcastNoCarriers(s)
        \/ Deliver(s) \/ SendAck(s) \/ FinishDelivery(s)
        \/ FinishReset(s) \/ ResetFlow(s)
        => WireFrom
  BY <1>1, <1>2, ResetWireFrom
<1>4. ASSUME NEW c \in Carrier,
             AcceptOpen(c) \/ RefuseOpen(c) \/ Break(c) \/ CloseCarrier(c)
      PROVE  WireFrom
  <2>1. CASE AcceptOpen(c) \/ RefuseOpen(c)
    BY <1>1, <2>1 DEF AcceptOpen, RefuseOpen, connVars
  <2>2. CASE Break(c)
    BY <2>2, BreakWireFrom
  <2>3. CASE CloseCarrier(c)
    BY <2>3, CloseCuts, CutWireFrom
  <2> QED BY <1>4, <2>1, <2>2, <2>3
<1>5. ASSUME NEW s \in Side, NEW c \in Carrier,
             Attach(s, c) \/ PickFrame(s, c) \/ CommitFrame(s, c) \/ Detach(s, c)
      PROVE  WireFrom
  BY <1>1, <1>5 DEF Attach, PickFrame, CommitFrame, Detach, connVars
<1>6. ASSUME NEW s \in Side, NEW c \in Carrier,
             ReceiveAck(s, c) \/ EnqueueInbound(s, c) \/ ReceiveRST(s, c)
      PROVE  WireFrom
  <2>1. \E kind : Receive(s, c, kind)
    BY <1>6 DEF ReceiveAck, EnqueueInbound, ReceiveRST
  <2> QED BY <2>1, ReceiveWireFrom
<1>7. ASSUME NEW s \in Side, NEW c \in Carrier,
             AttachRejected(s, c) \/ WriteFrame(s, c) \/ WriteAck(s, c)
             \/ StopAtEOF(s, c) \/ StopAtWriteError(s, c)
      PROVE  WireFrom
  BY <1>7, WriteWireFrom, StopCuts, CutWireFrom
<1>8. \A s \in Side, c \in Carrier :
        \/ Attach(s, c) \/ AttachRejected(s, c)
        \/ PickFrame(s, c) \/ WriteFrame(s, c) \/ CommitFrame(s, c) \/ WriteAck(s, c)
        \/ ReceiveAck(s, c) \/ EnqueueInbound(s, c) \/ ReceiveRST(s, c)
        \/ StopAtEOF(s, c) \/ StopAtWriteError(s, c) \/ Detach(s, c)
        => WireFrom
  BY <1>5, <1>6, <1>7
<1> QED BY <1>3, <1>4, <1>8, NextCases

LEMMA InboundOrigins ==
  ASSUME FlowInv, Next
  PROVE  InboundFrom
<1>1. UNCHANGED inbound => InboundFrom
  BY DEF InboundFrom
<1>2. ASSUME NEW s \in Side,
             \/ Start(s) \/ ReadData(s) \/ RememberData(s) \/ ReadEOF(s)
             \/ ReadNoCarriers(s) \/ BroadcastReturns(s) \/ BroadcastNoCarriers(s)
             \/ SendAck(s) \/ FinishDelivery(s) \/ ResetFlow(s)
      PROVE  InboundFrom
  BY <1>1, <1>2 DEF Start, ReadData, RememberData, ReadEOF, ReadNoCarriers,
     BroadcastReturns, BroadcastNoCarriers, SendAck, FinishDelivery, ResetFlow, recvVars
<1>3. ASSUME NEW s \in Side, Deliver(s)
      PROVE  InboundFrom
  <2>1. /\ inbound \in [Side -> Seq([src : Carrier, frame : Frame])]
        /\ inbound[s] # <<>> /\ inbound' = [inbound EXCEPT ![s] = Tail(@)]
    BY <1>3 DEF FlowInv, TypeOK, TypeRecv, Deliver
  <2>2. PICK q \in Seq([src : Carrier, frame : Frame]) : q = inbound[s] /\ q # <<>>
    BY <2>1
  <2>3. PICK v : v = Tail(q) /\ Dropped(v, q)
    BY <2>2, TailIndex
  <2>4. inbound' = [inbound EXCEPT ![s] = v]
    BY <2>1, <2>2, <2>3
  <2>5. inbound'[s] = v /\ \A r \in Side : r # s => inbound'[r] = inbound[r]
    BY <2>1, <2>4
  <2>6. \A g : QHolds(v, g) => QHolds(q, g)
    BY <2>3, DroppedFrom
  <2> QED BY <2>2, <2>5, <2>6 DEF InboundFrom
<1>4. ASSUME NEW s \in Side, FinishReset(s)
      PROVE  InboundFrom
  <2>1. inbound'[s] = <<>> /\ \A r \in Side : r # s => inbound'[r] = inbound[r]
    BY <1>4 DEF FlowInv, TypeOK, TypeRecv, FinishReset
  <2>2. Len(<<>>) = 0
    OBVIOUS
  <2>3. \A g : ~QHolds(<<>>, g)
    BY <2>2 DEF QHolds
  <2> QED BY <2>1, <2>3 DEF InboundFrom
<1>5. ASSUME NEW c \in Carrier,
             AcceptOpen(c) \/ RefuseOpen(c) \/ Break(c) \/ CloseCarrier(c)
      PROVE  InboundFrom
  BY <1>1, <1>5 DEF AcceptOpen, RefuseOpen, Break, CloseCarrier, StopCarrier, recvVars
<1>6. ASSUME NEW s \in Side, NEW c \in Carrier, EnqueueInbound(s, c)
      PROVE  InboundFrom
  <2>1. PICK g \in Frame :
          /\ g = Incoming(s, c) /\ g = wire[Peer(s)][c][1]
          /\ 1 \in 1 .. Len(wire[Peer(s)][c])
    BY <1>6, ReceiveEffect DEF EnqueueInbound
  <2>2. PICK e \in [src : Carrier, frame : Frame] : e = [src |-> c, frame |-> g]
    OBVIOUS
  <2>3. /\ inbound \in [Side -> Seq([src : Carrier, frame : Frame])]
        /\ inbound' = [inbound EXCEPT ![s] = Append(@, e)]
    BY <1>6, <2>1, <2>2 DEF FlowInv, TypeOK, TypeRecv, EnqueueInbound
  <2>4. inbound'[s] = Append(inbound[s], e) /\ inbound[s] \in Seq([src : Carrier, frame : Frame])
    BY <2>3
  <2>5. \A r \in Side : r # s => inbound'[r] = inbound[r]
    BY <2>3
  <2>6. Appended(inbound'[s], inbound[s], e)
    BY <2>4, AppendIndex
  <2>7. \A f : QHolds(inbound'[s], f) => QHolds(inbound[s], f) \/ f = g
    BY <2>2, <2>6, AppendedFrom
  <2>8. Holds(wire[Peer(s)][c], g)
    BY SMTT(30), <2>1 DEF Holds
  <2> QED BY <2>5, <2>7, <2>8 DEF InboundFrom
<1>7. ASSUME NEW s \in Side, NEW c \in Carrier,
             \/ Attach(s, c) \/ AttachRejected(s, c)
             \/ PickFrame(s, c) \/ WriteFrame(s, c) \/ CommitFrame(s, c) \/ WriteAck(s, c)
             \/ ReceiveAck(s, c) \/ ReceiveRST(s, c)
             \/ StopAtEOF(s, c) \/ StopAtWriteError(s, c) \/ Detach(s, c)
      PROVE  InboundFrom
  BY <1>1, <1>7 DEF Attach, AttachRejected, PickFrame, WriteFrame, CommitFrame, WriteAck,
     ReceiveAck, ReceiveRST, StopAtEOF, StopAtWriteError, StopCarrier, Detach, recvVars
<1>8. \A s \in Side :
        \/ Start(s) \/ ReadData(s) \/ RememberData(s) \/ ReadEOF(s)
        \/ ReadNoCarriers(s) \/ BroadcastReturns(s) \/ BroadcastNoCarriers(s)
        \/ Deliver(s) \/ SendAck(s) \/ FinishDelivery(s)
        \/ FinishReset(s) \/ ResetFlow(s)
        => InboundFrom
  BY <1>2, <1>3, <1>4
<1>9. \A s \in Side, c \in Carrier :
        \/ Attach(s, c) \/ AttachRejected(s, c)
        \/ PickFrame(s, c) \/ WriteFrame(s, c) \/ CommitFrame(s, c) \/ WriteAck(s, c)
        \/ ReceiveAck(s, c) \/ EnqueueInbound(s, c) \/ ReceiveRST(s, c)
        \/ StopAtEOF(s, c) \/ StopAtWriteError(s, c) \/ Detach(s, c)
        => InboundFrom
  BY <1>6, <1>7
<1> QED BY <1>5, <1>8, <1>9, NextCases

LEMMA SendingUpdate ==
  ASSUME FlowInv, NEW s \in Side, NEW c \in Carrier, NEW S,
         sending' = [sending EXCEPT ![s][c] = S],
         \A y \in S : \E x \in sending[s][c] : y.frame = x.frame
  PROVE  SendingFrom
<1>1. sending \in [Side -> [Carrier -> SUBSET InFlight]]
  BY DEF FlowInv, TypeOK, TypeCarrier
<1>2. /\ sending'[s][c] = S
      /\ \A t \in Side, d \in Carrier : t # s \/ d # c => sending'[t][d] = sending[t][d]
  BY <1>1
<1> QED BY <1>2 DEF SendingFrom

LEMMA SendingOrigins ==
  ASSUME FlowInv, Next
  PROVE  SendingFrom
<1>1. UNCHANGED sending => SendingFrom
  BY DEF SendingFrom
<1>2. ASSUME NEW s \in Side,
             \/ Start(s) \/ ReadData(s) \/ RememberData(s) \/ ReadEOF(s)
             \/ ReadNoCarriers(s) \/ BroadcastReturns(s) \/ BroadcastNoCarriers(s)
             \/ Deliver(s) \/ SendAck(s) \/ FinishDelivery(s) \/ ResetFlow(s)
      PROVE  SendingFrom
  BY <1>1, <1>2 DEF Start, ReadData, RememberData, ReadEOF, ReadNoCarriers,
     BroadcastReturns, BroadcastNoCarriers, Deliver, SendAck, FinishDelivery, ResetFlow,
     carrierVars
<1>3. ASSUME NEW s \in Side, FinishReset(s)
      PROVE  SendingFrom
  BY <1>3 DEF FlowInv, TypeOK, TypeCarrier, FinishReset, SendingFrom
<1>4. ASSUME NEW s \in Side, NEW c \in Carrier,
             \E k, to : StopCarrier(s, c, k, to)
      PROVE  SendingFrom
  <2>1. PICK S \in SUBSET sending[s][c] : sending' = [sending EXCEPT ![s][c] = S]
    BY <1>4 DEF StopCarrier
  <2> QED BY <2>1, SendingUpdate
<1>5. ASSUME NEW c \in Carrier,
             AcceptOpen(c) \/ RefuseOpen(c) \/ Break(c) \/ CloseCarrier(c)
      PROVE  SendingFrom
  <2>1. CASE CloseCarrier(c)
    BY <1>4, <2>1, CloseCuts
  <2>2. CASE AcceptOpen(c) \/ RefuseOpen(c) \/ Break(c)
    BY <1>1, <2>2 DEF AcceptOpen, RefuseOpen, Break, carrierVars
  <2> QED BY <1>5, <2>1, <2>2
<1>6. ASSUME NEW s \in Side, NEW c \in Carrier,
             \/ Attach(s, c) \/ AttachRejected(s, c) \/ WriteAck(s, c)
             \/ ReceiveAck(s, c) \/ EnqueueInbound(s, c) \/ ReceiveRST(s, c)
      PROVE  SendingFrom
  BY <1>1, <1>6 DEF Attach, AttachRejected, WriteAck, ReceiveAck, EnqueueInbound,
     ReceiveRST, carrierVars
<1>7. ASSUME NEW s \in Side, NEW c \in Carrier,
             CommitFrame(s, c) \/ Detach(s, c)
      PROVE  SendingFrom
  <2>1. PICK S : S = {} /\ sending' = [sending EXCEPT ![s][c] = S]
    BY <1>7 DEF CommitFrame, Detach
  <2>2. \A y \in S : FALSE
    BY <2>1
  <2> QED BY <2>1, <2>2, SendingUpdate
<1>8. ASSUME NEW s \in Side, NEW c \in Carrier, WriteFrame(s, c)
      PROVE  SendingFrom
  <2>1. PICK x \in sending[s][c] :
          sending' = [sending EXCEPT ![s][c] =
                        {[seq |-> x.seq, frame |-> x.frame, written |-> TRUE]}]
    BY <1>8 DEF WriteFrame
  <2>2. PICK y : y = [seq |-> x.seq, frame |-> x.frame, written |-> TRUE]
    OBVIOUS
  <2>3. PICK S : S = {y} /\ sending' = [sending EXCEPT ![s][c] = S]
    BY <2>1, <2>2
  <2>4. \A z \in S : z.frame = x.frame
    BY <2>2, <2>3
  <2> QED BY <2>3, <2>4, SendingUpdate
<1>9. ASSUME NEW s \in Side, NEW c \in Carrier, PickFrame(s, c)
      PROVE  SendingFrom
  <2>1. PICK h \in NextFrame(s, c), x \in InFlight :
           /\ h \in history[s] /\ x.seq = h.seq /\ x.frame = h.frame /\ ~x.written
           /\ \A t \in Side, d \in Carrier :
                sending'[t][d] = IF t = s /\ d = c THEN {x} ELSE sending[t][d]
    BY <1>9, PickedFacts
  <2>2. ASSUME NEW t \in Side, NEW d \in Carrier, NEW y \in sending'[t][d]
        PROVE  \/ \E z \in sending[t][d] : y.frame = z.frame
               \/ \E g \in history[t] : y.frame = g.frame
    <3>1. CASE t = s /\ d = c
      BY <2>1, <2>2, <3>1
    <3>2. CASE ~(t = s /\ d = c)
      BY <2>1, <2>2, <3>2
    <3> QED BY <3>1, <3>2
  <2> QED BY <2>2 DEF SendingFrom
<1>10. \A s \in Side :
        \/ Start(s) \/ ReadData(s) \/ RememberData(s) \/ ReadEOF(s)
        \/ ReadNoCarriers(s) \/ BroadcastReturns(s) \/ BroadcastNoCarriers(s)
        \/ Deliver(s) \/ SendAck(s) \/ FinishDelivery(s)
        \/ FinishReset(s) \/ ResetFlow(s)
        => SendingFrom
  BY <1>2, <1>3
<1>11. \A s \in Side, c \in Carrier :
        StopAtEOF(s, c) \/ StopAtWriteError(s, c) => SendingFrom
  BY <1>4, StopCuts
<1>12. \A s \in Side, c \in Carrier :
        \/ Attach(s, c) \/ AttachRejected(s, c)
        \/ PickFrame(s, c) \/ WriteFrame(s, c) \/ CommitFrame(s, c) \/ WriteAck(s, c)
        \/ ReceiveAck(s, c) \/ EnqueueInbound(s, c) \/ ReceiveRST(s, c)
        \/ StopAtEOF(s, c) \/ StopAtWriteError(s, c) \/ Detach(s, c)
        => SendingFrom
  BY <1>6, <1>7, <1>8, <1>9, <1>11
<1> QED BY <1>5, <1>10, <1>12, NextCases

-----------------------------------------------------------------------------
(* The sizes of the frames.                                                *)

LEMMA SizesForms ==
  /\ SizesOK <=> \A s \in Side :
       /\ read[s] <= ChunkSize
       /\ \A h \in history[s] : Fits(s, h.frame)
       /\ \A c \in Carrier : /\ \A x \in sending[s][c] : Fits(s, x.frame)
                             /\ \A g : Holds(wire[s][c], g) => Fits(s, g)
       /\ \A g : QHolds(inbound[s], g) => Fits(Peer(s), g)
  /\ (\A s \in Side :
       /\ read'[s] <= ChunkSize
       /\ \A h \in history'[s] : Fits(s, h.frame)
       /\ \A c \in Carrier : /\ \A x \in sending'[s][c] : Fits(s, x.frame)
                             /\ \A g : Holds(wire'[s][c], g) => Fits(s, g)
       /\ \A g : QHolds(inbound'[s], g) => Fits(Peer(s), g)) => SizesOK'
BY DEF SizesOK, Holds, QHolds, Fits

\* remember checked the window, and a read is at most a chunk.
LEMMA NewFrameFits ==
  ASSUME FlowInv, HistoryBounded, SizesOK, NEW s \in Side, NEW f \in Frame,
         Remember(s, f), f.type = "DATA" => f.end - f.off = read[s]
  PROVE  Fits(s, f)
<1>1. historyBytes[s] + (f.end - f.off) <= Window[s]
  BY DEF Remember
<1>2. historyBytes[s] \in Nat
  <2>1. history[s] \in SUBSET history[s]
    OBVIOUS
  <2>2. PayloadBytes(history[s]) \in Nat
    BY <2>1, BytesFacts
  <2> QED BY <2>2 DEF HistoryBounded
<1>3. /\ read[s] <= ChunkSize /\ read[s] \in Nat /\ Window[s] \in Nat /\ ChunkSize \in Nat
      /\ f.off \in Nat /\ f.end \in Nat
  BY NatFacts DEF SizesOK, Frame
<1> QED BY <1>1, <1>2, <1>3 DEF Fits

LEMMA ReadSteps ==
  ASSUME FlowInv, Next, NEW t \in Side, ChunkSize \in Nat, read[t] <= ChunkSize
  PROVE  read'[t] <= ChunkSize
<1>1. read \in [Side -> Nat]
  BY DEF FlowInv, TypeOK, TypeRead
<1>2. ASSUME NEW s \in Side, ReadData(s)
      PROVE  read'[t] <= ChunkSize
  <2>1. PICK n \in 1 .. ChunkSize : read' = [read EXCEPT ![s] = n]
    BY <1>2 DEF ReadData
  <2> QED BY <1>1, <2>1
<1>3. ASSUME NEW s \in Side, RememberData(s)
      PROVE  read'[t] <= ChunkSize
  <2>1. read' = [read EXCEPT ![s] = 0]
    BY <1>3 DEF RememberData
  <2> QED BY <1>1, <2>1
<1>4. ASSUME NEW s \in Side,
             \/ Start(s) \/ ReadEOF(s)
             \/ ReadNoCarriers(s) \/ BroadcastReturns(s) \/ BroadcastNoCarriers(s)
             \/ Deliver(s) \/ SendAck(s) \/ FinishDelivery(s)
             \/ FinishReset(s) \/ ResetFlow(s)
      PROVE  read'[t] <= ChunkSize
  BY <1>4 DEF Start, ReadEOF, ReadNoCarriers, BroadcastReturns, BroadcastNoCarriers,
     Deliver, SendAck, FinishDelivery, FinishReset, ResetFlow, readVars
<1>5. ASSUME NEW c \in Carrier,
             AcceptOpen(c) \/ RefuseOpen(c) \/ Break(c) \/ CloseCarrier(c)
      PROVE  read'[t] <= ChunkSize
  BY <1>5 DEF AcceptOpen, RefuseOpen, Break, CloseCarrier, StopCarrier, readVars
<1>6. ASSUME NEW s \in Side, NEW c \in Carrier,
             \/ Attach(s, c) \/ AttachRejected(s, c)
             \/ PickFrame(s, c) \/ WriteFrame(s, c) \/ CommitFrame(s, c) \/ WriteAck(s, c)
             \/ ReceiveAck(s, c) \/ EnqueueInbound(s, c) \/ ReceiveRST(s, c)
             \/ StopAtEOF(s, c) \/ StopAtWriteError(s, c) \/ Detach(s, c)
      PROVE  read'[t] <= ChunkSize
  BY <1>6 DEF Attach, AttachRejected, PickFrame, WriteFrame, CommitFrame, WriteAck,
     ReceiveAck, EnqueueInbound, ReceiveRST, StopAtEOF, StopAtWriteError, StopCarrier,
     Detach, readVars
<1> QED BY <1>2, <1>3, <1>4, <1>5, <1>6, NextCases

LEMMA HistoryFits ==
  ASSUME FlowInv, HistorySeqOK, HistoryBounded, SizesOK, Next,
         NEW t \in Side, NEW h \in history'[t]
  PROVE  Fits(t, h.frame)
<1>1. \A u \in Side : \A g \in history[u] : Fits(u, g.frame)
  BY DEF SizesOK
<1>2. ASSUME NEW s \in Side, NEW f \in Frame, Remembers(s, f),
             f.type = "DATA" => f.end - f.off = read[s]
      PROVE  Fits(t, h.frame)
  <2>1. Remember(s, f) /\ Fits(s, f)
    BY <1>2, NewFrameFits DEF Remembers
  <2>2. PICK e \in Entry :
          /\ e.seq = nextSequence[s] /\ e.frame = f
          /\ history'[s] = history[s] \cup {e}
          /\ \A u \in Side : u # s => history'[u] = history[u]
    BY <2>1, RememberFacts
  <2>3. CASE t = s
    <3>1. h \in history[s] \/ h = e
      BY <2>2, <2>3
    <3> QED BY <1>1, <2>1, <2>2, <2>3, <3>1
  <2>4. CASE t # s
    <3>1. h \in history[t]
      BY <2>2, <2>4
    <3> QED BY <1>1, <3>1
  <2> QED BY <2>3, <2>4
<1>3. ASSUME NEW s \in Side, HistoryQuiet \/ Applies(s)
      PROVE  Fits(t, h.frame)
  BY <1>1, <1>3, HistoryShrinks
<1> QED BY <1>2, <1>3, HistorySteps

LEMMA SizesPart ==
  ASSUME FlowInv, HistorySeqOK, HistoryBounded, SizesOK, Next
  PROVE  SizesOK'
<1>1. WireFrom /\ InboundFrom /\ SendingFrom
  BY WireOrigins, InboundOrigins, SendingOrigins
<1>2. \A s \in Side :
       /\ read[s] <= ChunkSize
       /\ \A h \in history[s] : Fits(s, h.frame)
       /\ \A c \in Carrier : /\ \A x \in sending[s][c] : Fits(s, x.frame)
                             /\ \A g : Holds(wire[s][c], g) => Fits(s, g)
       /\ \A g : QHolds(inbound[s], g) => Fits(Peer(s), g)
  BY SizesForms
<1>3. \A s \in Side : read'[s] <= ChunkSize
  BY <1>2, ReadSteps, NatFacts
<1>4. \A s \in Side : \A h \in history'[s] : Fits(s, h.frame)
  BY HistoryFits
<1>5. \A s \in Side, c \in Carrier : \A y \in sending'[s][c] : Fits(s, y.frame)
  BY <1>1, <1>2 DEF SendingFrom
<1>6. ASSUME NEW s \in Side, NEW c \in Carrier, NEW g, Holds(wire'[s][c], g)
      PROVE  Fits(s, g)
  <2>1. WireSource(s, c, g)
    BY <1>1, <1>6 DEF WireFrom
  <2>2. g.type = "ACK" \/ g.type = "RST" => Fits(s, g)
    BY DEF Fits
  <2> QED BY <1>2, <2>1, <2>2 DEF WireSource
<1>7. ASSUME NEW s \in Side, NEW g, QHolds(inbound'[s], g)
      PROVE  Fits(Peer(s), g)
  BY <1>1, <1>2, <1>7, PeerFacts DEF InboundFrom
<1> QED BY <1>3, <1>4, <1>5, <1>6, <1>7, SizesForms

-----------------------------------------------------------------------------
(* What was delivered stays delivered, and nothing is refused.             *)

\* The first queued frame is refused only if no window of s can take it.
LEMMA RefusedTooLong ==
  ASSUME FlowInv, QueueInOrder
  PROVE  NeverOutOfOrder
<1> SUFFICES ASSUME NEW s \in Side, closed[s] = "open", inbound[s] # <<>>,
                    Refused(s, Head(inbound[s]).frame)
             PROVE  Head(inbound[s]).frame.end - Head(inbound[s]).frame.off > Window[s]
  BY DEF NeverOutOfOrder, QueueInOrder
<1>1. PICK q \in Seq([src : Carrier, frame : Frame]) : q = inbound[s] /\ q # <<>>
  BY NatFacts
<1>2. Head(q) = q[1] /\ 1 \in 1 .. Len(q) /\ ~\E j \in 1 .. (1 - 1) : TRUE
  BY <1>1, TailFacts
<1>3. PICK f \in Frame : f = Head(inbound[s]).frame /\ f = inbound[s][1].frame
  BY <1>1, <1>2, InboundTypes DEF FlowInv
<1>4. /\ held[s] = {} /\ f.off <= nextOffset[s]
  BY <1>1, <1>2, <1>3 DEF QueueInOrder
<1>5. /\ nextOffset[s] \in Nat /\ offset[Peer(s)] \in Nat /\ Window[s] \in Nat
      /\ f.off \in Nat /\ f.end \in Nat /\ nextOffset[s] <= offset[Peer(s)]
      /\ \A o \in finOffset[s] : o = offset[Peer(s)]
      /\ f.type \in {"DATA", "FIN"}
      /\ f.type = "DATA" => f.end <= offset[Peer(s)]
      /\ f.type = "FIN" => f.off = offset[Peer(s)]
  <2>1. StreamFrameOK(Peer(s), f)
    BY <1>1, <1>2, <1>3 DEF FlowInv, FramesOK, InboundFramesOK
  <2> QED BY <2>1, NatFacts, PeerFacts DEF FlowInv, ReceiverOK, Frame, StreamFrameOK, FrameOK
<1>6. Refused(s, f)
  BY <1>3
<1>7. CASE f.type = "DATA"
  BY SMTT(30), <1>3, <1>4, <1>5, <1>6, <1>7 DEF Refused
<1>8. CASE f.type = "FIN"
  BY <1>4, <1>5, <1>6, <1>8 DEF Refused
<1> QED BY <1>5, <1>7, <1>8

\* Bytes leave the hands of readEndpoint only before it saw the EOF.
LEMMA EndIsEnd ==
  ASSUME FlowInv, NEW s \in Side, localFIN[s]
  PROVE  read[s] = 0 /\ offset[s] = Total[s]
<1>1. offset[s] \in Nat /\ read[s] \in Nat /\ offset[s] + read[s] <= Total[s]
  BY DEF FlowInv, TypeOK, TypeRead
<1> QED BY <1>1 DEF FlowInv, ReceiverOK

\* The sending side: offsets only grow, and end with the EOF.
LEMMA SenderSteps ==
  ASSUME FlowInv, FlowInv', Next, NEW t \in Side
  PROVE  localFIN[t] => localFIN'[t] /\ offset'[t] = offset[t]
<1>1. offset \in [Side -> Nat] /\ localFIN \in [Side -> BOOLEAN] /\ read \in [Side -> Nat]
  BY DEF FlowInv, TypeOK, TypeRead
<1>2. ASSUME NEW s \in Side, RememberData(s)
      PROVE  localFIN[t] => localFIN'[t] /\ offset'[t] = offset[t]
  <2>1. /\ offset' = [offset EXCEPT ![s] = offset[s] + read[s]] /\ read[s] > 0
        /\ UNCHANGED localFIN
    BY <1>2 DEF RememberData
  <2>2. ~localFIN[s]
    BY <1>1, <2>1, EndIsEnd
  <2> QED BY <1>1, <2>1, <2>2
<1>3. ASSUME NEW s \in Side, ReadEOF(s) \/ ReadNoCarriers(s)
      PROVE  localFIN[t] => localFIN'[t] /\ offset'[t] = offset[t]
  <2>1. /\ UNCHANGED offset
        /\ \/ localFIN' = [localFIN EXCEPT ![s] = TRUE]
           \/ localFIN' = [localFIN EXCEPT ![s] = localFIN[s] \/ AtEOF(s)]
    BY <1>3 DEF ReadEOF, ReadNoCarriers
  <2> QED BY <1>1, <2>1
<1>4. ASSUME NEW s \in Side,
             \/ Start(s) \/ ReadData(s) \/ BroadcastReturns(s) \/ BroadcastNoCarriers(s)
             \/ Deliver(s) \/ SendAck(s) \/ FinishDelivery(s)
             \/ FinishReset(s) \/ ResetFlow(s)
      PROVE  UNCHANGED <<offset, localFIN>>
  BY <1>4 DEF Start, ReadData, BroadcastReturns, BroadcastNoCarriers,
     Deliver, SendAck, FinishDelivery, FinishReset, ResetFlow, readVars
<1>5. ASSUME NEW c \in Carrier,
             AcceptOpen(c) \/ RefuseOpen(c) \/ Break(c) \/ CloseCarrier(c)
      PROVE  UNCHANGED <<offset, localFIN>>
  BY <1>5 DEF AcceptOpen, RefuseOpen, Break, CloseCarrier, StopCarrier, readVars
<1>6. ASSUME NEW s \in Side, NEW c \in Carrier,
             \/ Attach(s, c) \/ AttachRejected(s, c)
             \/ PickFrame(s, c) \/ WriteFrame(s, c) \/ CommitFrame(s, c) \/ WriteAck(s, c)
             \/ ReceiveAck(s, c) \/ EnqueueInbound(s, c) \/ ReceiveRST(s, c)
             \/ StopAtEOF(s, c) \/ StopAtWriteError(s, c) \/ Detach(s, c)
      PROVE  UNCHANGED <<offset, localFIN>>
  BY <1>6 DEF Attach, AttachRejected, PickFrame, WriteFrame, CommitFrame, WriteAck,
     ReceiveAck, EnqueueInbound, ReceiveRST, StopAtEOF, StopAtWriteError, StopCarrier,
     Detach, readVars
<1> QED BY <1>2, <1>3, <1>4, <1>5, <1>6, NextCases

\* The receiving side: only Deliver moves it, and only forward.
LEMMA ReceiverSteps ==
  ASSUME FlowInv, Next
  PROVE  \/ UNCHANGED <<nextOffset, finOffset>>
         \/ \E s \in Side : Deliver(s)
<1>1. ASSUME NEW s \in Side,
             \/ Start(s) \/ ReadData(s) \/ RememberData(s) \/ ReadEOF(s)
             \/ ReadNoCarriers(s) \/ BroadcastReturns(s) \/ BroadcastNoCarriers(s)
             \/ SendAck(s) \/ FinishDelivery(s) \/ FinishReset(s) \/ ResetFlow(s)
      PROVE  UNCHANGED <<nextOffset, finOffset>>
  BY <1>1 DEF Start, ReadData, RememberData, ReadEOF, ReadNoCarriers, BroadcastReturns,
     BroadcastNoCarriers, SendAck, FinishDelivery, FinishReset, ResetFlow, recvVars
<1>2. ASSUME NEW c \in Carrier,
             AcceptOpen(c) \/ RefuseOpen(c) \/ Break(c) \/ CloseCarrier(c)
      PROVE  UNCHANGED <<nextOffset, finOffset>>
  BY <1>2 DEF AcceptOpen, RefuseOpen, Break, CloseCarrier, StopCarrier, recvVars
<1>3. ASSUME NEW s \in Side, NEW c \in Carrier,
             \/ Attach(s, c) \/ AttachRejected(s, c)
             \/ PickFrame(s, c) \/ WriteFrame(s, c) \/ CommitFrame(s, c) \/ WriteAck(s, c)
             \/ ReceiveAck(s, c) \/ EnqueueInbound(s, c) \/ ReceiveRST(s, c)
             \/ StopAtEOF(s, c) \/ StopAtWriteError(s, c) \/ Detach(s, c)
      PROVE  UNCHANGED <<nextOffset, finOffset>>
  BY <1>3 DEF Attach, AttachRejected, PickFrame, WriteFrame, CommitFrame, WriteAck,
     ReceiveAck, EnqueueInbound, ReceiveRST, StopAtEOF, StopAtWriteError, StopCarrier,
     Detach, recvVars
<1> QED BY <1>1, <1>2, <1>3, NextCases

LEMMA DeliverForward ==
  ASSUME FlowInv, NEW s \in Side, Deliver(s)
  PROVE  \A t \in Side : /\ nextOffset[t] <= nextOffset'[t]
                         /\ finOffset[t] # {} => finOffset'[t] # {}
                         /\ t # s => /\ nextOffset'[t] = nextOffset[t]
                                     /\ finOffset'[t] = finOffset[t]
<1>1. nextOffset \in [Side -> Nat] /\ finOffset \in [Side -> SUBSET Nat]
  BY DEF FlowInv, TypeOK, TypeRecv
<1>2. PICK f \in Frame, src \in Carrier :
        /\ f = Head(inbound[s]).frame /\ src = Head(inbound[s]).src
        /\ StreamFrameOK(Peer(s), f)
  BY HeadInbound DEF Deliver
<1>3. CASE Refused(s, f)
  BY <1>1, <1>2, <1>3 DEF Deliver
<1>4. CASE ~Refused(s, f)
  <2>1. Accept(s, src, f) /\ UNCHANGED <<offset, localFIN>>
    BY <1>2, <1>4 DEF Deliver, readVars
  <2>2. PICK m \in Nat, fin \in SUBSET Nat, acks \in SUBSET Frame, K \in SUBSET Nat :
           /\ nextOffset[s] <= m
           /\ nextOffset' = [nextOffset EXCEPT ![s] = m]
    BY <1>2, <2>1, AcceptFacts
  <2>3. \E v : finOffset' = [finOffset EXCEPT ![s] = v] /\ (finOffset[s] # {} => v # {})
    BY <2>1 DEF Accept
  <2>4. /\ finOffset[s] # {} => finOffset'[s] # {}
        /\ \A t \in Side : t # s => finOffset'[t] = finOffset[t]
    BY <1>1, <2>3
  <2>5. /\ nextOffset[s] <= nextOffset'[s]
        /\ \A t \in Side : t # s => nextOffset'[t] = nextOffset[t]
    BY <1>1, <2>2
  <2>6. \A t \in Side : nextOffset[t] <= nextOffset'[t]
    BY <1>1, <2>5
  <2> QED BY <2>4, <2>5, <2>6
<1> QED BY <1>3, <1>4

\* What the peer delivered completely stays so.
LEMMA DeliveredStays ==
  ASSUME FlowInv, FlowInv', Next, NEW s \in Side, Delivered(s)
  PROVE  Delivered(s)'
<1>1. localFIN'[s] /\ offset'[s] = offset[s]
  BY SenderSteps DEF Delivered
<1>2. /\ nextOffset[Peer(s)] <= nextOffset'[Peer(s)]
      /\ finOffset[Peer(s)] # {} => finOffset'[Peer(s)] # {}
  <2>1. CASE UNCHANGED <<nextOffset, finOffset>>
    BY <2>1, NatFacts, PeerFacts
  <2>2. CASE \E t \in Side : Deliver(t)
    BY <2>2, DeliverForward, PeerFacts
  <2> QED BY <2>1, <2>2, ReceiverSteps
<1>3. /\ nextOffset'[Peer(s)] <= offset'[s]
      /\ \A o \in finOffset'[Peer(s)] : o = offset'[s]
  BY PeerFacts DEF FlowInv, ReceiverOK
<1>4. nextOffset'[Peer(s)] \in Nat /\ offset'[s] \in Nat
  BY PeerFacts DEF FlowInv, TypeOK, TypeRead, TypeRecv
<1> QED BY <1>1, <1>2, <1>3, <1>4 DEF Delivered

-----------------------------------------------------------------------------
(* A stream that survives its failures stays open until all is delivered.  *)

LEMMA NilDelivered ==
  ASSUME FlowInv', NEW s \in Side, closed'[s] = "nil"
  PROVE  AllDelivered'
<1>1. Delivered(s)' /\ Delivered(Peer(s))'
  BY DEF FlowInv, GracefulMeansDelivered
<1>2. \A t \in Side : t = s \/ t = Peer(s)
  BY DEF Side, Peer
<1>3. \A t \in Side : Delivered(t)'
  BY <1>1, <1>2
<1> QED BY <1>3 DEF AllDelivered

\* While it is calm, a flow that has work has a carrier for it.
LEMMA CalmAttached ==
  ASSUME FlowInv, Calm, NEW s \in Side,
         started[s] \/ waiting[s] # {} \/ delivering[s] # {}
  PROVE  Attached(s) # {}
<1>1. PICK c \in Carrier : status[s][c] \in {"up", "draining", "closing", "gone"}
  BY DEF Calm
<1>2. CASE \A d \in Carrier : ~broken[d]
  BY <1>1, <1>2 DEF Calm, Attached
<1>3. CASE \E d \in Carrier : ~broken[d] /\ \A u \in Side : status[u][d] = "up"
  BY <1>3 DEF Attached
<1> QED BY <1>2, <1>3 DEF Calm

\* A carrier that is lost while it is calm leaves another one.
LEMMA CalmSurvivor ==
  ASSUME Calm, NEW c \in Carrier, broken[c]
  PROVE  Survivable(c)
<1>1. PICK d \in Carrier : ~broken[d] /\ \A u \in Side : status[u][d] = "up"
  BY DEF Calm
<1>2. d # c
  BY <1>1
<1> QED BY <1>1, <1>2 DEF Survivable

Injected == failures' # failures /\ StreamMayFail

LEMMA InjectedSteps ==
  ASSUME FlowInv, Next
  PROVE  /\ failures' \in Nat /\ failures \in Nat
         /\ failures' = failures \/ failures' = failures + 1
<1>1. failures \in Nat
  BY DEF FlowInv, TypeOK
<1>2. ASSUME NEW s \in Side,
             \/ Start(s) \/ ReadData(s) \/ RememberData(s) \/ ReadEOF(s)
             \/ ReadNoCarriers(s) \/ BroadcastReturns(s) \/ BroadcastNoCarriers(s)
             \/ Deliver(s) \/ SendAck(s) \/ FinishDelivery(s)
             \/ FinishReset(s) \/ ResetFlow(s)
      PROVE  failures' = failures \/ failures' = failures + 1
  BY <1>2 DEF Start, ReadData, RememberData, ReadEOF, ReadNoCarriers, BroadcastReturns,
     BroadcastNoCarriers, Deliver, SendAck, FinishDelivery, FinishReset, ResetFlow
<1>3. ASSUME NEW c \in Carrier,
             AcceptOpen(c) \/ RefuseOpen(c) \/ Break(c) \/ CloseCarrier(c)
      PROVE  failures' = failures \/ failures' = failures + 1
  BY <1>3 DEF AcceptOpen, RefuseOpen, Break, CloseCarrier
<1>4. ASSUME NEW s \in Side, NEW c \in Carrier,
             \/ Attach(s, c) \/ AttachRejected(s, c)
             \/ PickFrame(s, c) \/ WriteFrame(s, c) \/ CommitFrame(s, c) \/ WriteAck(s, c)
             \/ ReceiveAck(s, c) \/ EnqueueInbound(s, c) \/ ReceiveRST(s, c)
             \/ StopAtEOF(s, c) \/ StopAtWriteError(s, c) \/ Detach(s, c)
      PROVE  failures' = failures \/ failures' = failures + 1
  BY <1>4 DEF Attach, AttachRejected, PickFrame, WriteFrame, CommitFrame, WriteAck,
     ReceiveAck, EnqueueInbound, ReceiveRST, StopAtEOF, StopAtWriteError, Detach
<1>5. failures' = failures \/ failures' = failures + 1
  BY <1>2, <1>3, <1>4, NextCases
<1> QED BY <1>1, <1>5

\* The frame that Deliver takes fits, so it is not refused.
LEMMA CalmAccepts ==
  ASSUME FlowInv, QueueInOrder, SizesOK, FramesFit, NEW s \in Side,
         closed[s] = "open", inbound[s] # <<>>
  PROVE  ~Refused(s, Head(inbound[s]).frame)
<1>1. PICK q \in Seq([src : Carrier, frame : Frame]) : q = inbound[s] /\ q # <<>>
  BY NatFacts
<1>2. Head(q) = q[1] /\ 1 \in 1 .. Len(q)
  BY <1>1, TailFacts
<1>3. PICK f \in Frame : f = Head(inbound[s]).frame /\ f = inbound[s][1].frame
  BY <1>1, <1>2, InboundTypes DEF FlowInv
<1>4. Fits(Peer(s), f)
  BY <1>1, <1>2, <1>3 DEF SizesOK
<1>5. StreamFrameOK(Peer(s), f)
  BY <1>1, <1>2, <1>3 DEF FlowInv, FramesOK, InboundFramesOK
<1>6. Refused(s, f) => f.end - f.off > Window[s]
  BY <1>3, RefusedTooLong DEF NeverOutOfOrder
<1>7. Window[s] \in Nat \ {0} /\ Window[Peer(s)] \in Nat /\ ChunkSize \in Nat
      /\ f.off \in Nat /\ f.end \in Nat
  BY PeerFacts, ConstantsAssumption DEF Frame
<1>8. ChunkSize <= Window[s] \/ Window[Peer(s)] <= Window[s]
  BY PeerFacts DEF FramesFit
<1>9. f.type = "FIN" => f.end = f.off
  BY <1>5 DEF StreamFrameOK, FrameOK
<1>10. ~(f.end - f.off > Window[s])
  BY <1>4, <1>5, <1>7, <1>8, <1>9 DEF Fits, StreamFrameOK
<1> QED BY <1>3, <1>6, <1>10

LEMMA ClaimErr ==
  ASSUME FlowInv, NEW s \in Side, NEW outcome \in {"nil", "err"}, NEW cond,
         Claim(s, outcome) \/ ClaimIf(s, cond, outcome), NEW t \in Side,
         closed[t] = "open", closed'[t] = "err"
  PROVE  t = s /\ outcome = "err"
<1>1. closed \in [Side -> {"open", "nil", "err"}]
  BY DEF FlowInv, TypeOK, TypeFlow
<1>2. Claim(s, outcome)
  <2>1. closed' # closed
    OBVIOUS
  <2> QED BY <2>1 DEF ClaimIf
<1>3. closed' = [closed EXCEPT ![s] = IF closed[s] = "open" THEN outcome ELSE closed[s]]
  BY <1>2 DEF Claim
<1> QED BY <1>1, <1>3

\* No step ends a calm stream with an error, unless a failure took its flow.
LEMMA CalmNoErr ==
  ASSUME FlowInv, QueueInOrder, SizesOK, FramesFit, Calm, Next, ~Injected
  PROVE  \A t \in Side : closed'[t] # "err"
<1> SUFFICES ASSUME NEW t \in Side, closed'[t] = "err" PROVE FALSE
  OBVIOUS
<1>1. /\ \A u \in Side : closed[u] = "open"
      /\ closed \in [Side -> {"open", "nil", "err"}]
  BY DEF Calm, FlowInv, TypeOK, TypeFlow
<1>2. ~UNCHANGED closed
  BY <1>1
<1>3. ASSUME NEW s \in Side, Start(s) \/ ReadNoCarriers(s)
      PROVE  FALSE
  <2>1. CASE Start(s)
    <3>1. ClaimIf(s, Attached(s) = {}, "err") /\ Attached(s) = {}
      BY <1>2, <2>1 DEF Start, ClaimIf
    <3>2. \E c \in Carrier : status[s][c] \in {"up", "draining", "closing", "gone"}
      BY <2>1 DEF Start
    <3>3. CASE \A d \in Carrier : ~broken[d]
      BY <3>1, <3>2, <3>3 DEF Calm, Attached
    <3>4. CASE \E d \in Carrier : ~broken[d] /\ \A u \in Side : status[u][d] = "up"
      BY <3>1, <3>4 DEF Attached
    <3> QED BY <3>3, <3>4 DEF Calm
  <2>2. CASE ReadNoCarriers(s)
    BY <2>2, CalmAttached DEF ReadNoCarriers, Reading
  <2> QED BY <1>3, <2>1, <2>2
<1>4. ASSUME NEW s \in Side, BroadcastNoCarriers(s)
      PROVE  FALSE
  <2>1. Attached(s) = {} /\ waiting[s] # {}
    BY <1>4 DEF BroadcastNoCarriers
  <2> QED BY <2>1, CalmAttached
<1>5. ASSUME NEW s \in Side, BroadcastReturns(s)
      PROVE  FALSE
  <2>1. \E cond : ClaimIf(s, cond, "nil")
    BY <1>5 DEF BroadcastReturns
  <2>2. "nil" \in {"nil", "err"} /\ "nil" # "err"
    OBVIOUS
  <2> QED BY <1>1, <2>1, <2>2, ClaimErr
<1>6. ASSUME NEW s \in Side, Deliver(s)
      PROVE  FALSE
  BY <1>2, <1>6, CalmAccepts DEF Deliver
<1>7. ASSUME NEW s \in Side, FinishDelivery(s)
      PROVE  FALSE
  <2>1. Attached(s) # {}
    BY <1>7, CalmAttached DEF FinishDelivery
  <2>2. ~NothingLeft(s)
    BY <2>1 DEF NothingLeft
  <2>3. PICK complete : \E rFIN :
           ClaimIf(s, complete \/ NothingLeft(s),
               IF complete \/ ExchangeComplete(localFIN[s], rFIN,
                                globalAckFIN[s], deferredAck[s], history[s])
                 THEN "nil" ELSE "err")
    BY <1>7 DEF FinishDelivery
  <2>4. complete /\ Claim(s, "nil")
    BY <1>2, <2>2, <2>3 DEF ClaimIf
  <2>5. "nil" \in {"nil", "err"} /\ "nil" # "err"
    OBVIOUS
  <2> QED BY <1>1, <2>4, <2>5, ClaimErr
<1>8. ASSUME NEW s \in Side, ResetFlow(s)
      PROVE  FALSE
  <2>1. failures' = failures + 1 /\ failures \in Nat /\ StreamMayFail
    BY <1>8 DEF ResetFlow, FlowInv, TypeOK
  <2> QED BY <2>1 DEF Injected
<1>9. ASSUME NEW s \in Side,
             ReadData(s) \/ RememberData(s) \/ ReadEOF(s) \/ SendAck(s) \/ FinishReset(s)
      PROVE  FALSE
  BY <1>2, <1>9 DEF ReadData, RememberData, ReadEOF, SendAck, FinishReset, flowVars
<1>10. ASSUME NEW c \in Carrier,
             AcceptOpen(c) \/ RefuseOpen(c) \/ Break(c) \/ CloseCarrier(c)
      PROVE  FALSE
  BY <1>2, <1>10 DEF AcceptOpen, RefuseOpen, Break, CloseCarrier, StopCarrier, flowVars
<1>11. ASSUME NEW s \in Side, NEW c \in Carrier,
             \/ Attach(s, c) \/ AttachRejected(s, c) \/ PickFrame(s, c)
             \/ WriteFrame(s, c) \/ EnqueueInbound(s, c)
             \/ StopAtEOF(s, c) \/ StopAtWriteError(s, c)
      PROVE  FALSE
  BY <1>2, <1>11 DEF Attach, AttachRejected, PickFrame, WriteFrame, EnqueueInbound,
     StopAtEOF, StopAtWriteError, StopCarrier, flowVars
<1>12. ASSUME NEW s \in Side, NEW c \in Carrier,
              CommitFrame(s, c) \/ WriteAck(s, c) \/ ReceiveAck(s, c)
      PROVE  FALSE
  <2>1. \E cond : ClaimIf(s, cond, "nil")
    <3>1. \A a, deferred : ApplyAck(s, a, deferred) => \E cond : ClaimIf(s, cond, "nil")
      BY DEF ApplyAck
    <3>2. CASE CommitFrame(s, c)
      BY <1>2, <3>1, <3>2 DEF CommitFrame, ApplyDeferred
    <3>3. CASE WriteAck(s, c)
      BY <3>3 DEF WriteAck
    <3>4. CASE ReceiveAck(s, c)
      BY <1>2, <3>1, <3>4 DEF ReceiveAck, Acknowledge
    <3> QED BY <1>12, <3>2, <3>3, <3>4
  <2>2. "nil" \in {"nil", "err"} /\ "nil" # "err"
    OBVIOUS
  <2> QED BY <1>1, <2>1, <2>2, ClaimErr
<1>13. ASSUME NEW s \in Side, NEW c \in Carrier, ReceiveRST(s, c)
      PROVE  FALSE
  <2>1. Receive(s, c, {"RST"})
    BY <1>13 DEF ReceiveRST
  <2>2. PICK g \in Frame :
          /\ g = wire[Peer(s)][c][1] /\ g.type \in {"RST"}
          /\ 1 \in 1 .. Len(wire[Peer(s)][c])
    BY <2>1, ReceiveEffect
  <2> QED BY <2>2, PeerFacts DEF Calm
<1>14. ASSUME NEW s \in Side, NEW c \in Carrier, Detach(s, c)
      PROVE  FALSE
  <2>1. LastCarrier(s, c) /\ status[s][c] \in {"draining", "closing"}
    BY <1>2, <1>14 DEF Detach, ClaimIf
  <2>2. PICK d \in Carrier \ {c} : status[s][d] = "up"
    BY <2>1, CalmSurvivor DEF Calm, Survivable
  <2>3. d \in Attached(s)
    BY <2>2 DEF Attached
  <2> QED BY <2>1, <2>2, <2>3 DEF LastCarrier
<1>15. \A s \in Side : ~
        (\/ Start(s) \/ ReadData(s) \/ RememberData(s) \/ ReadEOF(s)
         \/ ReadNoCarriers(s) \/ BroadcastReturns(s) \/ BroadcastNoCarriers(s)
         \/ Deliver(s) \/ SendAck(s) \/ FinishDelivery(s)
         \/ FinishReset(s) \/ ResetFlow(s))
  BY <1>3, <1>4, <1>5, <1>6, <1>7, <1>8, <1>9
<1>16. \A s \in Side, c \in Carrier : ~
        (\/ Attach(s, c) \/ AttachRejected(s, c)
         \/ PickFrame(s, c) \/ WriteFrame(s, c) \/ CommitFrame(s, c) \/ WriteAck(s, c)
         \/ ReceiveAck(s, c) \/ EnqueueInbound(s, c) \/ ReceiveRST(s, c)
         \/ StopAtEOF(s, c) \/ StopAtWriteError(s, c) \/ Detach(s, c))
  BY <1>11, <1>12, <1>13, <1>14
<1> QED BY <1>10, <1>15, <1>16, NextCases

\* How the status of a carrier may change while both flows are open.
StatusMove(s, c) ==
  \/ status'[s][c] = status[s][c]
  \/ status[s][c] = "none" /\ status'[s][c] \in {"opening", "refused"}
  \/ status[s][c] \in {"none", "opening"} /\ status'[s][c] = "up"
  \/ status[s][c] = "up" /\ status'[s][c] \in {"draining", "closing"} /\ broken'[c]
  \/ status[s][c] \in {"draining", "closing"} /\ status'[s][c] = "gone"
CarriersMove ==
  /\ \A s \in Side, c \in Carrier : StatusMove(s, c) /\ (broken[c] => broken'[c])
  /\ \/ UNCHANGED broken /\ \A s \in Side, c \in Carrier :
                              status[s][c] = "up" => status'[s][c] = "up"
     \/ \E d \in Carrier : ~broken'[d] /\ \A s \in Side : status'[s][d] = "up"

LEMMA StatusUpdate ==
  ASSUME FlowInv, NEW s \in Side, NEW c \in Carrier, NEW st,
         status' = [status EXCEPT ![s][c] = st]
  PROVE  /\ status'[s][c] = st
         /\ \A t \in Side, d \in Carrier : t # s \/ d # c => status'[t][d] = status[t][d]
BY DEF FlowInv, TypeOK, TypeCarrier

LEMMA StopMove ==
  ASSUME FlowInv, NEW s \in Side, NEW c \in Carrier, NEW k,
         NEW to \in {"draining", "closing"}, StopCarrier(s, c, k, to), Survivable(c)
  PROVE  CarriersMove
<1>1. /\ status[s][c] = "up" /\ status' = [status EXCEPT ![s][c] = to]
      /\ broken' = [broken EXCEPT ![c] = TRUE]
  BY DEF StopCarrier
<1>2. /\ status'[s][c] = to
      /\ \A t \in Side, d \in Carrier : t # s \/ d # c => status'[t][d] = status[t][d]
  BY <1>1, StatusUpdate
<1>3. broken'[c] /\ \A d \in Carrier : d # c => broken'[d] = broken[d]
  BY <1>1 DEF FlowInv, TypeOK, TypeConn
<1>4. PICK d \in Carrier \ {c} : ~broken[d] /\ \A t \in Side : status[t][d] = "up"
  BY DEF Survivable
<1>5. ~broken'[d] /\ \A t \in Side : status'[t][d] = "up"
  BY <1>2, <1>3, <1>4
<1>6. \A t \in Side, e \in Carrier : StatusMove(t, e) /\ (broken[e] => broken'[e])
  BY <1>1, <1>2, <1>3 DEF StatusMove
<1> QED BY <1>5, <1>6 DEF CarriersMove

LEMMA CalmMoves ==
  ASSUME FlowInv, Calm, Next, ~Injected
  PROVE  CarriersMove /\ UNCHANGED done
<1>1. \A u \in Side : closed[u] = "open" /\ ~done[u]
  BY DEF Calm
<1>2. UNCHANGED <<status, broken>> => CarriersMove
  BY DEF CarriersMove, StatusMove
<1>3. ASSUME NEW s \in Side,
             \/ Start(s) \/ ReadData(s) \/ RememberData(s) \/ ReadEOF(s)
             \/ ReadNoCarriers(s) \/ BroadcastReturns(s) \/ BroadcastNoCarriers(s)
             \/ Deliver(s) \/ SendAck(s) \/ FinishDelivery(s)
             \/ FinishReset(s) \/ ResetFlow(s)
      PROVE  CarriersMove /\ UNCHANGED done
  <2>1. ~FinishReset(s)
    BY <1>1 DEF FinishReset
  <2>2. UNCHANGED <<status, broken, done>>
    BY <1>3, <2>1 DEF Start, ReadData, RememberData, ReadEOF, ReadNoCarriers,
       BroadcastReturns, BroadcastNoCarriers, Deliver, SendAck, FinishDelivery, ResetFlow,
       carrierVars, connVars, flowVars
  <2> QED BY <1>2, <2>2
<1>4. ASSUME NEW c \in Carrier, AcceptOpen(c) \/ RefuseOpen(c)
      PROVE  CarriersMove /\ UNCHANGED done
  <2>1. PICK st \in {"opening", "refused"} :
          status' = [status EXCEPT !["server"][c] = st]
    BY <1>4 DEF AcceptOpen, RefuseOpen
  <2>2. UNCHANGED <<broken, done>> /\ status["server"][c] = "none"
    BY <1>4 DEF AcceptOpen, RefuseOpen, connVars, flowVars
  <2>3. PICK s \in Side : s = "server"
    BY DEF Side
  <2>4. /\ status'[s][c] = st
        /\ \A t \in Side, d \in Carrier : t # s \/ d # c => status'[t][d] = status[t][d]
    <3>1. status' = [status EXCEPT ![s][c] = st]
      BY <2>1, <2>3
    <3>2. status \in [Side -> [Carrier -> Status]]
      BY DEF FlowInv, TypeOK, TypeCarrier
    <3> QED BY <3>1, <3>2
  <2>5. \A t \in Side, e \in Carrier :
          StatusMove(t, e) /\ (status[t][e] = "up" => status'[t][e] = "up")
    BY <2>2, <2>3, <2>4 DEF StatusMove
  <2> QED BY <2>2, <2>5 DEF CarriersMove
<1>5. ASSUME NEW c \in Carrier, Break(c)
      PROVE  CarriersMove /\ UNCHANGED done
  <2>1. /\ UNCHANGED <<status, done>> /\ broken' = [broken EXCEPT ![c] = TRUE]
        /\ failures' = failures + 1 /\ MayFail(c)
    BY <1>5 DEF Break, carrierVars, flowVars
  <2>2. Survivable(c)
    BY <2>1 DEF MayFail, Injected, FlowInv, TypeOK
  <2>3. PICK d \in Carrier \ {c} : ~broken[d] /\ \A t \in Side : status[t][d] = "up"
    BY <2>2 DEF Survivable
  <2>4. broken'[c] /\ \A e \in Carrier : e # c => broken'[e] = broken[e]
    BY <2>1 DEF FlowInv, TypeOK, TypeConn
  <2> QED BY <2>1, <2>3, <2>4 DEF CarriersMove, StatusMove
<1>6. ASSUME NEW c \in Carrier, CloseCarrier(c)
      PROVE  CarriersMove /\ UNCHANGED done
  <2>1. failures' = failures + 1 /\ MayFail(c) /\ UNCHANGED done
    BY <1>6 DEF CloseCarrier, StopCarrier, flowVars
  <2>2. Survivable(c)
    BY <2>1 DEF MayFail, Injected, FlowInv, TypeOK
  <2>3. PICK s \in Side : \E k : StopCarrier(s, c, k, "closing")
    BY <1>6, CloseCuts
  <2>4. PICK to \in {"draining", "closing"} : \E k : StopCarrier(s, c, k, to)
    BY <2>3
  <2> QED BY <2>1, <2>2, <2>4, StopMove
<1>7. ASSUME NEW s \in Side, NEW c \in Carrier, StopAtEOF(s, c) \/ StopAtWriteError(s, c)
      PROVE  CarriersMove /\ UNCHANGED done
  <2>1. broken[c]
    BY <1>7 DEF StopAtEOF, StopAtWriteError
  <2>2. Survivable(c)
    BY <2>1, CalmSurvivor
  <2>3. PICK to \in {"draining", "closing"} : \E k : StopCarrier(s, c, k, to)
    BY <1>7, StopCuts
  <2>4. UNCHANGED done
    BY <2>3 DEF StopCarrier, flowVars
  <2> QED BY <2>2, <2>3, <2>4, StopMove
<1>8. ASSUME NEW s \in Side, NEW c \in Carrier, AttachRejected(s, c)
      PROVE  FALSE
  BY <1>1, <1>8 DEF AttachRejected
<1>9. ASSUME NEW s \in Side, NEW c \in Carrier, Attach(s, c) \/ Detach(s, c)
      PROVE  CarriersMove /\ UNCHANGED done
  <2>1. UNCHANGED <<broken, done>>
    BY <1>9 DEF Attach, Detach, connVars, flowVars
  <2>2. PICK st : /\ status' = [status EXCEPT ![s][c] = st]
                  /\ \/ status[s][c] \in {"none", "opening"} /\ st = "up"
                     \/ status[s][c] \in {"draining", "closing"} /\ st = "gone"
    <3>1. CASE Attach(s, c)
      BY <3>1 DEF Attach, Opened, Side
    <3>2. CASE Detach(s, c)
      BY <3>2 DEF Detach
    <3> QED BY <1>9, <3>1, <3>2
  <2>3. /\ status'[s][c] = st
        /\ \A t \in Side, d \in Carrier : t # s \/ d # c => status'[t][d] = status[t][d]
    BY <2>2, StatusUpdate
  <2>4. \A t \in Side, e \in Carrier :
          StatusMove(t, e) /\ (status[t][e] = "up" => status'[t][e] = "up")
    BY <2>2, <2>3 DEF StatusMove
  <2> QED BY <2>1, <2>4 DEF CarriersMove
<1>10. ASSUME NEW s \in Side, NEW c \in Carrier,
             \/ PickFrame(s, c) \/ WriteFrame(s, c) \/ CommitFrame(s, c) \/ WriteAck(s, c)
             \/ ReceiveAck(s, c) \/ EnqueueInbound(s, c) \/ ReceiveRST(s, c)
      PROVE  CarriersMove /\ UNCHANGED done
  <2>1. UNCHANGED <<status, broken, done>>
    BY <1>10 DEF PickFrame, WriteFrame, CommitFrame, WriteAck, ReceiveAck,
       EnqueueInbound, ReceiveRST, carrierVars, connVars, flowVars
  <2> QED BY <1>2, <2>1
<1>11. \A s \in Side, c \in Carrier :
        \/ Attach(s, c) \/ AttachRejected(s, c)
        \/ PickFrame(s, c) \/ WriteFrame(s, c) \/ CommitFrame(s, c) \/ WriteAck(s, c)
        \/ ReceiveAck(s, c) \/ EnqueueInbound(s, c) \/ ReceiveRST(s, c)
        \/ StopAtEOF(s, c) \/ StopAtWriteError(s, c) \/ Detach(s, c)
        => CarriersMove /\ UNCHANGED done
  BY <1>7, <1>8, <1>9, <1>10
<1> QED BY <1>3, <1>4, <1>5, <1>6, <1>11, NextCases

\* A flow only gets work when it has started, or work was waiting, and with a
\* carrier attached.
LEMMA WorkSteps ==
  ASSUME FlowInv, Next, NEW t \in Side,
         started'[t] \/ waiting'[t] # {} \/ delivering'[t] # {}
  PROVE  \/ started[t] \/ waiting[t] # {} \/ delivering[t] # {}
         \/ \E c \in Carrier : status[t][c] \in {"up", "draining", "closing", "gone"}
<1>1. /\ started \in [Side -> BOOLEAN] /\ waiting \in [Side -> SUBSET Entry]
      /\ delivering \in [Side -> SUBSET Delivery]
  BY DEF FlowInv, TypeOK, TypeFlow, TypeRead, TypeRecv
<1>2. ASSUME NEW s \in Side, Start(s)
      PROVE  \/ started[t] \/ waiting[t] # {} \/ delivering[t] # {}
             \/ \E c \in Carrier : status[t][c] \in {"up", "draining", "closing", "gone"}
  <2>1. /\ started' = [started EXCEPT ![s] = TRUE] /\ UNCHANGED <<waiting, delivering>>
        /\ \E c \in Carrier : status[s][c] \in {"up", "draining", "closing", "gone"}
    BY <1>2 DEF Start, readVars, recvVars
  <2> QED BY <1>1, <2>1
<1>3. ASSUME NEW s \in Side,
             \/ RememberData(s) \/ ReadEOF(s) \/ BroadcastReturns(s)
             \/ Deliver(s) \/ SendAck(s) \/ FinishDelivery(s)
      PROVE  started[t] \/ waiting[t] # {} \/ delivering[t] # {}
  <2>1. /\ UNCHANGED started
        /\ started[s] \/ waiting[s] # {} \/ delivering[s] # {}
    BY <1>3 DEF RememberData, ReadEOF, BroadcastReturns, Deliver, SendAck, FinishDelivery,
       Reading, flowVars
  <2>2. /\ UNCHANGED waiting \/ \E v : waiting' = [waiting EXCEPT ![s] = v]
        /\ UNCHANGED delivering \/ \E v : delivering' = [delivering EXCEPT ![s] = v]
    <3>1. CASE RememberData(s) \/ ReadEOF(s)
      BY <3>1 DEF RememberData, ReadEOF, Remember, recvVars
    <3>2. CASE BroadcastReturns(s)
      BY <3>2 DEF BroadcastReturns, recvVars
    <3>3. CASE SendAck(s) \/ FinishDelivery(s)
      BY <3>3 DEF SendAck, FinishDelivery, readVars
    <3>4. CASE Deliver(s)
      BY <3>4 DEF Deliver, Accept, readVars
    <3> QED BY <1>3, <3>1, <3>2, <3>3, <3>4
  <2> QED BY <1>1, <2>1, <2>2
<1>4. ASSUME NEW s \in Side,
             \/ ReadData(s) \/ ReadNoCarriers(s) \/ BroadcastNoCarriers(s)
             \/ FinishReset(s) \/ ResetFlow(s)
      PROVE  UNCHANGED <<started, waiting, delivering>>
  BY <1>4 DEF ReadData, ReadNoCarriers, BroadcastNoCarriers, FinishReset, ResetFlow,
     flowVars, readVars, recvVars
<1>5. ASSUME NEW c \in Carrier,
             AcceptOpen(c) \/ RefuseOpen(c) \/ Break(c) \/ CloseCarrier(c)
      PROVE  UNCHANGED <<started, waiting, delivering>>
  BY SMTT(30), <1>5 DEF AcceptOpen, RefuseOpen, Break, CloseCarrier, StopCarrier,
     flowVars, readVars, recvVars
<1>6. ASSUME NEW s \in Side, NEW c \in Carrier,
             \/ Attach(s, c) \/ AttachRejected(s, c)
             \/ PickFrame(s, c) \/ WriteFrame(s, c) \/ CommitFrame(s, c) \/ WriteAck(s, c)
             \/ ReceiveAck(s, c) \/ EnqueueInbound(s, c) \/ ReceiveRST(s, c)
             \/ StopAtEOF(s, c) \/ StopAtWriteError(s, c) \/ Detach(s, c)
      PROVE  UNCHANGED <<started, waiting, delivering>>
  BY <1>6 DEF Attach, AttachRejected, PickFrame, WriteFrame, CommitFrame, WriteAck,
     ReceiveAck, EnqueueInbound, ReceiveRST, StopAtEOF, StopAtWriteError, StopCarrier,
     Detach, flowVars, readVars, recvVars
<1> QED BY <1>2, <1>3, <1>4, <1>5, <1>6, NextCases

LEMMA CalmForms ==
  /\ Calm <=>
       /\ \A s \in Side : /\ closed[s] = "open" /\ ~done[s]
                          /\ started[s] \/ waiting[s] # {} \/ delivering[s] # {} =>
                               \E c \in Carrier :
                                 status[s][c] \in {"up", "draining", "closing", "gone"}
       /\ \A s \in Side, c \in Carrier :
            /\ \A g : Holds(wire[s][c], g) => g.type # "RST"
            /\ status[s][c] \in {"draining", "closing", "gone"} => broken[c]
       /\ \/ \A c \in Carrier : ~broken[c]
          \/ \E c \in Carrier : ~broken[c] /\ \A s \in Side : status[s][c] = "up"
  /\ /\ \A s \in Side : /\ closed'[s] = "open" /\ ~done'[s]
                        /\ started'[s] \/ waiting'[s] # {} \/ delivering'[s] # {} =>
                             \E c \in Carrier :
                               status'[s][c] \in {"up", "draining", "closing", "gone"}
     /\ \A s \in Side, c \in Carrier :
          /\ \A g : Holds(wire'[s][c], g) => g.type # "RST"
          /\ status'[s][c] \in {"draining", "closing", "gone"} => broken'[c]
     /\ \/ \A c \in Carrier : ~broken'[c]
        \/ \E c \in Carrier : ~broken'[c] /\ \A s \in Side : status'[s][c] = "up"
     => Calm'
BY DEF Calm, Holds

LEMMA CalmStep ==
  ASSUME FlowInv, QueueInOrder, SizesOK, FramesFit, Calm, Next, ~Injected,
         \A s \in Side : closed'[s] = "open"
  PROVE  Calm'
<1>1. CarriersMove /\ UNCHANGED done
  BY CalmMoves
<1>2. /\ \A s \in Side : closed[s] = "open" /\ ~done[s]
      /\ \A s \in Side, c \in Carrier :
            /\ \A g : Holds(wire[s][c], g) => g.type # "RST"
            /\ status[s][c] \in {"draining", "closing", "gone"} => broken[c]
  BY CalmForms
<1>3. ASSUME NEW s \in Side, started'[s] \/ waiting'[s] # {} \/ delivering'[s] # {}
      PROVE  \E c \in Carrier : status'[s][c] \in {"up", "draining", "closing", "gone"}
  <2>1. PICK c \in Carrier : status[s][c] \in {"up", "draining", "closing", "gone"}
    BY <1>3, WorkSteps DEF Calm
  <2>2. StatusMove(s, c)
    BY <1>1 DEF CarriersMove
  <2>3. status'[s][c] \in {"up", "draining", "closing", "gone"}
    BY <2>1, <2>2 DEF StatusMove
  <2> QED BY <2>3
<1>4. ASSUME NEW s \in Side, NEW c \in Carrier, NEW g, Holds(wire'[s][c], g)
      PROVE  g.type # "RST"
  <2>1. WireSource(s, c, g)
    BY <1>4, WireOrigins DEF WireFrom
  <2>2. \A x \in sending[s][c] : x.frame.type # "RST"
    BY SendingFrames DEF InStream
  <2> QED BY <1>2, <2>1, <2>2 DEF WireSource
<1>5. ASSUME NEW s \in Side, NEW c \in Carrier,
             status'[s][c] \in {"draining", "closing", "gone"}
      PROVE  broken'[c]
  <2>1. StatusMove(s, c) /\ (broken[c] => broken'[c])
    BY <1>1 DEF CarriersMove
  <2> QED BY <1>2, <1>5, <2>1 DEF StatusMove
<1>6. \/ \A c \in Carrier : ~broken'[c]
      \/ \E c \in Carrier : ~broken'[c] /\ \A s \in Side : status'[s][c] = "up"
  <2>1. CASE UNCHANGED broken /\ \A s \in Side, c \in Carrier :
                                   status[s][c] = "up" => status'[s][c] = "up"
    BY <2>1 DEF Calm
  <2>2. CASE \E d \in Carrier : ~broken'[d] /\ \A s \in Side : status'[s][d] = "up"
    BY <2>2
  <2> QED BY <1>1, <2>1, <2>2 DEF CarriersMove
<1>7. \A s \in Side : closed'[s] = "open" /\ ~done'[s]
  BY <1>1, <1>2
<1> QED BY <1>3, <1>4, <1>5, <1>6, <1>7, CalmForms

LEMMA CalmPart ==
  ASSUME FlowInv, FlowInv', QueueInOrder, SizesOK, CalmUntilDelivered, Next
  PROVE  CalmUntilDelivered'
<1> SUFFICES ASSUME FramesFit, ~StreamMayFail \/ failures' = 0, ~AllDelivered'
             PROVE  Calm'
  BY DEF CalmUntilDelivered, FramesFit
<1>1. ~Injected /\ (~StreamMayFail \/ failures = 0)
  BY InjectedSteps DEF Injected
<1>2. ~AllDelivered
  BY DeliveredStays DEF AllDelivered
<1>3. Calm
  BY <1>1, <1>2 DEF CalmUntilDelivered
<1>4. \A s \in Side : closed'[s] # "err"
  BY <1>1, <1>3, CalmNoErr
<1>5. \A s \in Side : closed'[s] # "nil"
  BY NilDelivered
<1>6. \A s \in Side : closed'[s] \in {"open", "nil", "err"}
  BY DEF FlowInv, TypeOK, TypeFlow
<1>7. \A s \in Side : closed'[s] = "open"
  BY <1>4, <1>5, <1>6
<1> QED BY <1>1, <1>3, <1>7, CalmStep

-----------------------------------------------------------------------------
(* The invariant and its consequences.                                     *)

LEMMA OrderInit == Init => OrderInv
<1> SUFFICES ASSUME Init PROVE OrderInv
  OBVIOUS
<1>1. FlowInv
  BY InitInv
<1>2. /\ closed = [s \in Side |-> "open"] /\ started = [s \in Side |-> FALSE]
      /\ done = [s \in Side |-> FALSE] /\ read = [s \in Side |-> 0]
      /\ waiting = [s \in Side |-> {}] /\ delivering = [s \in Side |-> {}]
      /\ nextSequence = [s \in Side |-> 0]
      /\ history = [s \in Side |-> {}] /\ historyBytes = [s \in Side |-> 0]
      /\ inbound = [s \in Side |-> <<>>] /\ nextOffset = [s \in Side |-> 0]
      /\ held = [s \in Side |-> {}] /\ finOffset = [s \in Side |-> {}]
      /\ status = [s \in Side |-> [c \in Carrier |-> "none"]]
      /\ carrierNext = [s \in Side |-> [c \in Carrier |-> 0]]
      /\ sending = [s \in Side |-> [c \in Carrier |-> {}]]
      /\ wire = [s \in Side |-> [c \in Carrier |-> <<>>]]
      /\ broken = [c \in Carrier |-> FALSE]
  BY DEF Init
<1>3. Len(<<>>) = 0
  OBVIOUS
<1>4. \A s \in Side : Len(inbound[s]) = 0 /\ \A c \in Carrier : Len(wire[s][c]) = 0
  BY <1>2, <1>3
<1>5. HistorySeqOK /\ SendingSeqOK
  BY <1>2 DEF HistorySeqOK, SendingSeqOK
<1>6. HistoryBounded
  <2>1. PayloadBytes({}) = 0
    BY FS_EmptySet DEF PayloadBytes
  <2>2. \A s \in Side : history[s] = {} /\ historyBytes[s] = 0 /\ Window[s] \in Nat \ {0}
    BY <1>2, ConstantsAssumption
  <2> QED BY <2>1, <2>2 DEF HistoryBounded, PruneHistory
<1>7. SizesOK
  BY <1>2, <1>4, ConstantsAssumption DEF SizesOK
<1>8. QueueInOrder /\ WireInOrder
  BY <1>2, <1>4 DEF QueueInOrder, WireInOrder
<1>9. SendingInOrder /\ CarrierCopyComplete
  BY <1>2 DEF SendingInOrder, CarrierCopyComplete
<1>10. Calm
  BY <1>2, <1>4 DEF Calm
<1> QED BY <1>5, <1>6, <1>7, <1>8, <1>9, <1>10 DEF OrderInv, CalmUntilDelivered

LEMMA OrderStutter ==
  ASSUME OrderInv, UNCHANGED vars
  PROVE  OrderInv'
<1> USE DEF vars, flowVars, readVars, histVars, ackVars, writtenVars, recvVars,
            carrierVars, connVars
<1>1. HistorySeqOK' /\ SendingSeqOK' /\ HistoryBounded' /\ SizesOK'
  BY DEF OrderInv, HistorySeqOK, SendingSeqOK, HistoryBounded, SizesOK
<1>2. QueueInOrder' /\ WireInOrder'
  BY DEF OrderInv, QueueInOrder, WireInOrder, QueueReaches
<1>3. SendingInOrder' /\ CarrierCopyComplete'
  <2>1. \A t \in Side, d \in Carrier : Healthy(t, d)' <=> Healthy(t, d)
    BY DEF Healthy
  <2>2. \A t \in Side, d \in Carrier : CarrierGood(t, d) => CarrierGood(t, d)'
    BY PipeFixed DEF CarrierGood, QueueVars
  <2> QED BY <2>1, <2>2, CarrierParts, CarrierPartsNext DEF OrderInv
<1>4. CalmUntilDelivered'
  BY DEF OrderInv, CalmUntilDelivered, Calm, AllDelivered, Delivered
<1> QED BY <1>1, <1>2, <1>3, <1>4 DEF OrderInv

\* The inductive step, with the invariant that FlowPairProofs established.
LEMMA OrderNext == FlowInv /\ FlowInv' /\ OrderInv /\ [Next]_vars => OrderInv'
<1> SUFFICES ASSUME FlowInv, FlowInv', OrderInv, [Next]_vars PROVE OrderInv'
  OBVIOUS
<1>1. CASE Next
  <2>1. HistorySeqOK' /\ HistoryBounded'
    BY <1>1, HistoryPart DEF OrderInv
  <2>2. SendingSeqOK'
    BY <1>1, SendingPart DEF OrderInv
  <2>3. SizesOK'
    BY <1>1, SizesPart DEF OrderInv
  <2>4. PipeInv
    BY DEF OrderInv, PipeInv
  <2>5. PipeInv'
    BY <1>1, <2>4, PipePart DEF OrderInv
  <2>6. CalmUntilDelivered'
    BY <1>1, CalmPart DEF OrderInv
  <2> QED BY <2>1, <2>2, <2>3, <2>5, <2>6 DEF OrderInv, PipeInv
<1>2. CASE UNCHANGED vars
  BY <1>2, OrderStutter
<1> QED BY <1>1, <1>2

\* The whole strengthening holds in every state: numbers, counters and sizes of
\* the frames (remember, sendCarrier), their order on every connection and in
\* the queue (carrier.go, deliverInbound), the completeness of every carrier's
\* copy, and the calm of a stream that survives its failures.
THEOREM OrderInvariance == Spec => []OrderInv
<1>1. FlowInv /\ [Next]_vars => FlowInv'
  BY NextInv
<1>2. Init => FlowInv
  BY InitInv
<1> QED BY <1>1, <1>2, OrderInit, OrderNext, PTL DEF Spec

\* Both together, which the run flow_faults checks (Flow and its carriers).
THEOREM StreamInvariance == Spec => []StreamInv
<1>1. FlowInv /\ OrderInv => StreamInv
  BY DEF StreamInv
<1> QED BY <1>1, Invariance, OrderInvariance, PTL

\* The reassembler never holds a byte back, and refuses a frame only if it is
\* longer than its whole window (deliverInbound, Reassembler.Push).
THEOREM OrderIsKept == Spec => []NeverOutOfOrder
<1>1. FlowInv /\ OrderInv => NeverOutOfOrder
  BY RefusedTooLong DEF OrderInv
<1> QED BY <1>1, Invariance, OrderInvariance, PTL

\* Every healthy carrier brings all that sendCarrier counted as sent on it, so
\* any one of them could carry the stream alone.
THEOREM CopiesAreComplete == Spec => []CarrierCopyComplete
<1>1. OrderInv => CarrierCopyComplete
  BY DEF OrderInv
<1> QED BY <1>1, OrderInvariance, PTL

\* historyBytes is the payload in the history, at most the window (remember,
\* pruneHistoryLocked).
THEOREM HistoryStaysBounded == Spec => []HistoryBounded
<1>1. OrderInv => HistoryBounded
  BY DEF OrderInv
<1> QED BY <1>1, OrderInvariance, PTL

\* Losing carriers does not end a stream while one is left on both sides: both
\* flows stay open until both directions are delivered (detach, Reset).
THEOREM LossDoesNotInterrupt == Spec => []Uninterrupted
<1>1. OrderInv => Uninterrupted
  BY DEF OrderInv, CalmUntilDelivered, Calm, Uninterrupted
<1> QED BY <1>1, OrderInvariance, PTL

-----------------------------------------------------------------------------
(* The refinement: two flows with their carriers implement the stream of   *)
(* module RelayedStream, for every number of carriers and every size.      *)
(* Each step of FlowPair takes, ends, delivers or finishes the stream, or  *)
(* fails, or leaves it alone.                                              *)

\* The fields of the two flows that the stream of RelayedStream shows.
Shown == <<offset, read, localFIN, nextOffset, finOffset>>

\* The flow of s ends.
EndsNow(s) ==
  /\ closed[s] = "open"
  /\ \E how \in {"nil", "err"} : closed' = [closed EXCEPT ![s] = how]

-----------------------------------------------------------------------------
(* The values the stream shows.                                            *)

LEMMA StreamTypes ==
  ASSUME FlowInv
  PROVE  /\ offset \in [Side -> Nat] /\ read \in [Side -> Nat]
         /\ localFIN \in [Side -> BOOLEAN] /\ nextOffset \in [Side -> Nat]
         /\ finOffset \in [Side -> SUBSET Nat] /\ failures \in Nat
         /\ closed \in [Side -> {"open", "nil", "err"}]
         /\ \A s \in Side : nextOffset[s] <= offset[Peer(s)]
BY DEF FlowInv, TypeOK, TypeFlow, TypeRead, TypeRecv, ReceiverOK

LEMMA StreamNames ==
  /\ Stream!Side = Side
  /\ \A s \in Side : Stream!Peer(s) = Peer(s)
BY DEF Stream!Side, Stream!Peer, Side, Peer

LEMMA FlagSet ==
  ASSUME NEW S, NEW F \in [S -> BOOLEAN], NEW G \in [S -> BOOLEAN], NEW s \in S,
         \A t \in S : G[t] = IF t = s THEN TRUE ELSE F[t]
  PROVE  G = [F EXCEPT ![s] = TRUE]
OBVIOUS

\* The flag of one side is set, the other's stays.
LEMMA FinishedSet ==
  ASSUME NEW s \in Side,
         \A t \in Side : FinReached(t)' = IF t = s THEN TRUE ELSE FinReached(t)
  PROVE  [t \in Side |-> FinReached(t)]' = [[t \in Side |-> FinReached(t)] EXCEPT ![s] = TRUE]
<1>1. [t \in Side |-> FinReached(t)] \in [Side -> BOOLEAN]
  BY DEF FinReached
<1>2. [t \in Side |-> FinReached(t)]' \in [Side -> BOOLEAN]
  BY DEF FinReached
<1>3. PICK F \in [Side -> BOOLEAN] : F = [t \in Side |-> FinReached(t)]
  BY <1>1, Zenon
<1>4. PICK G \in [Side -> BOOLEAN] : G = [t \in Side |-> FinReached(t)]'
  BY <1>2, Zenon
<1>5. \A t \in Side : F[t] = FinReached(t)
  BY <1>3
<1>6. \A t \in Side : G[t] = FinReached(t)'
  BY <1>4
<1>7. \A t \in Side : G[t] = IF t = s THEN TRUE ELSE F[t]
  BY <1>5, <1>6
<1> QED BY <1>3, <1>4, <1>7, FlagSet

\* Everything is delivered exactly if both ends have the whole stream.
LEMMA AllAtEnd ==
  ASSUME FlowInv
  PROVE  AllDelivered => Stream!AllFinished
<1> SUFFICES ASSUME AllDelivered, NEW s \in Side
             PROVE  nextOffset[s] \in finOffset[s]
  BY StreamNames DEF Stream!AllFinished, FinReached
<1>1. Delivered(Peer(s)) /\ Peer(Peer(s)) = s
  BY PeerFacts DEF AllDelivered
<1> QED BY <1>1 DEF Delivered

-----------------------------------------------------------------------------
(* The steps that the stream sees only if they end it.                     *)

LEMMA ClaimEnds ==
  ASSUME FlowInv, NEW s \in Side, NEW outcome \in {"nil", "err"}, NEW cond,
         Claim(s, outcome) \/ ClaimIf(s, cond, outcome)
  PROVE  UNCHANGED closed \/ EndsNow(s)
BY StreamTypes DEF Claim, ClaimIf, EndsNow

LEMMA FlowQuiet ==
  ASSUME FlowInv, NEW s \in Side,
         \/ Start(s) \/ BroadcastReturns(s) \/ BroadcastNoCarriers(s)
         \/ SendAck(s) \/ FinishDelivery(s) \/ FinishReset(s)
  PROVE  UNCHANGED Shown /\ UNCHANGED failures /\ (UNCHANGED closed \/ EndsNow(s))
<1>1. UNCHANGED Shown /\ UNCHANGED failures
  BY DEF Start, BroadcastReturns, BroadcastNoCarriers, SendAck, FinishDelivery,
     FinishReset, readVars, recvVars, Shown
<1>2. CASE Start(s)
  BY <1>1, <1>2, ClaimEnds DEF Start
<1>3. CASE BroadcastReturns(s)
  BY <1>1, <1>3, ClaimEnds DEF BroadcastReturns
<1>4. CASE BroadcastNoCarriers(s)
  <2>1. \E outcome \in {"nil", "err"} : Claim(s, outcome)
    BY <1>4 DEF BroadcastNoCarriers, NoCarriersOutcome
  <2> QED BY <1>1, <2>1, ClaimEnds
<1>5. CASE FinishDelivery(s)
  <2>1. \E outcome \in {"nil", "err"} : \E cond : ClaimIf(s, cond, outcome)
    BY <1>5 DEF FinishDelivery
  <2> QED BY <1>1, <2>1, ClaimEnds
<1>6. CASE SendAck(s) \/ FinishReset(s)
  BY <1>1, <1>6 DEF SendAck, FinishReset, flowVars
<1> QED BY <1>2, <1>3, <1>4, <1>5, <1>6

LEMMA CarrierQuiet ==
  ASSUME FlowInv, NEW s \in Side, NEW c \in Carrier,
         \/ Attach(s, c) \/ AttachRejected(s, c)
         \/ PickFrame(s, c) \/ WriteFrame(s, c) \/ CommitFrame(s, c) \/ WriteAck(s, c)
         \/ ReceiveAck(s, c) \/ EnqueueInbound(s, c) \/ ReceiveRST(s, c)
         \/ StopAtEOF(s, c) \/ StopAtWriteError(s, c) \/ Detach(s, c)
  PROVE  UNCHANGED Shown /\ UNCHANGED failures /\ (UNCHANGED closed \/ EndsNow(s))
<1>1. UNCHANGED Shown /\ UNCHANGED failures
  BY DEF Attach, AttachRejected, PickFrame, WriteFrame, CommitFrame, WriteAck,
     ReceiveAck, EnqueueInbound, ReceiveRST, StopAtEOF, StopAtWriteError, StopCarrier,
     Detach, readVars, recvVars, Shown
<1>2. \A a, D : ApplyAck(s, a, D) => UNCHANGED closed \/ EndsNow(s)
  BY ClaimEnds DEF ApplyAck
<1>3. CASE CommitFrame(s, c)
  <2>1. \A w, v : ApplyDeferred(s, w, v) => UNCHANGED closed \/ EndsNow(s)
    BY <1>2 DEF ApplyDeferred
  <2> QED BY <1>1, <1>3, <2>1 DEF CommitFrame
<1>4. CASE WriteAck(s, c)
  BY <1>1, <1>4, ClaimEnds DEF WriteAck
<1>5. CASE ReceiveAck(s, c)
  BY <1>1, <1>2, <1>5 DEF ReceiveAck, Acknowledge
<1>6. CASE ReceiveRST(s, c)
  BY <1>1, <1>6, ClaimEnds DEF ReceiveRST
<1>7. CASE Detach(s, c)
  <2>1. \E outcome \in {"nil", "err"} : \E cond : ClaimIf(s, cond, outcome)
    BY <1>7 DEF Detach, NoCarriersOutcome
  <2> QED BY <1>1, <2>1, ClaimEnds
<1>8. CASE \/ Attach(s, c) \/ AttachRejected(s, c) \/ PickFrame(s, c) \/ WriteFrame(s, c)
           \/ EnqueueInbound(s, c) \/ StopAtEOF(s, c) \/ StopAtWriteError(s, c)
  BY <1>1, <1>8 DEF Attach, AttachRejected, PickFrame, WriteFrame, EnqueueInbound,
     StopAtEOF, StopAtWriteError, StopCarrier, flowVars
<1> QED BY SMTT(30), <1>3, <1>4, <1>5, <1>6, <1>7, <1>8
-----------------------------------------------------------------------------
(* How a flow may end.                                                     *)

\* The claims of completeLocked come after both directions were delivered.
LEMMA NilAllowed ==
  ASSUME FlowInv, FlowInv', UNCHANGED Shown, NEW s \in Side,
         closed[s] = "open", closed'[s] = "nil"
  PROVE  Stream!MayEnd(s, "nil")
<1>1. AllDelivered'
  BY NilDelivered
<1>2. AllDelivered
  BY <1>1 DEF AllDelivered, Delivered, Shown
<1> QED BY <1>2, AllAtEnd DEF Stream!MayEnd

\* An error needs a failure, or comes after both directions were delivered.
LEMMA ErrAllowed ==
  ASSUME FlowInv, OrderInv, FramesFit, Next, failures' = failures, NEW s \in Side,
         closed[s] = "open", closed'[s] = "err"
  PROVE  Stream!MayEnd(s, "err")
<1>1. CASE failures > 0
  BY <1>1 DEF Stream!MayEnd
<1>2. CASE AllDelivered
  BY <1>2, AllAtEnd DEF Stream!MayEnd
<1>3. CASE failures = 0 /\ ~AllDelivered
  <2>1. Calm
    BY <1>3 DEF OrderInv, CalmUntilDelivered
  <2>2. ~Injected
    BY DEF Injected
  <2> QED BY <2>1, <2>2, CalmNoErr DEF OrderInv
<1> QED BY <1>1, <1>2, <1>3, StreamTypes

\* A step that shows only the end of a flow is an end of the stream there.
LEMMA QuietStream ==
  ASSUME FlowInv, FlowInv', OrderInv, FramesFit, Next, NEW s \in Side,
         UNCHANGED Shown, UNCHANGED failures, UNCHANGED closed \/ EndsNow(s)
  PROVE  [Stream!Next]_(Stream!streamVars)
<1>1. CASE UNCHANGED closed
  BY <1>1 DEF Shown, Stream!streamVars, FinReached
<1>2. CASE EndsNow(s)
  <2>1. PICK how \in {"nil", "err"} : closed' = [closed EXCEPT ![s] = how]
    BY <1>2 DEF EndsNow
  <2>2. closed[s] = "open" /\ closed'[s] = how
    BY <1>2, <2>1, StreamTypes DEF EndsNow
  <2>3. Stream!MayEnd(s, how)
    BY <2>2, NilAllowed, ErrAllowed
  <2>4. Stream!Finish(s)
    BY <2>1, <2>3 DEF Stream!Finish, Shown, FinReached
  <2> QED BY <2>4, StreamNames DEF Stream!Next
<1> QED BY <1>1, <1>2

\* Break, CloseCarrier and ResetFlow are failures of the stream.
LEMMA FailureStream ==
  ASSUME FlowInv, UNCHANGED Shown, failures' = failures + 1,
         UNCHANGED closed \/ \E s \in Side : EndsNow(s) /\ closed'[s] = "err"
  PROVE  Stream!Next
<1>1. failures' > 0
  BY StreamTypes
<1>2. \/ UNCHANGED closed
      \/ \E s \in Side : closed[s] = "open" /\ closed' = [closed EXCEPT ![s] = "err"]
  BY StreamTypes DEF EndsNow
<1>3. Stream!Fail
  BY <1>1, <1>2, StreamNames DEF Stream!Fail, Shown, FinReached
<1> QED BY <1>3 DEF Stream!Next

LEMMA FailureSteps ==
  ASSUME FlowInv,
         \/ \E c \in Carrier : Break(c) \/ CloseCarrier(c)
         \/ \E s \in Side : ResetFlow(s)
  PROVE  Stream!Next
<1>1. CASE \E c \in Carrier : Break(c) \/ CloseCarrier(c)
  <2>1. UNCHANGED Shown /\ failures' = failures + 1 /\ UNCHANGED closed
    BY <1>1 DEF Break, CloseCarrier, StopCarrier, readVars, recvVars, flowVars, Shown
  <2> QED BY <2>1, FailureStream
<1>2. CASE \E s \in Side : ResetFlow(s)
  <2>1. PICK s \in Side : ResetFlow(s)
    BY <1>2
  <2>2. UNCHANGED Shown /\ failures' = failures + 1 /\ closed[s] = "open"
    BY <2>1 DEF ResetFlow, readVars, recvVars, Shown
  <2>3. closed' = [closed EXCEPT ![s] = "err"]
    BY <2>1 DEF ResetFlow, Claim
  <2> QED BY <2>2, <2>3, FailureStream, StreamTypes DEF EndsNow
<1> QED BY <1>1, <1>2

-----------------------------------------------------------------------------
(* Reading and delivering.                                                 *)

LEMMA ReadDataStream ==
  ASSUME FlowInv, NEW s \in Side, ReadData(s)
  PROVE  Stream!Next
<1>1. PICK n \in 1 .. ChunkSize :
        offset[s] + n <= Total[s] /\ read' = [read EXCEPT ![s] = n]
  BY DEF ReadData
<1>2. closed[s] = "open" /\ read[s] = 0
  BY DEF ReadData, Reading
<1>3. n \in Nat \ {0} /\ Total[s] \in Nat /\ offset[s] \in Nat
  BY StreamTypes, ConstantsAssumption
<1>4. ~localFIN[s]
  BY <1>1, <1>3, EndIsEnd
<1>5. [t \in Side |-> offset'[t] + read'[t]]
        = [[t \in Side |-> offset[t] + read[t]] EXCEPT ![s] = @ + n]
  <2>1. UNCHANGED offset
    BY DEF ReadData
  <2>2. \A t \in Side : offset[t] \in Nat /\ read[t] \in Nat
    BY StreamTypes
  <2>3. offset[s] + n = (offset[s] + read[s]) + n
    BY <1>2, <1>3
  <2>4. \A t \in Side : offset'[t] + read'[t]
           = IF t = s THEN (offset[s] + read[s]) + n ELSE offset[t] + read[t]
    BY <1>1, <2>1, <2>3, StreamTypes
  <2> QED BY <2>4
<1>6. UNCHANGED <<localFIN, nextOffset, finOffset, closed, failures>>
  BY DEF ReadData, recvVars, flowVars
<1>7. Stream!Take(s)
  BY <1>2, <1>4, <1>5, <1>6 DEF Stream!Take, FinReached
<1> QED BY <1>7, StreamNames DEF Stream!Next

LEMMA RememberDataStream ==
  ASSUME FlowInv, NEW s \in Side, RememberData(s)
  PROVE  UNCHANGED Stream!streamVars
<1>1. /\ offset' = [offset EXCEPT ![s] = @ + read[s]] /\ read' = [read EXCEPT ![s] = 0]
      /\ UNCHANGED <<localFIN, nextOffset, finOffset, closed, failures>>
  BY DEF RememberData, recvVars, flowVars
<1>2. \A t \in Side : offset[t] \in Nat /\ read[t] \in Nat
  BY StreamTypes
<1>3. \A t \in Side : offset'[t] + read'[t] = offset[t] + read[t]
  BY <1>1, <1>2, StreamTypes
<1> QED BY <1>1, <1>3 DEF Stream!streamVars, FinReached

LEMMA ReadEOFStream ==
  ASSUME FlowInv, NEW s \in Side, ReadEOF(s)
  PROVE  Stream!Next
<1>1. /\ closed[s] = "open" /\ ~localFIN[s] /\ localFIN' = [localFIN EXCEPT ![s] = TRUE]
      /\ UNCHANGED <<offset, read, nextOffset, finOffset, closed, failures>>
  BY DEF ReadEOF, Reading, AtEOF, recvVars, flowVars
<1>2. Stream!End(s)
  BY <1>1 DEF Stream!End, FinReached
<1> QED BY <1>2, StreamNames DEF Stream!Next

\* remember without carriers: an error, and perhaps the end of the endpoint.
LEMMA ReadNoCarriersStream ==
  ASSUME FlowInv, FlowInv', OrderInv, FramesFit, Next, NEW s \in Side, ReadNoCarriers(s)
  PROVE  [Stream!Next]_(Stream!streamVars)
<1>1. /\ closed[s] = "open" /\ closed' = [closed EXCEPT ![s] = "err"]
      /\ localFIN' = [localFIN EXCEPT ![s] = @ \/ AtEOF(s)]
      /\ UNCHANGED <<offset, read, nextOffset, finOffset, failures>>
  BY DEF ReadNoCarriers, Reading, Claim, recvVars
<1>2. closed'[s] = "err"
  BY <1>1, StreamTypes
<1>3. Stream!MayEnd(s, "err")
  BY <1>1, <1>2, ErrAllowed
<1>4. CASE AtEOF(s)
  <2>1. ~localFIN[s] /\ localFIN' = [localFIN EXCEPT ![s] = TRUE]
    BY <1>1, <1>4 DEF AtEOF
  <2>2. Stream!End(s)
    BY <1>1, <1>3, <2>1 DEF Stream!End, FinReached
  <2> QED BY <2>2, StreamNames DEF Stream!Next
<1>5. CASE ~AtEOF(s)
  <2>1. UNCHANGED localFIN
    BY <1>1, <1>5, StreamTypes
  <2>2. EndsNow(s) /\ UNCHANGED Shown
    BY <1>1, <2>1 DEF EndsNow, Shown
  <2> QED BY <1>1, <2>2, QuietStream
<1> QED BY <1>4, <1>5

\* Deliver moves the next bytes, and perhaps the end, to the endpoint.
LEMMA DeliverStream ==
  ASSUME FlowInv, FlowInv', OrderInv, FramesFit, NEW s \in Side, Deliver(s)
  PROVE  Stream!Next
<1>1. closed[s] = "open" /\ inbound[s] # <<>>
  BY DEF Deliver
<1>2. ~Refused(s, Head(inbound[s]).frame)
  BY <1>1, CalmAccepts DEF OrderInv
<1>3. UNCHANGED <<offset, read, localFIN, closed, failures>>
  BY <1>2 DEF Deliver, readVars
<1>4. PICK f \in Frame, src \in Carrier :
        /\ f = Head(inbound[s]).frame /\ src = Head(inbound[s]).src
        /\ StreamFrameOK(Peer(s), f)
  BY HeadInbound DEF Deliver
<1>5. Accept(s, src, f)
  BY <1>2, <1>4 DEF Deliver
<1>6. PICK m \in Nat, fin \in SUBSET Nat, acks \in SUBSET Frame, K \in SUBSET Nat :
        /\ nextOffset[s] <= m /\ m <= offset[Peer(s)]
        /\ \A b \in K : b < offset[Peer(s)]
        /\ \A o \in fin : localFIN[Peer(s)] /\ o = offset[Peer(s)]
        /\ FinReached(s) => m \in fin
        /\ acks \subseteq latestAck[s] \cup {AckFrame(m, m \in fin)}
        /\ nextOffset' = [nextOffset EXCEPT ![s] = m]
        /\ held' = [held EXCEPT ![s] = K]
        /\ finOffset' = [finOffset EXCEPT ![s] = fin]
        /\ latestAck' = [latestAck EXCEPT ![s] = acks]
        /\ delivering' = [delivering EXCEPT ![s] =
             {[pc |-> "ack", src |-> src, acks |-> acks,
               carriers |-> Attached(s), finished |-> m \in fin]}]
  BY <1>3, <1>4, <1>5, AcceptFacts, Zenon
<1>7. /\ offset[Peer(s)] \in Nat /\ read[Peer(s)] \in Nat /\ nextOffset[s] \in Nat
      /\ localFIN[Peer(s)] => read[Peer(s)] = 0
  BY StreamTypes, EndIsEnd, PeerFacts
<1>8. m \in nextOffset[s] .. (offset[Peer(s)] + read[Peer(s)])
  BY <1>6, <1>7
<1>9. \A t \in Side : FinReached(t)' <=> IF t = s THEN m \in fin ELSE FinReached(t)
  BY <1>6, StreamTypes DEF FinReached
<1>10. \/ [t \in Side |-> FinReached(t)]' = [t \in Side |-> FinReached(t)]
       \/ /\ localFIN[Peer(s)] /\ m = offset[Peer(s)] + read[Peer(s)]
          /\ [t \in Side |-> FinReached(t)]'
               = [[t \in Side |-> FinReached(t)] EXCEPT ![s] = TRUE]
  <2>1. CASE FinReached(s) \/ m \notin fin
    <3>1. \A t \in Side : FinReached(t)' = FinReached(t)
      BY <1>6, <1>9, <2>1 DEF FinReached
    <3> QED BY <3>1 DEF FinReached
  <2>2. CASE m \in fin /\ ~FinReached(s)
    <3>1. localFIN[Peer(s)] /\ m = offset[Peer(s)] + read[Peer(s)]
      BY <1>6, <1>7, <2>2
    <3>2. \A t \in Side : FinReached(t)' <=> IF t = s THEN TRUE ELSE FinReached(t)
      BY <1>9, <2>2
    <3>3. ASSUME NEW t \in Side
          PROVE  FinReached(t)' = IF t = s THEN TRUE ELSE FinReached(t)
      <4>1. CASE t = s
        BY <3>2, <4>1 DEF FinReached
      <4>2. CASE t # s
        <5>1. FinReached(t)' = FinReached(t)
          BY <3>2, <4>2 DEF FinReached
        <5> QED BY <4>2, <5>1
      <4> QED BY <4>1, <4>2
    <3> QED BY <3>1, <3>3, FinishedSet
  <2> QED BY <2>1, <2>2
<1>11. [t \in Side |-> offset[t] + read[t]][Peer(s)] = offset[Peer(s)] + read[Peer(s)]
  BY PeerFacts
<1>12. Stream!Deliver(s)
  BY <1>1, <1>3, <1>6, <1>8, <1>10, <1>11, StreamNames DEF Stream!Deliver
<1> QED BY <1>12, StreamNames DEF Stream!Next

-----------------------------------------------------------------------------
(* Every step is one of the stream, or invisible.                          *)

LEMMA StreamInit == Init => Stream!Init
<1> SUFFICES ASSUME Init PROVE Stream!Init
  OBVIOUS
<1>1. /\ offset = [s \in Side |-> 0] /\ read = [s \in Side |-> 0]
      /\ nextOffset = [s \in Side |-> 0] /\ finOffset = [s \in Side |-> {}]
      /\ localFIN = [s \in Side |-> FALSE] /\ closed = [s \in Side |-> "open"]
      /\ failures = 0
  BY DEF Init
<1>2. [s \in Side |-> FinReached(s)] = [s \in Side |-> FALSE]
  <2>1. \A s \in Side : FinReached(s) = FALSE
    BY <1>1 DEF FinReached
  <2> QED BY <2>1 DEF FinReached
<1>3. [s \in Side |-> offset[s] + read[s]] = [s \in Side |-> 0]
  BY <1>1
<1>4. (failures > 0) = FALSE
  BY <1>1
<1> QED BY <1>1, <1>2, <1>3, <1>4, StreamNames, Zenon DEF Stream!Init

LEMMA StreamStep ==
  ASSUME FramesFit
  PROVE  FlowInv /\ FlowInv' /\ OrderInv /\ [Next]_vars => [Stream!Next]_(Stream!streamVars)
<1> SUFFICES ASSUME FlowInv, FlowInv', OrderInv, [Next]_vars
             PROVE  [Stream!Next]_(Stream!streamVars)
  OBVIOUS
<1>1. CASE UNCHANGED vars
  BY <1>1 DEF vars, flowVars, readVars, recvVars, Stream!streamVars, FinReached
<1>2. CASE Next
  <2>1. \A s \in Side :
          \/ Start(s) \/ BroadcastReturns(s) \/ BroadcastNoCarriers(s)
          \/ SendAck(s) \/ FinishDelivery(s) \/ FinishReset(s)
          => [Stream!Next]_(Stream!streamVars)
    BY <1>2, FlowQuiet, QuietStream
  <2>2. \A s \in Side :
          ReadData(s) \/ RememberData(s) \/ ReadEOF(s) \/ ReadNoCarriers(s) \/ Deliver(s)
          => [Stream!Next]_(Stream!streamVars)
    BY <1>2, ReadDataStream, RememberDataStream, ReadEOFStream, ReadNoCarriersStream,
       DeliverStream
  <2>3. \A s \in Side, c \in Carrier :
          \/ Attach(s, c) \/ AttachRejected(s, c)
          \/ PickFrame(s, c) \/ WriteFrame(s, c) \/ CommitFrame(s, c) \/ WriteAck(s, c)
          \/ ReceiveAck(s, c) \/ EnqueueInbound(s, c) \/ ReceiveRST(s, c)
          \/ StopAtEOF(s, c) \/ StopAtWriteError(s, c) \/ Detach(s, c)
          => [Stream!Next]_(Stream!streamVars)
    BY <1>2, CarrierQuiet, QuietStream
  <2>4. \A c \in Carrier : AcceptOpen(c) \/ RefuseOpen(c)
          => [Stream!Next]_(Stream!streamVars)
    BY DEF AcceptOpen, RefuseOpen, flowVars, readVars, recvVars, Stream!streamVars,
       FinReached
  <2>5. \/ \E c \in Carrier : Break(c) \/ CloseCarrier(c)
        \/ \E s \in Side : ResetFlow(s)
        => [Stream!Next]_(Stream!streamVars)
    BY FailureSteps
  <2> QED BY <1>2, <2>1, <2>2, <2>3, <2>4, <2>5, NextCases
<1> QED BY <1>1, <1>2

\* The two flows implement the stream they promise: bytes arrive once and in
\* order, a graceful end has delivered both directions, and without a failure
\* there is no other end (stream.go, carrier.go), wherever each side's reorder
\* window takes the frames that the other can send.
THEOREM StreamImplemented == FramesFit => (Spec => ImplementsStream)
<1> SUFFICES ASSUME FramesFit PROVE Spec => ImplementsStream
  OBVIOUS
<1>1. Init => Stream!Init
  BY StreamInit
<1>2. FlowInv /\ FlowInv' /\ OrderInv /\ [Next]_vars => [Stream!Next]_(Stream!streamVars)
  BY StreamStep
<1> QED BY <1>1, <1>2, Invariance, OrderInvariance, PTL DEF Spec, ImplementsStream, Stream!Spec
=============================================================================
