----------------------------- MODULE ByteBuffer -----------------------------
(***************************************************************************)
(* What the reassembler of a stream promises, without segments: it keeps   *)
(* the bytes it accepted ahead of the next offset as a map from offsets to *)
(* bytes, keeps the first copy of a byte, refuses what contradicts it, and *)
(* hands out exactly the contiguous bytes from the next offset on.         *)
(***************************************************************************)
EXTENDS Integers, Sequences, FiniteSets

CONSTANTS
  Byte,         \* the values a byte may have
  MaxOffset,    \* the largest offset (2^64 - 1 in the code)
  Window,       \* how far ahead of the next offset bytes are accepted
  MaxSegments,  \* how many separate runs of bytes may be kept
  MaxPayload    \* bound: the longest payload pushed

Offset == 0 .. MaxOffset
Payload == UNION {[1 .. n -> Byte] : n \in 0 .. MaxPayload}

VARIABLES
  next,     \* the next offset to hand out
  content,  \* the bytes kept: a function on the offsets kept
  fin,      \* the offset of the end of the stream, if known
  wrote,    \* the bytes handed out by the last operation
  result    \* the answer of the last operation

bufferVars == <<next, content, fin, wrote, result>>

Init ==
  /\ next = 0 /\ content = <<>> /\ fin = {} /\ wrote = <<>> /\ result = "ok"

\* What payload p at offset o adds: the bytes not handed out yet.
Fresh(o, p) == {b \in o .. (o + Len(p) - 1) : b >= next}

\* The separate runs of a set of offsets, by their first members.
Runs(S) == {b \in S : b - 1 \notin S}

PushAnswer(o, p) ==
  IF p = <<>> \/ o + Len(p) > MaxOffset THEN "invalid"
  ELSE IF o + Len(p) <= next THEN "ok"
  ELSE IF \E e \in fin : o + Len(p) > e THEN "fin"
  ELSE IF o + Len(p) - next > Window THEN "window"
  ELSE IF \E b \in Fresh(o, p) \cap DOMAIN content :
            content[b] # p[b - o + 1] THEN "overlap"
  ELSE IF Cardinality(Runs(Fresh(o, p) \cup DOMAIN content)) > MaxSegments
    THEN "segments" ELSE "ok"

Push(o, p) ==
  /\ result' = PushAnswer(o, p)
  /\ content' = IF PushAnswer(o, p) \in {"ok", "segments"}
                  THEN [b \in Fresh(o, p) \cup DOMAIN content |->
                          IF b \in DOMAIN content THEN content[b]
                                                  ELSE p[b - o + 1]]
                  ELSE content
  /\ wrote' = <<>>
  /\ UNCHANGED <<next, fin>>

SetFIN(o) ==
  /\ result' = IF \/ o < next \/ \E b \in DOMAIN content : b >= o
                  \/ \E e \in fin : e # o
                 THEN "fin" ELSE "ok"
  /\ fin' = IF result' = "ok" THEN {o} ELSE fin
  /\ wrote' = <<>>
  /\ UNCHANGED <<next, content>>

\* Hand out n bytes; the answer is "error" if the writer failed, otherwise n
\* is all there is and the answer says whether the stream is finished.
Drain(n) ==
  /\ (next .. (next + n - 1)) \subseteq DOMAIN content
  /\ wrote' = [i \in 1 .. n |-> content[next + i - 1]]
  /\ next' = next + n
  /\ content' = [b \in {c \in DOMAIN content : c >= next + n} |-> content[b]]
  /\ result' \in {"error"} \cup
       IF next + n \in DOMAIN content THEN {}
       ELSE {IF next + n \in fin THEN "finished" ELSE "ok"}
  /\ UNCHANGED fin

Next ==
  \/ \E o \in Offset, p \in Payload : Push(o, p)
  \/ \E o \in Offset : SetFIN(o)
  \/ \E n \in 0 .. Window : Drain(n)

Spec == Init /\ [][Next]_bufferVars
=============================================================================
