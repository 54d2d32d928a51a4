---------------------------- MODULE Reassembler ----------------------------
(***************************************************************************)
(* The Reassembler of internal/tcpstream/reassembler.go: a sorted list of  *)
(* disjoint segments, merged after every push, drained to the endpoint.    *)
(* Its mutex makes every operation one step.  Offsets are 0 .. MaxOffset   *)
(* in place of uint64.  An operation may follow one that failed, which is  *)
(* more than Flow does: Flow resets the stream at the first error.         *)
(***************************************************************************)
EXTENDS Integers, Sequences, FiniteSets, Functions

CONSTANTS Byte, MaxOffset, Window, MaxSegments, MaxPayload

ASSUME ReassemblerAssumption ==
  /\ Byte # {} /\ MaxOffset \in Nat \ {0} /\ Window \in Nat \ {0}
  /\ MaxSegments \in Nat \ {0} /\ MaxPayload \in Nat \ {0}

Offset == 0 .. MaxOffset
Payload == UNION {[1 .. n -> Byte] : n \in 0 .. MaxPayload}

VARIABLES
  nextOffset,  \* the next offset to write to the endpoint
  buffered,    \* bytes in segments
  finOffset,   \* the offset of the FIN, if known
  segments,    \* the segments, a sequence
  wrote,       \* the bytes the last DrainTo wrote
  result       \* the error of the last operation, or "ok" or "finished"

vars == <<nextOffset, buffered, finOffset, segments, wrote, result>>

\* A segment is the bytes from offset up to, without, end, at least one.  Its
\* data maps the offset of a byte in the stream to the byte.
Segment ==
  UNION {[offset : {ends[1]}, end : {ends[2]}, data : [ends[1] .. ends[2] - 1 -> Byte]] :
           ends \in {pair \in Offset \X Offset : pair[1] < pair[2]}}

\* Segment seg has the byte at offset b.
Covers(seg, b) == seg.offset <= b /\ b < seg.end

\* The part of payload p, pushed at offset o, that covers from .. to - 1.
Piece(o, p, from, to) ==
  [offset |-> from, end |-> to, data |-> [b \in from .. to - 1 |-> p[b - o + 1]]]

\* addSegment with the payload from the cursor up to to, if there is any.
AddSegment(state, o, p, to) ==
  IF state.cursor >= to THEN state
  ELSE [cursor |-> state.cursor,
        pieces |-> Append(state.pieces, Piece(o, p, state.cursor, to)),
        bytes |-> state.bytes + to - state.cursor]

\* The second loop of push passes segment seg: the payload up to seg fills a
\* gap, and the cursor goes on behind it.
Pass(state, o, p, seg) ==
  IF seg.end <= state.cursor \/ seg.offset >= o + Len(p) THEN state
  ELSE [AddSegment(state, o, p, seg.offset) EXCEPT !.cursor = seg.end]

\* The loop from offset first on, after each number of segments: the cursor,
\* the pieces added and their bytes.
Passes(o, p, first) ==
  LET state[i \in 0 .. Len(segments)] ==
        IF i = 0 THEN [cursor |-> first, pieces |-> <<>>, bytes |-> 0]
        ELSE Pass(state[i - 1], o, p, segments[i])
  IN state

\* ... and what follows the loop: the payload behind the last segment.
Filled(o, p, first) ==
  AddSegment(Passes(o, p, first)[Len(segments)], o, p, o + Len(p))

Joined(a, b) ==
  [offset |-> a.offset, end |-> b.end,
   data |-> [x \in a.offset .. b.end - 1 |-> IF x < a.end THEN a.data[x] ELSE b.data[x]]]

\* Mutant of Join: neighbours are not joined.
JoinNever(merged, seg) == [merged EXCEPT !.segs = Append(@, seg)]

\* The loop of mergeSegments takes seg: join it to the last segment, or append
\* it.  panics is set where the code panics on overlapping segments.
Join(merged, seg) ==
  LET n == Len(merged.segs)
      last == merged.segs[n]
  IN IF n = 0 THEN [segs |-> <<seg>>, panics |-> FALSE]
     ELSE IF last.end = seg.offset
       THEN [segs |-> [merged.segs EXCEPT ![n] = Joined(last, seg)], panics |-> merged.panics]
     ELSE [segs |-> Append(merged.segs, seg),
           panics |-> merged.panics \/ last.end > seg.offset]

Joins(sorted) ==
  LET merged[i \in 0 .. Len(sorted)] ==
        IF i = 0 THEN [segs |-> <<>>, panics |-> FALSE]
        ELSE Join(merged[i - 1], sorted[i])
  IN merged

\* mergeSegments: what its sort may return, and the merged segments.
Sortings(segs) ==
  {sorted \in {[i \in 1 .. Len(segs) |-> segs[order[i]]] :
                 order \in Bijection(1 .. Len(segs), 1 .. Len(segs))} :
     \A i \in 2 .. Len(segs) : sorted[i - 1].offset <= sorted[i].offset}
Merge(sorted) == Joins(sorted)[Len(sorted)]

\* Mutant of Conflicts: only segments that start inside the payload count.
ConflictsInside(o, p, first) ==
  \E i \in 1 .. Len(segments), b \in first .. o + Len(p) - 1 :
    /\ first <= segments[i].offset
    /\ Covers(segments[i], b) /\ p[b - o + 1] # segments[i].data[b]

\* The first loop of push: some byte differs from the one already kept.
Conflicts(o, p, first) ==
  \E i \in 1 .. Len(segments), b \in first .. o + Len(p) - 1 :
    Covers(segments[i], b) /\ p[b - o + 1] # segments[i].data[b]

\* push after its early returns and the first loop; the payload counts from
\* offset first on.
Insert(o, p, first) ==
  LET filled == Filled(o, p, first)
      total  == buffered + filled.bytes
  IN \E sorted \in Sortings(segments \o filled.pieces) :
       LET merged == Merge(sorted)
       IN /\ segments' = merged.segs
          /\ buffered' = total
          /\ result' = IF merged.panics THEN "panic"
                       ELSE IF Len(merged.segs) > MaxSegments THEN "segments"
                       ELSE IF total > Window THEN "window" ELSE "ok"

Refuse(answer) ==
  result' = answer /\ UNCHANGED <<segments, buffered>>

Push(o, p) ==
  LET end == o + Len(p)
      first == IF o < nextOffset THEN nextOffset ELSE o
      beyond == \E f \in finOffset : end > f
  IN /\ \/ (p = <<>> \/ o > MaxOffset - Len(p)) /\ Refuse("invalid")
        \/ /\ p # <<>> /\ o <= MaxOffset - Len(p)
           /\ \/ end <= nextOffset /\ Refuse("ok")
              \/ end > nextOffset /\ beyond /\ Refuse("fin")
              \/ /\ end > nextOffset /\ ~beyond
                 /\ \/ end - nextOffset > Window /\ Refuse("window")
                    \/ /\ end - nextOffset <= Window
                       /\ IF Conflicts(o, p, first) THEN Refuse("overlap")
                          ELSE Insert(o, p, first)
     /\ wrote' = <<>>
     /\ UNCHANGED <<nextOffset, finOffset>>

SetFIN(o) ==
  LET bad == \/ o < nextOffset
             \/ \E i \in 1 .. Len(segments) : segments[i].end > o
             \/ \E f \in finOffset : f # o
  IN /\ result' = IF bad THEN "fin" ELSE "ok"
     /\ finOffset' = IF bad THEN finOffset ELSE {o}
     /\ wrote' = <<>>
     /\ UNCHANGED <<nextOffset, buffered, segments>>

\* The first k segments follow the next offset and each other without a gap.
Contiguous(k) ==
  \A i \in 1 .. k : segments[i].offset =
                      IF i = 1 THEN nextOffset ELSE segments[i - 1].end

\* The byte at offset b, in the first of the segments that has it.
ByteAt(b) ==
  segments[CHOOSE i \in 1 .. Len(segments) :
             /\ Covers(segments[i], b)
             /\ \A j \in 1 .. i - 1 : ~Covers(segments[j], b)].data[b]

\* Mutant of Drained: what was written is not removed from the segments.
DrainedKept(stop, left) ==
  /\ wrote' = [i \in 1 .. stop - nextOffset |-> ByteAt(nextOffset + i - 1)]
  /\ nextOffset' = stop
  /\ UNCHANGED <<segments, buffered, finOffset>>

\* DrainTo wrote everything below offset stop, and left is what remains.
Drained(stop, left) ==
  /\ wrote' = [i \in 1 .. stop - nextOffset |-> ByteAt(nextOffset + i - 1)]
  /\ nextOffset' = stop
  /\ buffered' = buffered - (stop - nextOffset)
  /\ segments' = left
  /\ UNCHANGED finOffset

\* DrainTo when every Write succeeds.
DrainTo ==
  \E k \in 0 .. Len(segments) :
    LET stop == IF k = 0 THEN nextOffset ELSE segments[k].end
    IN /\ Contiguous(k) /\ (k < Len(segments) => ~Contiguous(k + 1))
       /\ Drained(stop, SubSeq(segments, k + 1, Len(segments)))
       /\ result' = IF stop \in finOffset THEN "finished" ELSE "ok"

\* DrainTo when a Write of segment k fails after some of its bytes (a net.Conn
\* reports an error only for a short write): the rest of the segment stays.
DrainFails ==
  \E k \in 1 .. Len(segments) : \E stop \in segments[k].offset .. segments[k].end - 1 :
    LET end  == segments[k].end
        rest == [offset |-> stop, end |-> end,
                 data |-> [b \in stop .. end - 1 |-> segments[k].data[b]]]
    IN /\ Contiguous(k)
       /\ Drained(stop, <<rest>> \o SubSeq(segments, k + 1, Len(segments)))
       /\ result' = "error"

Init ==
  /\ nextOffset = 0 /\ buffered = 0 /\ finOffset = {} /\ segments = <<>>
  /\ wrote = <<>> /\ result = "ok"

Next ==
  \/ \E o \in Offset, p \in Payload : Push(o, p)
  \/ \E o \in Offset : SetFIN(o)
  \/ DrainTo
  \/ DrainFails

Spec == Init /\ [][Next]_vars

-----------------------------------------------------------------------------
(* Properties.                                                             *)

\* Every field of the reassembler has its type, and no segment is empty:
\* addSegment skips an empty piece and DrainTo drops a segment it wrote.
TypeOK ==
  /\ nextOffset \in Offset /\ buffered \in Nat /\ finOffset \in SUBSET Offset
  /\ segments \in Seq(Segment) /\ wrote \in Seq(Byte)

\* mergeSegments leaves the segments sorted, disjoint and never adjacent, and
\* at or after the next offset, so its panic is never reached and DrainTo
\* finds everything contiguous in the first one.
SegmentsApart ==
  /\ TypeOK /\ result # "panic"
  /\ \A i \in 1 .. Len(segments) : segments[i].offset >= nextOffset
  /\ \A i \in 1 .. Len(segments), j \in 1 .. Len(segments) :
       i < j => segments[i].end < segments[j].offset

\* The offsets of the kept bytes.
Kept == {b \in Offset : \E i \in 1 .. Len(segments) : Covers(segments[i], b)}

\* The counter agrees with the segments, and the check of the window before
\* the insertion already bounds it: push never fails on the one after it.
WindowRespected ==
  /\ buffered = Cardinality(Kept)
  /\ \A i \in 1 .. Len(segments) : segments[i].end - nextOffset <= Window

\* The type invariant, the order of the segments and the account of them.
SegmentsInv == SegmentsApart /\ WindowRespected

Buffer == INSTANCE ByteBuffer WITH
  next <- nextOffset, fin <- finOffset, content <- [b \in Kept |-> ByteAt(b)]

\* Trimming, gap filling, merging and partial writes implement the map of
\* bytes: what is kept, what is written and the next offset change as there.
ImplementsBuffer == Buffer!Spec

\* Call by call: the same payload at the same offset, and the same FIN, get
\* the answer the map of bytes gives and have the effect they have there.
SameAnswers ==
  [][/\ \A o \in Offset, p \in Payload : Push(o, p) => Buffer!Push(o, p)
     /\ \A o \in Offset : SetFIN(o) => Buffer!SetFIN(o)]_vars
=============================================================================
