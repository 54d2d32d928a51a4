------------------------- MODULE ReassemblerProofs -------------------------
(***************************************************************************)
(* Proofs about Reassembler.  SegmentsInv is inductive: the loop of push   *)
(* that fills the gaps, the sort, and the loop of mergeSegments each have  *)
(* an invariant of their own.  With it every call answers and changes the  *)
(* kept bytes as the map of bytes of ByteBuffer does.                      *)
(***************************************************************************)
EXTENDS Reassembler, FiniteSetTheorems, SequenceTheorems, WellFoundedInduction, TLAPS

(* Loops: functions defined by recursion over the numbers 0 .. n.          *)

\* A set with 0 and every successor of its numbers has every number.
LEMMA EveryNumber ==
  ASSUME NEW T, 0 \in T, \A n \in Nat : n \in T => n + 1 \in T
  PROVE  Nat \subseteq T
<1> SUFFICES ASSUME Nat \ T # {} PROVE FALSE
  OBVIOUS
<1> DEFINE Below == {0 .. x : x \in Nat \ T}
<1>1. Below \subseteq FiniteSubsetsOf(Nat) /\ Below # {}
  <2>1. ASSUME NEW x \in Nat
        PROVE  0 .. x \in FiniteSubsetsOf(Nat)
    <3>1. x \in Int /\ 0 .. x \subseteq Nat
      OBVIOUS
    <3>2. IsFiniteSet(0 .. x)
      BY <3>1, FS_Interval
    <3> QED BY <3>1, <3>2 DEF FiniteSubsetsOf
  <2> QED BY <2>1
<1>2. \E B \in Below : \A C \in Below : ~(<<C, B>> \in StrictSubsetOrdering(Nat))
  <2> HIDE DEF Below
  <2> QED BY <1>1, FS_StrictSubsetOrderingWellFounded, WFMin
<1>3. PICK x \in Nat \ T : \A C \in Below : ~(<<C, 0 .. x>> \in StrictSubsetOrdering(Nat))
  BY <1>2
<1>4. x - 1 \in Nat \ T /\ x \in Nat
  BY <1>3
<1>5. /\ 0 .. (x - 1) \in SUBSET Nat /\ 0 .. x \in SUBSET Nat
      /\ 0 .. (x - 1) \subseteq 0 .. x /\ 0 .. (x - 1) # 0 .. x
  <2>1. x \in 0 .. x /\ x \notin 0 .. (x - 1)
    BY <1>4
  <2> QED BY <1>4, <2>1
<1>6. <<0 .. (x - 1), 0 .. x>> \in StrictSubsetOrdering(Nat)
  BY <1>5 DEF StrictSubsetOrdering
<1> QED BY <1>3, <1>4, <1>6

\* Step g[i] takes the invariant T[i - 1] of a loop to T[i]; f is a run from a.
Stepping(n, T, g) == \A i \in 1 .. n : \A s \in T[i - 1] : g[i][s] \in T[i]
Running(n, a, g, f) == f[0] = a /\ \A i \in 1 .. n : f[i] = g[i][f[i - 1]]

\* A loop that steps from invariant to invariant has a run.
LEMMA LoopExists ==
  ASSUME NEW n \in Nat, NEW T, NEW g, NEW a \in T[0], Stepping(n, T, g)
  PROVE  \E f : Running(n, a, g, f)
<1> DEFINE Upto(m, f) == f = [i \in 0 .. m |-> IF i = 0 THEN a ELSE g[i][f[i - 1]]]
           M == {m \in Nat : m <= n => \E f : Upto(m, f) /\ f[m] \in T[m]}
<1>1. 0 \in M
  <2> DEFINE f == [i \in 0 .. 0 |-> a]
  <2>1. Upto(0, f) /\ f[0] \in T[0]
    OBVIOUS
  <2> QED BY <2>1
<1>2. ASSUME NEW m \in Nat, m \in M
      PROVE  m + 1 \in M
  <2> SUFFICES ASSUME m + 1 <= n PROVE \E f : Upto(m + 1, f) /\ f[m + 1] \in T[m + 1]
    OBVIOUS
  <2>1. PICK f : Upto(m, f) /\ f[m] \in T[m]
    BY <1>2
  <2>2. PICK h : h = [i \in 0 .. m + 1 |-> IF i = m + 1 THEN g[m + 1][f[m]] ELSE f[i]]
    OBVIOUS
  <2>3. \A i \in 0 .. m : h[i] = f[i]
    BY <2>2
  <2>4. h[m + 1] = g[m + 1][f[m]] /\ h[m + 1] \in T[m + 1]
    BY <2>1, <2>2 DEF Stepping
  <2>5. ASSUME NEW i \in 0 .. m + 1
        PROVE  h[i] = IF i = 0 THEN a ELSE g[i][h[i - 1]]
    <3>1. CASE i = m + 1
      BY <2>3, <2>4, <3>1
    <3>2. CASE i \in 0 .. m
      <4>1. h[i] = f[i] /\ f[i] = IF i = 0 THEN a ELSE g[i][f[i - 1]]
        BY <2>1, <2>3, <3>2
      <4>2. i # 0 => h[i - 1] = f[i - 1]
        BY <2>3, <3>2
      <4> QED BY <4>1, <4>2
    <3> QED BY <3>1, <3>2
  <2>6. Upto(m + 1, h)
    BY <2>2, <2>5
  <2> HIDE DEF Upto
  <2> QED BY <2>4, <2>6
<1>3. n \in M
  <2> HIDE DEF M
  <2> QED BY <1>1, <1>2, EveryNumber
<1> QED BY <1>3 DEF Running

\* What holds before a loop and is kept by its steps holds throughout.
LEMMA LoopInvariant ==
  ASSUME NEW n \in Nat, NEW T, NEW f, f[0] \in T[0],
         \A i \in 1 .. n : f[i - 1] \in T[i - 1] => f[i] \in T[i]
  PROVE  \A i \in 0 .. n : f[i] \in T[i]
<1> DEFINE M == {i \in Nat : i <= n => f[i] \in T[i]}
<1>1. ASSUME NEW i \in Nat, i \in M
      PROVE  i + 1 \in M
  <2>1. i + 1 <= n => (i + 1) \in 1 .. n /\ (i + 1) - 1 = i
    OBVIOUS
  <2> QED BY <1>1, <2>1
<1>2. 0 \in M
  OBVIOUS
<1>3. Nat \subseteq M
  <2> HIDE DEF M
  <2> QED BY <1>1, <1>2, EveryNumber
<1> QED BY <1>3
-----------------------------------------------------------------------------
(* Segments and the offsets they cover.                                    *)

Covered(q) == {b \in Offset : \E i \in 1 .. Len(q) : Covers(q[i], b)}
Clear(s, t) == s.end <= t.offset \/ t.end <= s.offset
Disjoint(q) == \A i \in 1 .. Len(q), j \in 1 .. Len(q) : i # j => Clear(q[i], q[j])
Apart(q) == \A i \in 1 .. Len(q), j \in 1 .. Len(q) : i < j => q[i].end < q[j].offset

\* A segment is not empty and has a byte at each of its offsets.
LEMMA SegmentFacts ==
  ASSUME NEW s \in Segment
  PROVE  /\ s = [offset |-> s.offset, end |-> s.end, data |-> s.data]
         /\ s.offset \in Offset /\ s.end \in Offset /\ s.offset < s.end
         /\ s.data \in [s.offset .. s.end - 1 -> Byte]
<1>1. PICK ends \in Offset \X Offset :
         ends[1] < ends[2] /\ s \in [offset : {ends[1]}, end : {ends[2]},
                                     data : [ends[1] .. ends[2] - 1 -> Byte]]
  BY DEF Segment
<1> QED BY <1>1

\* Such a record is a segment.
LEMMA SegmentMade ==
  ASSUME NEW from \in Offset, NEW to \in Offset, from < to,
         NEW data \in [from .. to - 1 -> Byte]
  PROVE  [offset |-> from, end |-> to, data |-> data] \in Segment
<1>1. <<from, to>> \in {pair \in Offset \X Offset : pair[1] < pair[2]}
  OBVIOUS
<1>2. [offset |-> from, end |-> to, data |-> data]
        \in [offset : {<<from, to>>[1]}, end : {<<from, to>>[2]},
             data : [<<from, to>>[1] .. <<from, to>>[2] - 1 -> Byte]]
  OBVIOUS
<1> QED BY <1>1, <1>2 DEF Segment

LEMMA OffsetFacts ==
  /\ \A b \in Offset : b \in Nat /\ b \in Int
  /\ \A b \in Nat : b <= MaxOffset => b \in Offset
  /\ IsFiniteSet(Offset)
<1>1. MaxOffset \in Nat
  BY ReassemblerAssumption
<1>2. IsFiniteSet(0 .. MaxOffset)
  BY <1>1, FS_Interval
<1> QED BY <1>1, <1>2 DEF Offset

\* The offsets covered are finitely many; every segment adds its own.
LEMMA CoveredFacts ==
  ASSUME NEW q \in Seq(Segment)
  PROVE  IsFiniteSet(Covered(q)) /\ Cardinality(Covered(q)) \in Nat
<1>1. Covered(q) \subseteq Offset
  BY DEF Covered
<1>2. IsFiniteSet(Covered(q))
  BY <1>1, OffsetFacts, FS_Subset
<1> QED BY <1>2, FS_CardinalityType

LEMMA CoveredAppend ==
  ASSUME NEW q \in Seq(Segment), NEW s \in Segment
  PROVE  /\ Append(q, s) \in Seq(Segment) /\ Len(Append(q, s)) = Len(q) + 1
         /\ Covered(Append(q, s)) = Covered(q) \cup (s.offset .. s.end - 1)
<1>1. /\ Append(q, s) \in Seq(Segment) /\ Len(Append(q, s)) = Len(q) + 1
      /\ Append(q, s)[Len(q) + 1] = s /\ Len(q) \in Nat
      /\ \A i \in 1 .. Len(q) : Append(q, s)[i] = q[i]
  OBVIOUS
<1>2. s.offset \in Nat /\ s.end \in Nat /\ s.offset .. s.end - 1 \subseteq Offset
  BY SegmentFacts, ReassemblerAssumption DEF Offset
<1>3. ASSUME NEW b \in Offset
      PROVE  (\E i \in 1 .. Len(q) + 1 : Covers(Append(q, s)[i], b))
               <=> (\E i \in 1 .. Len(q) : Covers(q[i], b)) \/ Covers(s, b)
  <2>1. \A i \in 1 .. Len(q) + 1 : i \in 1 .. Len(q) \/ i = Len(q) + 1
    BY <1>1
  <2>2. Len(q) + 1 \in 1 .. Len(q) + 1 /\ \A i \in 1 .. Len(q) : i \in 1 .. Len(q) + 1
    BY <1>1
  <2> QED BY <1>1, <2>1, <2>2
<1>4. \A b \in Offset : Covers(s, b) <=> b \in s.offset .. s.end - 1
  BY <1>2, OffsetFacts DEF Covers
<1>5. \A b : b \in Covered(Append(q, s)) <=> b \in Covered(q) \cup (s.offset .. s.end - 1)
  <2>1. \A b \in Offset : b \in Covered(Append(q, s)) <=>
                             \E i \in 1 .. Len(q) + 1 : Covers(Append(q, s)[i], b)
    BY <1>1 DEF Covered
  <2> QED BY <1>2, <1>3, <1>4, <2>1 DEF Covered
<1> QED BY <1>1, <1>5

LEMMA IntervalAdds ==
  ASSUME NEW S, IsFiniteSet(S), NEW m \in Nat, NEW k \in Nat, m < k,
         \A b \in S : b \notin m .. k - 1
  PROVE  Cardinality(S \cup (m .. k - 1)) = Cardinality(S) + k - m
<1>1. IsFiniteSet(m .. k - 1) /\ Cardinality(m .. k - 1) = k - m
  <2>1. m \in Int /\ k - 1 \in Int
    OBVIOUS
  <2>2. IsFiniteSet(m .. k - 1) /\ Cardinality(m .. k - 1)
                                    = IF m > k - 1 THEN 0 ELSE k - 1 - m + 1
    BY <2>1, FS_Interval
  <2> QED BY <2>2
<1>2. S \cap (m .. k - 1) = {}
  OBVIOUS
<1>3. Cardinality(S \cup (m .. k - 1))
        = Cardinality(S) + Cardinality(m .. k - 1) - Cardinality(S \cap (m .. k - 1))
  BY <1>1, FS_Union
<1>4. Cardinality({}) = 0 /\ Cardinality(S) \in Nat
  BY FS_EmptySet, FS_CardinalityType
<1>5. Cardinality(S \cup (m .. k - 1)) = Cardinality(S) + (k - m) - 0
  BY <1>1, <1>2, <1>3, <1>4
<1> QED BY <1>4, <1>5
-----------------------------------------------------------------------------
(* The gap loop of push.                                                   *)

\* The payload p at offset o counts from offset first on and meets segments.
Meets(segs, o, p, first) ==
  /\ segs \in Seq(Segment) /\ Apart(segs)
  /\ o \in Nat /\ p \in Seq(Byte) /\ o + Len(p) \in Offset
  /\ first \in Offset /\ o <= first /\ first < o + Len(p)

\* The pieces lie between first and the cursor, in order, have the payload's
\* bytes, are clear of the segments and with them cover everything there.
Fills(segs, o, p, first, s) ==
  /\ s \in [cursor : Offset, pieces : Seq(Segment), bytes : Nat]
  /\ first <= s.cursor
  /\ \A k \in 1 .. Len(s.pieces) :
       /\ first <= s.pieces[k].offset /\ s.pieces[k].end <= s.cursor
       /\ s.pieces[k].end <= o + Len(p)
       /\ s.pieces[k] = Piece(o, p, s.pieces[k].offset, s.pieces[k].end)
       /\ \A j \in 1 .. Len(segs) : Clear(s.pieces[k], segs[j])
  /\ Disjoint(s.pieces)
  /\ \A b \in first .. o + Len(p) - 1 :
       b < s.cursor => b \in Covered(segs) \cup Covered(s.pieces)
  /\ s.bytes = Cardinality(Covered(s.pieces))

LEMMA MeetsFacts ==
  ASSUME NEW segs, NEW o, NEW p, NEW first, Meets(segs, o, p, first)
  PROVE  /\ o \in Nat /\ Len(p) \in Nat /\ o + Len(p) \in Offset /\ o + Len(p) \in Nat
         /\ first \in Nat /\ o <= first /\ first < o + Len(p)
         /\ segs \in Seq(Segment) /\ Len(segs) \in Nat
BY OffsetFacts DEF Meets

\* The piece of the payload between two offsets is a segment.
LEMMA PieceFacts ==
  ASSUME NEW segs, NEW o, NEW p, NEW first, Meets(segs, o, p, first),
         NEW from \in Offset, NEW to \in Offset,
         first <= from, from < to, to <= o + Len(p)
  PROVE  /\ Piece(o, p, from, to) \in Segment
         /\ Piece(o, p, from, to).offset = from /\ Piece(o, p, from, to).end = to
         /\ \A b \in from .. to - 1 : Piece(o, p, from, to).data[b] = p[b - o + 1]
<1>1. \A b \in from .. to - 1 : p[b - o + 1] \in Byte
  <2> SUFFICES ASSUME NEW b \in from .. to - 1 PROVE p[b - o + 1] \in Byte
    OBVIOUS
  <2>1. from \in Nat /\ to \in Nat
    BY OffsetFacts
  <2>2. b - o + 1 \in 1 .. Len(p)
    BY <2>1, MeetsFacts
  <2> QED BY <2>2 DEF Meets
<1>2. [b \in from .. to - 1 |-> p[b - o + 1]] \in [from .. to - 1 -> Byte]
  BY <1>1
<1>3. Piece(o, p, from, to) \in Segment
  BY <1>2, SegmentMade DEF Piece
<1> QED BY <1>3 DEF Piece

LEMMA CursorMoved ==
  ASSUME NEW r, NEW c, NEW q, NEW n, NEW d, r = [cursor |-> c, pieces |-> q, bytes |-> n]
  PROVE  [r EXCEPT !.cursor = d] = [cursor |-> d, pieces |-> q, bytes |-> n]
OBVIOUS

LEMMA Added ==
  ASSUME NEW s, NEW o, NEW p, NEW to, NEW c, ~(s.cursor >= to)
  PROVE  [AddSegment(s, o, p, to) EXCEPT !.cursor = c]
           = [cursor |-> c, pieces |-> Append(s.pieces, Piece(o, p, s.cursor, to)),
              bytes |-> s.bytes + to - s.cursor]
<1>1. PICK q, n : q = Append(s.pieces, Piece(o, p, s.cursor, to)) /\ n = s.bytes + to - s.cursor
  OBVIOUS
<1>2. AddSegment(s, o, p, to) = [cursor |-> s.cursor, pieces |-> q, bytes |-> n]
  BY <1>1 DEF AddSegment
<1>3. [AddSegment(s, o, p, to) EXCEPT !.cursor = c] = [cursor |-> c, pieces |-> q, bytes |-> n]
  BY <1>2, CursorMoved
<1> QED BY <1>1, <1>3

\* addSegment with the payload from the cursor up to an offset, where no
\* segment ends behind the cursor and begins before that offset.
LEMMA FillsTo ==
  ASSUME NEW segs, NEW o, NEW p, NEW first, Meets(segs, o, p, first),
         NEW s, Fills(segs, o, p, first, s),
         NEW to \in Offset, s.cursor < to, to <= o + Len(p),
         \A j \in 1 .. Len(segs) : segs[j].end <= s.cursor \/ segs[j].offset >= to
  PROVE  Fills(segs, o, p, first,
               [AddSegment(s, o, p, to) EXCEPT !.cursor = to])
<1> DEFINE x == Piece(o, p, s.cursor, to)
<1>1. /\ s \in [cursor : Offset, pieces : Seq(Segment), bytes : Nat]
      /\ s.cursor \in Nat /\ to \in Nat /\ first <= s.cursor /\ Len(s.pieces) \in Nat
      /\ s.bytes = Cardinality(Covered(s.pieces)) /\ s.bytes \in Nat
      /\ s.pieces \in Seq(Segment)
  BY OffsetFacts DEF Fills
<1>2. /\ x \in Segment /\ x.offset = s.cursor /\ x.end = to
      /\ x = Piece(o, p, x.offset, x.end)
  BY <1>1, PieceFacts
<1> HIDE DEF x
<1>3. /\ Append(s.pieces, x) \in Seq(Segment)
      /\ Len(Append(s.pieces, x)) = Len(s.pieces) + 1
      /\ Covered(Append(s.pieces, x)) = Covered(s.pieces) \cup (s.cursor .. to - 1)
  BY <1>1, <1>2, CoveredAppend
<1>4. Append(s.pieces, x)[Len(s.pieces) + 1] = x
      /\ \A k \in 1 .. Len(s.pieces) : Append(s.pieces, x)[k] = s.pieces[k]
  BY <1>1
<1>5. PICK t : t = [cursor |-> to, pieces |-> Append(s.pieces, x), bytes |-> s.bytes + to - s.cursor]
  OBVIOUS
<1>6. t = [AddSegment(s, o, p, to) EXCEPT !.cursor = to]
  <2>1. ~(s.cursor >= to)
    BY <1>1
  <2> QED BY <1>5, <2>1, Added DEF x
<1>7. t \in [cursor : Offset, pieces : Seq(Segment), bytes : Nat] /\ first <= t.cursor
  <2>1. s.bytes + to - s.cursor \in Nat /\ first <= to
    BY <1>1, MeetsFacts
  <2> QED BY <1>3, <1>5, <2>1
<1>8. \A k \in 1 .. Len(t.pieces) : k \in 1 .. Len(s.pieces) \/ k = Len(s.pieces) + 1
  BY <1>1, <1>3, <1>5
<1>9. ASSUME NEW k \in 1 .. Len(t.pieces)
      PROVE  /\ first <= t.pieces[k].offset /\ t.pieces[k].end <= t.cursor
             /\ t.pieces[k].end <= o + Len(p)
             /\ t.pieces[k] = Piece(o, p, t.pieces[k].offset, t.pieces[k].end)
             /\ \A j \in 1 .. Len(segs) : Clear(t.pieces[k], segs[j])
  <2>1. CASE k \in 1 .. Len(s.pieces)
    <3>1. t.pieces[k] = s.pieces[k] /\ s.pieces[k] \in Segment /\ t.cursor = to
      BY <1>1, <1>4, <1>5, <2>1
    <3>2. s.pieces[k].end \in Nat
      BY <3>1, SegmentFacts, OffsetFacts
    <3>3. /\ first <= s.pieces[k].offset /\ s.pieces[k].end <= s.cursor
          /\ s.pieces[k].end <= o + Len(p)
          /\ s.pieces[k] = Piece(o, p, s.pieces[k].offset, s.pieces[k].end)
          /\ \A j \in 1 .. Len(segs) : Clear(s.pieces[k], segs[j])
      BY <2>1 DEF Fills
    <3> QED BY <1>1, <3>1, <3>2, <3>3
  <2>2. CASE k = Len(s.pieces) + 1
    <3>1. t.pieces[k] = x /\ t.cursor = to
      BY <1>4, <1>5, <2>2
    <3>2. \A j \in 1 .. Len(segs) : Clear(x, segs[j])
      BY <1>2 DEF Clear
    <3> QED BY <1>1, <1>2, <3>1, <3>2
  <2> QED BY <1>8, <2>1, <2>2
<1>10. Disjoint(t.pieces)
  <2>1. ASSUME NEW k \in 1 .. Len(s.pieces)
        PROVE  Clear(s.pieces[k], x)
    BY <1>2, <2>1 DEF Fills, Clear
  <2>2. ASSUME NEW k \in 1 .. Len(t.pieces), NEW l \in 1 .. Len(t.pieces), k # l
        PROVE  Clear(t.pieces[k], t.pieces[l])
    <3>1. CASE k \in 1 .. Len(s.pieces) /\ l \in 1 .. Len(s.pieces)
      <4>1. Clear(s.pieces[k], s.pieces[l])
        BY <2>2, <3>1 DEF Fills, Disjoint
      <4> QED BY <1>4, <1>5, <3>1, <4>1
    <3>2. CASE k \in 1 .. Len(s.pieces) /\ l = Len(s.pieces) + 1
      BY <1>4, <1>5, <2>1, <3>2
    <3>3. CASE l \in 1 .. Len(s.pieces) /\ k = Len(s.pieces) + 1
      BY <1>4, <1>5, <2>1, <3>3 DEF Clear
    <3> QED BY <1>8, <2>2, <3>1, <3>2, <3>3
  <2> QED BY <2>2 DEF Disjoint
<1>11. ASSUME NEW b \in first .. o + Len(p) - 1, b < t.cursor
       PROVE  b \in Covered(segs) \cup Covered(t.pieces)
  <2>1. b \in Nat /\ t.cursor = to /\ Covered(t.pieces) = Covered(s.pieces) \cup (s.cursor .. to - 1)
    BY <1>3, <1>5, MeetsFacts
  <2>2. CASE b < s.cursor
    BY <2>1, <2>2 DEF Fills
  <2>3. CASE ~(b < s.cursor)
    BY <1>1, <1>11, <2>1, <2>3
  <2> QED BY <2>2, <2>3
<1>12. t.bytes = Cardinality(Covered(t.pieces))
  <2>1. ASSUME NEW b \in Covered(s.pieces)
        PROVE  b \notin s.cursor .. to - 1
    <3>1. PICK k \in 1 .. Len(s.pieces) : Covers(s.pieces[k], b)
      BY DEF Covered
    <3>2. s.pieces[k].end <= s.cursor
      BY DEF Fills
    <3>3. s.pieces[k] \in Segment /\ b \in Nat
      BY <1>1, OffsetFacts DEF Covered
    <3>4. s.pieces[k].end \in Nat
      BY <3>3, SegmentFacts, OffsetFacts
    <3> QED BY <1>1, <3>1, <3>2, <3>3, <3>4 DEF Covers
  <2>2. IsFiniteSet(Covered(s.pieces))
    BY <1>1, CoveredFacts
  <2>3. Cardinality(Covered(s.pieces) \cup (s.cursor .. to - 1)) = Cardinality(Covered(s.pieces)) + to - s.cursor
    BY <1>1, <2>1, <2>2, IntervalAdds
  <2> QED BY <1>1, <1>3, <1>5, <2>3
<1>13. Fills(segs, o, p, first, t)
  BY <1>7, <1>9, <1>10, <1>11, <1>12 DEF Fills
<1> QED BY <1>6, <1>13

\* The cursor may go on where the segments cover what it passes.
LEMMA FillsOn ==
  ASSUME NEW segs, NEW o, NEW p, NEW first, Meets(segs, o, p, first),
         NEW s, Fills(segs, o, p, first, s), NEW c \in Offset, s.cursor <= c,
         \A b \in s.cursor .. c - 1 : b \in Covered(segs)
  PROVE  Fills(segs, o, p, first, [s EXCEPT !.cursor = c])
<1>1. PICK t : t = [s EXCEPT !.cursor = c]
  OBVIOUS
<1>2. /\ s \in [cursor : Offset, pieces : Seq(Segment), bytes : Nat]
      /\ s.cursor \in Nat /\ c \in Nat /\ first <= s.cursor /\ first \in Nat
  BY OffsetFacts, MeetsFacts DEF Fills
<1>3. /\ t.cursor = c /\ t.pieces = s.pieces /\ t.bytes = s.bytes
      /\ t \in [cursor : Offset, pieces : Seq(Segment), bytes : Nat]
  BY <1>1, <1>2
<1>4. ASSUME NEW k \in 1 .. Len(t.pieces)
      PROVE  /\ first <= t.pieces[k].offset /\ t.pieces[k].end <= t.cursor
             /\ t.pieces[k].end <= o + Len(p)
             /\ t.pieces[k] = Piece(o, p, t.pieces[k].offset, t.pieces[k].end)
             /\ \A j \in 1 .. Len(segs) : Clear(t.pieces[k], segs[j])
  <2>1. t.pieces[k] \in Segment
    BY <1>3
  <2>2. t.pieces[k].end \in Nat
    BY <2>1, SegmentFacts, OffsetFacts
  <2>3. t.pieces[k].end <= s.cursor
    BY <1>3 DEF Fills
  <2>4. t.pieces[k].end <= t.cursor
    BY <1>2, <1>3, <2>2, <2>3
  <2> QED BY <1>3, <2>4 DEF Fills
<1>5. \A b \in first .. o + Len(p) - 1 :
        b < t.cursor => b \in Covered(segs) \cup Covered(t.pieces)
  <2> SUFFICES ASSUME NEW b \in first .. o + Len(p) - 1, b < c
               PROVE  b \in Covered(segs) \cup Covered(s.pieces)
    BY <1>3
  <2>1. b \in Nat
    BY MeetsFacts
  <2>2. CASE b < s.cursor
    BY <2>2 DEF Fills
  <2>3. CASE ~(b < s.cursor)
    BY <1>2, <2>1, <2>3
  <2> QED BY <2>2, <2>3
<1>6. first <= t.cursor
  BY <1>2, <1>3
<1>7. Fills(segs, o, p, first, t)
  BY <1>3, <1>4, <1>5, <1>6 DEF Fills
<1> QED BY <1>1, <1>7

\* The invariant of the loop after segment i: none of the segments passed
\* still lies ahead of the cursor and before the payload's end.
Passed(segs, o, p, first, i, s) ==
  /\ Fills(segs, o, p, first, s)
  /\ \A j \in 1 .. i : segs[j].end <= s.cursor \/ segs[j].offset >= o + Len(p)

LEMMA PassStep ==
  ASSUME NEW segs, NEW o, NEW p, NEW first, Meets(segs, o, p, first),
         NEW i \in 1 .. Len(segs), NEW s, Passed(segs, o, p, first, i - 1, s)
  PROVE  Passed(segs, o, p, first, i, Pass(s, o, p, segs[i]))
<1> DEFINE seg == segs[i]
           end == o + Len(p)
<1>1. /\ segs \in Seq(Segment) /\ seg \in Segment /\ Len(segs) \in Nat /\ i \in Nat
      /\ first \in Nat /\ end \in Nat
  BY MeetsFacts
<1>2. seg.offset \in Offset /\ seg.end \in Offset /\ seg.offset \in Nat /\ seg.end \in Nat /\ seg.offset < seg.end
  BY <1>1, SegmentFacts, OffsetFacts
<1>3. /\ Fills(segs, o, p, first, s) /\ s.cursor \in Nat /\ s.cursor \in Offset
      /\ s \in [cursor : Offset, pieces : Seq(Segment), bytes : Nat]
      /\ \A j \in 1 .. i - 1 : segs[j].end <= s.cursor \/ segs[j].offset >= end
  BY OffsetFacts DEF Passed, Fills
<1>4. \A j \in 1 .. Len(segs) : segs[j].offset \in Nat /\ segs[j].end \in Nat /\ segs[j].offset < segs[j].end
  BY SMTT(30), <1>1, SegmentFacts, OffsetFacts
<1>5. \A j \in 1 .. Len(segs), l \in 1 .. Len(segs) : j < l => segs[j].end < segs[l].offset
  BY DEF Meets, Apart
<1>6. CASE seg.end <= s.cursor \/ seg.offset >= end
  <2>1. Pass(s, o, p, seg) = s
    BY <1>6 DEF Pass
  <2>2. \A j \in 1 .. i : j \in 1 .. i - 1 \/ j = i
    BY <1>1
  <2> QED BY <1>3, <1>6, <2>1, <2>2 DEF Passed
<1>7. CASE seg.end > s.cursor /\ seg.offset < end
  <2> DEFINE t == AddSegment(s, o, p, seg.offset)
  <2>1. Pass(s, o, p, seg) = [t EXCEPT !.cursor = seg.end]
    <3>1. ~(seg.end <= s.cursor) /\ ~(seg.offset >= o + Len(p))
      BY <1>1, <1>2, <1>3, <1>7
    <3> HIDE DEF seg
    <3> QED BY <3>1 DEF Pass
  <2>2. \A b \in seg.offset .. seg.end - 1 : b \in Covered(segs)
    <3> SUFFICES ASSUME NEW b \in seg.offset .. seg.end - 1 PROVE b \in Covered(segs)
      OBVIOUS
    <3>1. b \in Offset
      BY <1>2, ReassemblerAssumption DEF Offset
    <3> QED BY <1>2, <3>1 DEF Covered, Covers
  <2>3. Fills(segs, o, p, first, [t EXCEPT !.cursor = seg.end])
    <3>1. CASE s.cursor >= seg.offset
      <4>1. t = s
        BY <3>1 DEF AddSegment
      <4>2. \A b \in s.cursor .. seg.end - 1 : b \in Covered(segs)
        BY <1>2, <1>3, <2>2, <3>1
      <4>3. s.cursor <= seg.end
        BY <1>2, <1>3, <1>7
      <4> HIDE DEF t, seg
      <4> QED BY <1>2, <1>3, <4>1, <4>2, <4>3, FillsOn
    <3>2. CASE s.cursor < seg.offset
      <4>1. ASSUME NEW j \in 1 .. Len(segs)
            PROVE  segs[j].end <= s.cursor \/ segs[j].offset >= seg.offset
        <5>1. CASE j < i
          <6>1. j \in 1 .. i - 1
            BY <1>1, <5>1
          <6>2. segs[j].end <= s.cursor \/ segs[j].offset >= end
            BY <1>3, <6>1
          <6>3. segs[j].offset \in Nat
            BY <1>4
          <6> HIDE DEF seg, end
          <6> QED BY <1>1, <1>2, <1>7, <6>2, <6>3
        <5>2. CASE j = i
          BY <1>2, <5>2
        <5>3. CASE i < j
          BY <1>2, <1>4, <1>5, <5>3
        <5> QED BY <1>1, <5>1, <5>2, <5>3
      <4>2. Fills(segs, o, p, first, [t EXCEPT !.cursor = seg.offset])
        <5>1. seg.offset <= o + Len(p)
          BY <1>1, <1>2, <1>7
        <5> HIDE DEF seg
        <5> QED BY <1>2, <1>3, <3>2, <4>1, <5>1, FillsTo
      <4>3. PICK u : u = [t EXCEPT !.cursor = seg.offset]
        OBVIOUS
      <4>4. u.cursor = seg.offset /\ [u EXCEPT !.cursor = seg.end] = [t EXCEPT !.cursor = seg.end]
        <5>1. ~(s.cursor >= seg.offset)
          BY <1>2, <1>3, <3>2
        <5>2. s = [cursor |-> s.cursor, pieces |-> s.pieces, bytes |-> s.bytes]
          BY <1>3
        <5>3. t = [cursor |-> s.cursor, pieces |-> t.pieces, bytes |-> t.bytes]
          BY <5>1, <5>2 DEF AddSegment
        <5> HIDE DEF t, seg
        <5> QED BY <4>3, <5>3
      <4>5. u.cursor <= seg.end /\ \A b \in u.cursor .. seg.end - 1 : b \in Covered(segs)
        BY <1>2, <2>2, <4>4
      <4>6. Fills(segs, o, p, first, u)
        BY <4>2, <4>3
      <4>7. Fills(segs, o, p, first, [u EXCEPT !.cursor = seg.end])
        <5> HIDE DEF t, seg
        <5> QED BY <1>2, <4>5, <4>6, FillsOn
      <4> QED BY <4>4, <4>7
    <3> QED BY <1>2, <1>3, <3>1, <3>2
  <2>4. [t EXCEPT !.cursor = seg.end].cursor = seg.end
    <3>1. s = [cursor |-> s.cursor, pieces |-> s.pieces, bytes |-> s.bytes]
      BY <1>3
    <3> QED BY <3>1 DEF AddSegment
  <2>5. ASSUME NEW j \in 1 .. i
        PROVE  segs[j].end <= seg.end \/ segs[j].offset >= end
    <3>1. CASE j = i
      BY <1>2, <3>1
    <3>2. CASE j # i
      <4>1. j \in 1 .. Len(segs) /\ j < i
        BY <1>1, <3>2
      <4> QED BY <1>2, <1>4, <1>5, <4>1
    <3> QED BY <3>1, <3>2
  <2> HIDE DEF t, seg
  <2> QED BY <2>1, <2>3, <2>4, <2>5 DEF Passed, seg
<1> QED BY SMTT(30), <1>1, <1>2, <1>3, <1>6, <1>7

LEMMA PassesFacts ==
  ASSUME NEW o, NEW p, NEW first, Meets(segments, o, p, first)
  PROVE  Passed(segments, o, p, first, Len(segments), Passes(o, p, first)[Len(segments)])
<1> DEFINE n == Len(segments)
           State == [cursor : Offset, pieces : Seq(Segment), bytes : Nat]
           T == [i \in 0 .. n |-> {s \in State : Passed(segments, o, p, first, i, s)}]
           a == [cursor |-> first, pieces |-> <<>>, bytes |-> 0]
           g == [i \in 1 .. n |-> [s \in State |-> Pass(s, o, p, segments[i])]]
           Body(f) == [i \in 0 .. n |-> IF i = 0 THEN a ELSE Pass(f[i - 1], o, p, segments[i])]
<1>1. n \in Nat /\ first \in Offset /\ first \in Nat
  BY MeetsFacts, OffsetFacts DEF Meets
<1>2. a \in T[0]
  <2>1. a \in State /\ a.pieces = <<>> /\ Len(<<>>) = 0 /\ a.cursor = first /\ a.bytes = 0
    BY <1>1
  <2>2. Covered(<<>>) = {} /\ Cardinality({}) = 0
    BY FS_EmptySet DEF Covered
  <2>3. Passed(segments, o, p, first, 0, a)
    <3> HIDE DEF a
    <3>1. \A b \in first .. o + Len(p) - 1 : ~(b < first)
      BY <1>1, MeetsFacts
    <3>2. 1 .. Len(a.pieces) = {} /\ 1 .. 0 = {}
      BY <2>1
    <3>3. Fills(segments, o, p, first, a)
      <4>1. first <= a.cursor /\ a.bytes = Cardinality(Covered(a.pieces))
        <5>1. first <= first
          BY <1>1
        <5> QED BY <2>1, <2>2, <5>1
      <4>2. Disjoint(a.pieces)
        BY <3>2 DEF Disjoint
      <4>3. \A b \in first .. o + Len(p) - 1 : ~(b < a.cursor)
        BY <2>1, <3>1
      <4> QED BY <2>1, <3>2, <4>1, <4>3, <4>2 DEF Fills
    <3> QED BY <3>2, <3>3 DEF Passed
  <2> QED BY <1>1, <2>1, <2>3
<1>3. \A s, i : Passed(segments, o, p, first, i, s) => s \in State
  BY DEF Passed, Fills
<1>4. ASSUME NEW i \in 1 .. n, NEW s \in T[i - 1]
      PROVE  /\ g[i][s] = Pass(s, o, p, segments[i])
             /\ Pass(s, o, p, segments[i]) \in T[i]
  <2>1. i - 1 \in 0 .. n /\ i \in 0 .. n
    BY <1>1
  <2>2. s \in State /\ Passed(segments, o, p, first, i - 1, s)
    BY <2>1
  <2>3. Passed(segments, o, p, first, i, Pass(s, o, p, segments[i]))
    BY <2>2, PassStep
  <2>4. Pass(s, o, p, segments[i]) \in T[i]
    <3> HIDE DEF State
    <3> QED BY <1>3, <2>1, <2>3
  <2> QED BY <2>2, <2>4
<1> HIDE DEF g, T
<1>5. PICK e : Running(n, a, g, e)
  <2>1. Stepping(n, T, g)
    BY <1>4 DEF Stepping
  <2> HIDE DEF a, n
  <2> QED BY <1>1, <1>2, <2>1, LoopExists
<1>6. PICK f : f = [i \in 0 .. n |-> e[i]] /\ \A i \in 0 .. n : e[i] \in T[i]
  <2>1. e[0] \in T[0]
    BY <1>1, <1>2, <1>5 DEF Running
  <2>2. \A i \in 1 .. n : e[i - 1] \in T[i - 1] => e[i] \in T[i]
    <3> HIDE DEF n
    <3> QED BY <1>1, <1>4, <1>5 DEF Running
  <2> QED BY <1>1, <2>1, <2>2, LoopInvariant
<1>7. f = Body(f)
  <2> HIDE DEF n
  <2>1. ASSUME NEW i \in 0 .. n, i # 0
        PROVE  f[i] = Pass(f[i - 1], o, p, segments[i])
    <3>1. i \in 1 .. n /\ i - 1 \in 0 .. n
      BY <1>1, <2>1
    <3>2. f[i] = g[i][e[i - 1]] /\ e[i - 1] \in T[i - 1] /\ f[i - 1] = e[i - 1]
      BY <1>5, <1>6, <3>1 DEF Running
    <3> QED BY <1>4, <3>1, <3>2
  <2>2. f[0] = a /\ DOMAIN f = 0 .. n
    BY <1>1, <1>5, <1>6 DEF Running
  <2> HIDE DEF a
  <2> QED BY <1>6, <2>1, <2>2
<1>8. Passes(o, p, first) = CHOOSE h : h = Body(h)
  BY DEF Passes
<1> HIDE DEF Body
<1>9. Passes(o, p, first) = Body(Passes(o, p, first))
  BY <1>7, <1>8
<1>10. PICK h : h = Passes(o, p, first)
  OBVIOUS
<1>11. \A i \in 0 .. n : h[i] \in T[i]
  <2>1. h = Body(h)
    BY <1>9, <1>10
  <2>2. \A i \in 0 .. n : h[i] = IF i = 0 THEN a ELSE Pass(h[i - 1], o, p, segments[i])
    <3> HIDE DEF a, n
    <3> QED BY <2>1 DEF Body
  <2>3. h[0] \in T[0]
    BY <1>1, <1>2, <2>2
  <2>4. ASSUME NEW i \in 1 .. n, h[i - 1] \in T[i - 1]
        PROVE  h[i] \in T[i]
    <3>1. i \in 0 .. n /\ i # 0
      BY <1>1
    <3> HIDE DEF n
    <3> QED BY <1>4, <2>2, <2>4, <3>1
  <2> QED BY <1>1, <2>3, <2>4, LoopInvariant
<1>12. h[n] \in T[n] /\ n \in 0 .. n
  BY <1>1, <1>11
<1> QED BY <1>10, <1>12 DEF T

\* After the loop the payload behind the cursor is added, so that its pieces
\* and the segments cover all of it.
LEMMA FilledFacts ==
  ASSUME NEW o, NEW p, NEW first, Meets(segments, o, p, first)
  PROVE  \E s : /\ Fills(segments, o, p, first, s) /\ s.cursor >= o + Len(p)
                /\ s.pieces = Filled(o, p, first).pieces
                /\ s.bytes = Filled(o, p, first).bytes
<1>1. PICK s : s = Passes(o, p, first)[Len(segments)]
  OBVIOUS
<1>2. /\ Fills(segments, o, p, first, s)
      /\ \A j \in 1 .. Len(segments) :
           segments[j].end <= s.cursor \/ segments[j].offset >= o + Len(p)
  BY <1>1, PassesFacts DEF Passed
<1>3. Filled(o, p, first) = AddSegment(s, o, p, o + Len(p))
  BY <1>1 DEF Filled
<1>4. s.cursor \in Nat /\ o + Len(p) \in Offset /\ o + Len(p) \in Nat
  BY <1>2, OffsetFacts, MeetsFacts DEF Fills
<1>5. CASE s.cursor >= o + Len(p)
  BY <1>2, <1>3, <1>5 DEF AddSegment
<1>6. CASE s.cursor < o + Len(p)
  <2>1. PICK t : t = [AddSegment(s, o, p, o + Len(p)) EXCEPT !.cursor = o + Len(p)]
    OBVIOUS
  <2>2. o + Len(p) <= o + Len(p)
    BY <1>4
  <2>3. Fills(segments, o, p, first, t)
    BY <1>2, <1>4, <1>6, <2>1, <2>2, FillsTo
  <2>4. ~(s.cursor >= o + Len(p))
    BY <1>4, <1>6
  <2>5. t = [cursor |-> o + Len(p), pieces |-> Append(s.pieces, Piece(o, p, s.cursor, o + Len(p))),
             bytes |-> s.bytes + (o + Len(p)) - s.cursor]
    BY <2>1, <2>4, Added
  <2>6. t.pieces = Filled(o, p, first).pieces /\ t.bytes = Filled(o, p, first).bytes
    BY <1>3, <2>4, <2>5 DEF AddSegment
  <2>7. t.cursor >= o + Len(p)
    BY <1>4, <2>5
  <2> QED BY <2>3, <2>6, <2>7
<1> QED BY <1>4, <1>5, <1>6
-----------------------------------------------------------------------------
(* The segments together with the pieces of the payload.                   *)

\* Segments q have the byte v at offset b.
Has(q, b, v) ==
  b \in Offset /\ \E i \in 1 .. Len(q) : Covers(q[i], b) /\ q[i].data[b] = v

LEMMA ConcatFacts ==
  ASSUME NEW q \in Seq(Segment), NEW r \in Seq(Segment)
  PROVE  /\ q \o r \in Seq(Segment) /\ Len(q \o r) = Len(q) + Len(r)
         /\ Len(q) \in Nat /\ Len(r) \in Nat
         /\ \A i \in 1 .. Len(q) : i \in 1 .. Len(q \o r) /\ (q \o r)[i] = q[i]
         /\ \A i \in 1 .. Len(r) : /\ Len(q) + i \in 1 .. Len(q \o r)
                                   /\ (q \o r)[Len(q) + i] = r[i]
         /\ \A i \in 1 .. Len(q \o r) :
              i \in 1 .. Len(q) \/ \E j \in 1 .. Len(r) : i = Len(q) + j
<1>1. /\ q \o r \in Seq(Segment) /\ Len(q \o r) = Len(q) + Len(r)
      /\ Len(q) \in Nat /\ Len(r) \in Nat
  OBVIOUS
<1>2. \A i \in 1 .. Len(q) : i \in 1 .. Len(q \o r) /\ (q \o r)[i] = q[i]
  BY <1>1
<1>3. \A i \in 1 .. Len(r) : Len(q) + i \in 1 .. Len(q \o r) /\ (q \o r)[Len(q) + i] = r[i]
  BY <1>1
<1>4. ASSUME NEW i \in 1 .. Len(q \o r), i \notin 1 .. Len(q)
      PROVE  \E j \in 1 .. Len(r) : i = Len(q) + j
  <2>1. i - Len(q) \in 1 .. Len(r) /\ i = Len(q) + (i - Len(q))
    BY <1>1, <1>4
  <2> QED BY <2>1
<1> QED BY <1>1, <1>2, <1>3, <1>4

LEMMA ConcatHas ==
  ASSUME NEW q \in Seq(Segment), NEW r \in Seq(Segment)
  PROVE  /\ Covered(q \o r) = Covered(q) \cup Covered(r)
         /\ \A b, v : Has(q \o r, b, v) <=> Has(q, b, v) \/ Has(r, b, v)
<1>1. PICK all : all = q \o r
  OBVIOUS
<1>2. /\ \A i \in 1 .. Len(q) : i \in 1 .. Len(all) /\ all[i] = q[i]
      /\ \A i \in 1 .. Len(r) : Len(q) + i \in 1 .. Len(all) /\ all[Len(q) + i] = r[i]
      /\ \A i \in 1 .. Len(all) :
           i \in 1 .. Len(q) \/ \E j \in 1 .. Len(r) : i = Len(q) + j
  BY <1>1, ConcatFacts
<1>3. ASSUME NEW b
      PROVE  (\E i \in 1 .. Len(all) : Covers(all[i], b))
               <=> (\E i \in 1 .. Len(q) : Covers(q[i], b)) \/ (\E i \in 1 .. Len(r) : Covers(r[i], b))
  BY <1>2
<1>4. ASSUME NEW b, NEW v
      PROVE  Has(all, b, v) <=> Has(q, b, v) \/ Has(r, b, v)
  <2>1. ASSUME Has(all, b, v)
        PROVE  Has(q, b, v) \/ Has(r, b, v)
    <3>1. PICK i \in 1 .. Len(all) : Covers(all[i], b) /\ all[i].data[b] = v /\ b \in Offset
      BY <2>1 DEF Has
    <3>2. CASE i \in 1 .. Len(q)
      BY <1>2, <3>1, <3>2 DEF Has
    <3>3. CASE i \notin 1 .. Len(q)
      <4>1. PICK j \in 1 .. Len(r) : i = Len(q) + j
        BY <1>2, <3>3
      <4> QED BY <1>2, <3>1, <4>1 DEF Has
    <3> QED BY <3>2, <3>3
  <2>2. ASSUME Has(q, b, v)
        PROVE  Has(all, b, v)
    BY <1>2, <2>2 DEF Has
  <2>3. ASSUME Has(r, b, v)
        PROVE  Has(all, b, v)
    BY <1>2, <2>3 DEF Has
  <2> QED BY <2>1, <2>2, <2>3
<1>5. Covered(all) = Covered(q) \cup Covered(r)
  BY <1>3 DEF Covered
<1> QED BY <1>1, <1>4, <1>5

Separate(q, r) == \A i \in 1 .. Len(q), j \in 1 .. Len(r) : Clear(q[i], r[j])

LEMMA ConcatDisjoint ==
  ASSUME NEW q \in Seq(Segment), NEW r \in Seq(Segment), Disjoint(q), Disjoint(r),
         Separate(q, r)
  PROVE  /\ Disjoint(q \o r)
         /\ Cardinality(Covered(q \o r)) = Cardinality(Covered(q)) + Cardinality(Covered(r))
<1>1. PICK all : all = q \o r
  OBVIOUS
<1>2. /\ \A i \in 1 .. Len(q) : all[i] = q[i]
      /\ \A i \in 1 .. Len(r) : all[Len(q) + i] = r[i]
      /\ \A i \in 1 .. Len(all) :
           i \in 1 .. Len(q) \/ \E j \in 1 .. Len(r) : i = Len(q) + j
  BY <1>1, ConcatFacts
<1>3. ASSUME NEW i \in 1 .. Len(all), NEW j \in 1 .. Len(all), i # j
      PROVE  Clear(all[i], all[j])
  <2>1. CASE i \in 1 .. Len(q) /\ j \in 1 .. Len(q)
    BY <1>2, <1>3, <2>1 DEF Disjoint
  <2>2. CASE i \in 1 .. Len(q) /\ j \notin 1 .. Len(q)
    BY <1>2, <2>2 DEF Separate
  <2>3. CASE i \notin 1 .. Len(q) /\ j \in 1 .. Len(q)
    BY <1>2, <2>3 DEF Clear, Separate
  <2>4. CASE i \notin 1 .. Len(q) /\ j \notin 1 .. Len(q)
    <3>1. PICK k \in 1 .. Len(r), l \in 1 .. Len(r) : i = Len(q) + k /\ j = Len(q) + l
      BY <1>2, <2>4
    <3>2. k # l
      BY <1>3, <3>1
    <3> QED BY <1>2, <3>1, <3>2 DEF Disjoint
  <2> QED BY <2>1, <2>2, <2>3, <2>4
<1>4. Covered(q) \cap Covered(r) = {}
  <2> SUFFICES ASSUME NEW b \in Covered(q), b \in Covered(r) PROVE FALSE
    OBVIOUS
  <2>1. PICK i \in 1 .. Len(q) : Covers(q[i], b)
    BY DEF Covered
  <2>2. PICK j \in 1 .. Len(r) : Covers(r[j], b)
    BY DEF Covered
  <2>3. q[i] \in Segment /\ r[j] \in Segment /\ b \in Nat
    BY OffsetFacts DEF Covered
  <2>4. /\ q[i].offset \in Nat /\ q[i].end \in Nat
        /\ r[j].offset \in Nat /\ r[j].end \in Nat
    BY <2>3, SegmentFacts, OffsetFacts
  <2>5. Clear(q[i], r[j])
    BY DEF Separate
  <2> QED BY <2>1, <2>2, <2>3, <2>4, <2>5 DEF Clear, Covers
<1>5. /\ IsFiniteSet(Covered(q)) /\ IsFiniteSet(Covered(r))
      /\ Cardinality(Covered(q)) \in Nat /\ Cardinality(Covered(r)) \in Nat
  BY CoveredFacts
<1>6. Cardinality(Covered(q) \cup Covered(r)) = Cardinality(Covered(q)) + Cardinality(Covered(r))
  <2>1. Cardinality(Covered(q) \cup Covered(r))
          = Cardinality(Covered(q)) + Cardinality(Covered(r)) - Cardinality(Covered(q) \cap Covered(r))
    BY <1>5, FS_Union
  <2>2. Cardinality(Covered(q) \cap Covered(r)) = 0
    BY <1>4, FS_EmptySet
  <2> QED BY <1>5, <2>1, <2>2
<1> QED BY <1>1, <1>3, <1>6, ConcatHas DEF Disjoint

\* What push hands to mergeSegments: the segments and pieces together are
\* disjoint, and a piece has a byte only where no segment has one.
Whole(segs, o, p, first, all, bytes) ==
  /\ all \in Seq(Segment) /\ Disjoint(all)
  /\ Covered(all) = Covered(segs) \cup (first .. o + Len(p) - 1)
  /\ Cardinality(Covered(all)) = Cardinality(Covered(segs)) + bytes
  /\ \A b, v : Has(all, b, v) =>
                 Has(segs, b, v) \/ (b \notin Covered(segs) /\ v = p[b - o + 1])
  /\ \A b, v : Has(segs, b, v) => Has(all, b, v)

LEMMA WholeFacts ==
  ASSUME NEW o, NEW p, NEW first, Meets(segments, o, p, first)
  PROVE  Whole(segments, o, p, first, segments \o Filled(o, p, first).pieces,
               Filled(o, p, first).bytes)
<1>1. PICK s : /\ Fills(segments, o, p, first, s) /\ s.cursor >= o + Len(p)
               /\ s.pieces = Filled(o, p, first).pieces
               /\ s.bytes = Filled(o, p, first).bytes
  BY FilledFacts
<1>2. /\ s.pieces \in Seq(Segment) /\ s.cursor \in Nat /\ segments \in Seq(Segment)
      /\ Len(segments) \in Nat /\ Len(s.pieces) \in Nat /\ first \in Nat /\ o + Len(p) \in Nat
      /\ o + Len(p) \in Offset /\ o \in Nat
  BY <1>1, MeetsFacts, OffsetFacts DEF Fills
<1>3. \A j \in 1 .. Len(segments) : /\ segments[j] \in Segment
                                    /\ segments[j].offset \in Nat /\ segments[j].end \in Nat
                                    /\ segments[j].offset < segments[j].end
  BY <1>2, SegmentFacts, OffsetFacts
<1>4. Disjoint(segments)
  <2>1. ASSUME NEW i \in 1 .. Len(segments), NEW j \in 1 .. Len(segments), i # j
        PROVE  Clear(segments[i], segments[j])
    <3>1. i < j \/ j < i
      BY <1>2, <2>1
    <3>2. \A k \in 1 .. Len(segments), l \in 1 .. Len(segments) :
            k < l => segments[k].end < segments[l].offset
      BY DEF Meets, Apart
    <3> QED BY <1>3, <3>1, <3>2 DEF Clear
  <2> QED BY <2>1 DEF Disjoint
<1>5. PICK all : all = segments \o s.pieces
  OBVIOUS
<1>6. Separate(segments, s.pieces)
  BY <1>1 DEF Fills, Clear, Separate
<1>7. /\ all \in Seq(Segment) /\ Disjoint(all)
      /\ Cardinality(Covered(all)) = Cardinality(Covered(segments)) + s.bytes
  <2>1. Disjoint(s.pieces) /\ s.bytes = Cardinality(Covered(s.pieces))
    BY <1>1 DEF Fills
  <2> QED BY <1>2, <1>4, <1>5, <1>6, <2>1, ConcatFacts, ConcatDisjoint
<1>8. /\ Covered(all) = Covered(segments) \cup Covered(s.pieces)
      /\ \A b, v : Has(all, b, v) <=> Has(segments, b, v) \/ Has(s.pieces, b, v)
  BY <1>2, <1>5, ConcatHas
<1>9. ASSUME NEW b, NEW k \in 1 .. Len(s.pieces), Covers(s.pieces[k], b), b \in Nat
      PROVE  /\ b \notin Covered(segments) /\ b \in first .. o + Len(p) - 1
             /\ s.pieces[k].data[b] = p[b - o + 1]
  <2>1. /\ first <= s.pieces[k].offset /\ s.pieces[k].end <= o + Len(p)
        /\ s.pieces[k] = Piece(o, p, s.pieces[k].offset, s.pieces[k].end)
        /\ \A j \in 1 .. Len(segments) : Clear(s.pieces[k], segments[j])
    BY <1>1 DEF Fills
  <2>2. s.pieces[k] \in Segment
    BY <1>2
  <2>3. s.pieces[k].offset \in Nat /\ s.pieces[k].end \in Nat
    BY <2>2, SegmentFacts, OffsetFacts
  <2>4. s.pieces[k].offset <= b /\ b < s.pieces[k].end
    BY <1>9 DEF Covers
  <2>5. \A j \in 1 .. Len(segments) : ~Covers(segments[j], b)
    BY SMTT(30), <1>3, <1>9, <2>1, <2>3, <2>4 DEF Clear, Covers
  <2>6. s.pieces[k].data[b] = p[b - o + 1]
    <3>1. PICK from, to, piece : /\ from = s.pieces[k].offset /\ to = s.pieces[k].end
                                 /\ piece = s.pieces[k]
      OBVIOUS
    <3>2. piece = Piece(o, p, from, to)
      BY <2>1, <3>1
    <3>3. piece.data = [x \in from .. to - 1 |-> p[x - o + 1]]
      BY <3>2 DEF Piece
    <3>4. b \in from .. to - 1
      BY <1>9, <2>3, <2>4, <3>1
    <3> QED BY <3>1, <3>3, <3>4
  <2>7. b \in first .. o + Len(p) - 1
    BY SMTT(30), <1>2, <1>9, <2>1, <2>3, <2>4
  <2>8. b \notin Covered(segments)
    BY <2>5 DEF Covered
  <2> QED BY <2>6, <2>7, <2>8
<1>10. Covered(all) = Covered(segments) \cup (first .. o + Len(p) - 1)
  <2>1. \A b \in Covered(s.pieces) : b \in first .. o + Len(p) - 1
    <3> SUFFICES ASSUME NEW b \in Covered(s.pieces) PROVE b \in first .. o + Len(p) - 1
      OBVIOUS
    <3>1. b \in Nat /\ \E k \in 1 .. Len(s.pieces) : Covers(s.pieces[k], b)
      BY OffsetFacts DEF Covered
    <3> QED BY <1>9, <3>1
  <2>2. \A b \in first .. o + Len(p) - 1 : b < s.cursor
    BY <1>1, <1>2
  <2>3. \A b \in first .. o + Len(p) - 1 : b \in Covered(segments) \cup Covered(s.pieces)
    BY <1>1, <2>2 DEF Fills
  <2> QED BY <1>8, <2>1, <2>3
<1>11. ASSUME NEW b, NEW v, Has(s.pieces, b, v)
       PROVE  b \notin Covered(segments) /\ v = p[b - o + 1]
  <2>1. b \in Nat /\ \E k \in 1 .. Len(s.pieces) : Covers(s.pieces[k], b) /\ s.pieces[k].data[b] = v
    BY <1>11, OffsetFacts DEF Has
  <2>2. PICK k \in 1 .. Len(s.pieces) : Covers(s.pieces[k], b) /\ s.pieces[k].data[b] = v
    BY <2>1
  <2> QED BY <1>9, <2>1, <2>2
<1>12. Whole(segments, o, p, first, all, s.bytes)
  BY <1>7, <1>8, <1>10, <1>11 DEF Whole
<1> QED BY <1>1, <1>5, <1>12
-----------------------------------------------------------------------------
(* The sort of mergeSegments.                                              *)

LEMMA SortedFacts ==
  ASSUME NEW all \in Seq(Segment), Disjoint(all), NEW sorted \in Sortings(all)
  PROVE  /\ sorted \in Seq(Segment) /\ Len(sorted) = Len(all)
         /\ \A i \in 2 .. Len(sorted) : sorted[i - 1].end <= sorted[i].offset
         /\ \A b, v : Has(sorted, b, v) <=> Has(all, b, v)
<1> DEFINE n == Len(all)
<1>1. n \in Nat /\ \A i \in 1 .. n : all[i] \in Segment
  OBVIOUS
<1>2. PICK order \in Bijection(1 .. n, 1 .. n) :
         /\ sorted = [i \in 1 .. n |-> all[order[i]]]
         /\ \A i \in 2 .. n : sorted[i - 1].offset <= sorted[i].offset
  BY DEF Sortings
<1>3. order \in [1 .. n -> 1 .. n] /\ \A w \in 1 .. n : \E v \in 1 .. n : order[v] = w
  BY <1>2 DEF Bijection, Surjection
<1>4. ASSUME NEW i \in 1 .. n, NEW j \in 1 .. n, order[i] = order[j]
      PROVE  i = j
  <2>1. order \in Injection(1 .. n, 1 .. n)
    BY <1>2 DEF Bijection
  <2>2. \A v \in 1 .. n, w \in 1 .. n : order[v] = order[w] => v = w
    BY <2>1 DEF Injection, IsInjective
  <2> QED BY <1>4, <2>2
<1>5. \A i \in 1 .. n : order[i] \in 1 .. n /\ sorted[i] = all[order[i]]
  BY <1>2, <1>3
<1>6. sorted \in Seq(Segment) /\ Len(sorted) = n
  <2>1. sorted \in [1 .. n -> Segment]
    BY <1>1, <1>2, <1>3
  <2> QED BY <1>1, <2>1
<1>7. ASSUME NEW i \in 2 .. n
      PROVE  sorted[i - 1].end <= sorted[i].offset
  <2>1. i - 1 \in 1 .. n /\ i \in 1 .. n /\ i - 1 # i
    BY <1>1
  <2>2. Clear(sorted[i - 1], sorted[i])
    BY SMTT(30), <1>4, <1>5, <2>1 DEF Disjoint
  <2>3. sorted[i - 1] \in Segment /\ sorted[i] \in Segment
    BY <1>1, <1>5, <2>1
  <2>4. /\ sorted[i - 1].offset \in Nat /\ sorted[i - 1].end \in Nat
        /\ sorted[i].offset \in Nat /\ sorted[i].end \in Nat
        /\ sorted[i].offset < sorted[i].end
    BY <2>3, SegmentFacts, OffsetFacts
  <2>5. sorted[i - 1].offset <= sorted[i].offset
    BY <1>2
  <2> QED BY <2>2, <2>4, <2>5 DEF Clear
<1>8. ASSUME NEW b, NEW v
      PROVE  Has(sorted, b, v) <=> Has(all, b, v)
  <2>1. ASSUME Has(all, b, v)
        PROVE  Has(sorted, b, v)
    <3>1. PICK j \in 1 .. n : Covers(all[j], b) /\ all[j].data[b] = v /\ b \in Offset
      BY <2>1 DEF Has
    <3>2. PICK i \in 1 .. n : order[i] = j
      BY <1>3
    <3> QED BY <1>5, <1>6, <3>1, <3>2 DEF Has
  <2>2. ASSUME Has(sorted, b, v)
        PROVE  Has(all, b, v)
    BY <1>5, <1>6, <2>2 DEF Has
  <2> QED BY <2>1, <2>2
<1> QED BY <1>6, <1>7, <1>8

\* What is covered is what has a byte.
LEMMA HasCovered ==
  ASSUME NEW q \in Seq(Segment), NEW b
  PROVE  b \in Covered(q) <=> \E v : Has(q, b, v)
BY DEF Covered, Has

LEMMA SameCovered ==
  ASSUME NEW q \in Seq(Segment), NEW r \in Seq(Segment),
         \A b, v : Has(q, b, v) <=> Has(r, b, v)
  PROVE  Covered(q) = Covered(r)
BY HasCovered
-----------------------------------------------------------------------------
(* The loop of mergeSegments.                                              *)

\* After the first i sorted segments: no panic, the segments are apart, end
\* where segment i ends, and have the bytes of those i.
Merged(sorted, i, m) ==
  /\ m.segs \in Seq(Segment) /\ m.panics = FALSE
  /\ m = [segs |-> m.segs, panics |-> m.panics]
  /\ Apart(m.segs)
  /\ i = 0 => m.segs = <<>>
  /\ i # 0 => m.segs # <<>> /\ m.segs[Len(m.segs)].end = sorted[i].end
  /\ \A b, v : Has(m.segs, b, v) <=>
                 /\ b \in Offset
                 /\ \E j \in 1 .. i : Covers(sorted[j], b) /\ sorted[j].data[b] = v

\* The end of the last segment grows.
LEMMA JoinedFacts ==
  ASSUME NEW s \in Segment, NEW t \in Segment, s.end = t.offset
  PROVE  /\ Joined(s, t) \in Segment
         /\ Joined(s, t).offset = s.offset /\ Joined(s, t).end = t.end
         /\ \A b \in Offset : /\ Covers(Joined(s, t), b) <=> Covers(s, b) \/ Covers(t, b)
                              /\ Covers(s, b) => Joined(s, t).data[b] = s.data[b]
                              /\ Covers(t, b) => Joined(s, t).data[b] = t.data[b]
<1>1. /\ s.offset \in Offset /\ s.end \in Offset /\ s.offset < s.end
      /\ t.offset \in Offset /\ t.end \in Offset /\ t.offset < t.end
      /\ s.data \in [s.offset .. s.end - 1 -> Byte]
      /\ t.data \in [t.offset .. t.end - 1 -> Byte]
  BY SegmentFacts
<1>2. /\ s.offset \in Nat /\ s.end \in Nat /\ t.offset \in Nat /\ t.end \in Nat
  BY <1>1, OffsetFacts
<1> DEFINE data == [x \in s.offset .. t.end - 1 |-> IF x < s.end THEN s.data[x] ELSE t.data[x]]
<1>3. ASSUME NEW x \in s.offset .. t.end - 1
      PROVE  (IF x < s.end THEN s.data[x] ELSE t.data[x]) \in Byte
  <2>1. CASE x < s.end
    BY SMTT(30), <1>1, <1>2, <2>1
  <2>2. CASE ~(x < s.end)
    <3>1. x \in t.offset .. t.end - 1
      BY <1>2, <2>2
    <3> QED BY <1>1, <2>2, <3>1
  <2> QED BY <2>1, <2>2
<1>4. data \in [s.offset .. t.end - 1 -> Byte]
  BY <1>3
<1>5. s.offset < t.end
  BY <1>1, <1>2
<1>6. Joined(s, t) = [offset |-> s.offset, end |-> t.end, data |-> data]
  BY DEF Joined
<1>7. ASSUME NEW b \in Offset
      PROVE  /\ Covers(s, b) \/ Covers(t, b) <=> s.offset <= b /\ b < t.end
             /\ Covers(s, b) => data[b] = s.data[b]
             /\ Covers(t, b) => data[b] = t.data[b]
  <2>1. b \in Nat
    BY OffsetFacts
  <2>2. Covers(s, b) \/ Covers(t, b) <=> s.offset <= b /\ b < t.end
    BY <1>1, <1>2, <2>1 DEF Covers
  <2>3. Covers(s, b) => data[b] = s.data[b]
    BY <1>1, <1>2, <2>1 DEF Covers
  <2>4. Covers(t, b) => data[b] = t.data[b]
    BY <1>1, <1>2, <2>1 DEF Covers
  <2> QED BY <2>2, <2>3, <2>4
<1> HIDE DEF data
<1>8. Joined(s, t) \in Segment
  BY <1>1, <1>4, <1>5, <1>6, SegmentMade
<1>9. /\ Joined(s, t).offset = s.offset /\ Joined(s, t).end = t.end /\ Joined(s, t).data = data
  BY <1>6
<1> QED BY <1>7, <1>8, <1>9 DEF Covers

\* Segments q are apart, end with seg and have the bytes of segs and of seg.
Grown(segs, seg, q) ==
  /\ q \in Seq(Segment) /\ Apart(q) /\ q # <<>> /\ q[Len(q)].end = seg.end
  /\ \A b, v : Has(q, b, v) <=>
                 Has(segs, b, v) \/ (b \in Offset /\ Covers(seg, b) /\ seg.data[b] = v)

LEMMA JoinStep ==
  ASSUME NEW sorted \in Seq(Segment), NEW i \in 1 .. Len(sorted), NEW m,
         Merged(sorted, i - 1, m), i # 1 => sorted[i - 1].end <= sorted[i].offset
  PROVE  Merged(sorted, i, Join(m, sorted[i]))
<1> DEFINE seg == sorted[i]
           n == Len(m.segs)
           last == m.segs[n]
           r == Join(m, seg)
<1> SUFFICES Merged(sorted, i, r)
  OBVIOUS
<1>1. /\ i \in Nat /\ i # 0 /\ seg \in Segment /\ m.segs \in Seq(Segment) /\ n \in Nat
      /\ m.panics = FALSE /\ m = [segs |-> m.segs, panics |-> m.panics]
  BY DEF Merged
<1>2. seg.offset \in Nat /\ seg.end \in Nat /\ seg.offset < seg.end
  BY <1>1, SegmentFacts, OffsetFacts
<1>3. \A k \in 1 .. n : /\ m.segs[k] \in Segment
                        /\ m.segs[k].offset \in Nat /\ m.segs[k].end \in Nat
                        /\ m.segs[k].offset < m.segs[k].end
  BY SMTT(30), <1>1, SegmentFacts, OffsetFacts
<1>4. \A k \in 1 .. n, l \in 1 .. n : k < l => m.segs[k].end < m.segs[l].offset
  BY DEF Merged, Apart
<1>5. ASSUME NEW b, NEW v
      PROVE  (/\ b \in Offset
              /\ \E j \in 1 .. i : Covers(sorted[j], b) /\ sorted[j].data[b] = v)
               <=> Has(m.segs, b, v) \/ (b \in Offset /\ Covers(seg, b) /\ seg.data[b] = v)
  <2>1. \A j : j \in 1 .. i <=> j \in 1 .. i - 1 \/ j = i
    BY <1>1
  <2>2. Has(m.segs, b, v) <=> /\ b \in Offset
                              /\ \E j \in 1 .. i - 1 : Covers(sorted[j], b) /\ sorted[j].data[b] = v
    BY DEF Merged
  <2> QED BY <2>1, <2>2
<1>6. ASSUME NEW q, Grown(m.segs, seg, q), r = [segs |-> q, panics |-> FALSE]
      PROVE  Merged(sorted, i, r)
  <2> HIDE DEF r, seg
  <2>1. r.segs = q /\ r.panics = FALSE
    BY <1>6
  <2>2. /\ q \in Seq(Segment) /\ Apart(q) /\ q # <<>> /\ q[Len(q)].end = seg.end
        /\ \A b, v : Has(q, b, v) <=>
                       Has(m.segs, b, v) \/ (b \in Offset /\ Covers(seg, b) /\ seg.data[b] = v)
    BY <1>6 DEF Grown
  <2>3. \A b, v : Has(q, b, v) <=>
                    /\ b \in Offset
                    /\ \E j \in 1 .. i : Covers(sorted[j], b) /\ sorted[j].data[b] = v
    BY <1>5, <2>2
  <2> QED BY <1>1, <1>6, <2>1, <2>2, <2>3 DEF Merged, seg
<1>7. CASE n = 0
  <2>1. m.segs = <<>>
    BY <1>1, <1>7
  <2>2. r = [segs |-> <<seg>>, panics |-> FALSE]
    BY <1>7 DEF Join
  <2>3. /\ <<seg>> \in Seq(Segment) /\ Len(<<seg>>) = 1 /\ <<seg>>[1] = seg /\ <<seg>> # <<>>
        /\ Apart(<<seg>>)
    BY <1>1 DEF Apart
  <2>4. ASSUME NEW b, NEW v
        PROVE  Has(<<seg>>, b, v) <=>
                 Has(m.segs, b, v) \/ (b \in Offset /\ Covers(seg, b) /\ seg.data[b] = v)
    <3>1. ~Has(m.segs, b, v)
      BY <1>7 DEF Has
    <3>2. \A k : k \in 1 .. 1 <=> k = 1
      OBVIOUS
    <3> HIDE DEF seg
    <3> QED BY <2>3, <3>1, <3>2 DEF Has
  <2> HIDE DEF seg, r
  <2>5. Grown(m.segs, seg, <<seg>>)
    BY <2>3, <2>4 DEF Grown
  <2> QED BY <1>6, <2>2, <2>5
<1>8. CASE n # 0
  <2>1. n \in 1 .. n /\ last \in Segment /\ last.end \in Nat /\ last.offset \in Nat
        /\ last.offset < last.end
    BY <1>1, <1>3, <1>8
  <2>2. last.end <= seg.offset
    <3>1. i # 1
      BY <1>1, <1>8 DEF Merged
    <3>2. i - 1 # 0 /\ last.end = sorted[i - 1].end
      BY <1>1, <3>1 DEF Merged
    <3> QED BY <3>1, <3>2
  <2>3. CASE last.end = seg.offset
    <3> DEFINE x == Joined(last, seg)
               q == [m.segs EXCEPT ![n] = x]
    <3>1. /\ x \in Segment /\ x.offset = last.offset /\ x.end = seg.end
          /\ \A b \in Offset : /\ Covers(x, b) <=> Covers(last, b) \/ Covers(seg, b)
                               /\ Covers(last, b) => x.data[b] = last.data[b]
                               /\ Covers(seg, b) => x.data[b] = seg.data[b]
      <4> HIDE DEF seg, last
      <4> QED BY <1>1, <2>1, <2>3, JoinedFacts
    <3> HIDE DEF x
    <3>2. /\ q \in Seq(Segment) /\ Len(q) = n /\ q[n] = x /\ q # <<>>
          /\ \A k \in 1 .. n : k # n => q[k] = m.segs[k]
      BY <1>1, <1>8, <2>1, <3>1
    <3>3. r = [segs |-> q, panics |-> FALSE]
      <4> HIDE DEF n, seg, last
      <4> QED BY <1>1, <1>8, <2>3 DEF Join, x, n, last
    <3> HIDE DEF q, r
    <3>4. Apart(q)
      <4>1. ASSUME NEW k \in 1 .. n, NEW l \in 1 .. n, k < l
            PROVE  q[k].end < q[l].offset
        <5>1. q[k] = m.segs[k]
          BY <1>1, <3>2, <4>1
        <5>2. q[l].offset = m.segs[l].offset
          BY <3>1, <3>2
        <5> QED BY <1>4, <4>1, <5>1, <5>2
      <4> HIDE DEF n
      <4> QED BY <3>2, <4>1 DEF Apart
    <3>5. ASSUME NEW b, NEW v
          PROVE  Has(q, b, v) <=>
                   Has(m.segs, b, v) \/ (b \in Offset /\ Covers(seg, b) /\ seg.data[b] = v)
      <4>1. CASE b \in Offset
        <5>1. Covers(x, b) /\ x.data[b] = v <=>
                (Covers(last, b) /\ last.data[b] = v) \/ (Covers(seg, b) /\ seg.data[b] = v)
          BY <3>1, <4>1
        <5>2. Has(q, b, v) <=> \/ \E k \in 1 .. n : k # n /\ Covers(m.segs[k], b) /\ m.segs[k].data[b] = v
                               \/ Covers(x, b) /\ x.data[b] = v
          <6> HIDE DEF n
          <6> QED BY <2>1, <3>2, <4>1 DEF Has
        <5>3. Has(m.segs, b, v) <=>
                \/ \E k \in 1 .. n : k # n /\ Covers(m.segs[k], b) /\ m.segs[k].data[b] = v
                \/ Covers(last, b) /\ last.data[b] = v
          BY <2>1, <4>1 DEF Has
        <5> QED BY <4>1, <5>1, <5>2, <5>3
      <4>2. CASE b \notin Offset
        BY <4>2 DEF Has
      <4> QED BY <4>1, <4>2
    <3>6. q[Len(q)].end = seg.end
      BY <3>1, <3>2
    <3> HIDE DEF seg, n, last
    <3>7. Grown(m.segs, seg, q)
      BY <3>2, <3>4, <3>5, <3>6 DEF Grown
    <3> QED BY <1>6, <3>3, <3>7
  <2>4. CASE last.end < seg.offset
    <3> DEFINE q == Append(m.segs, seg)
    <3>1. /\ q \in Seq(Segment) /\ Len(q) = n + 1 /\ q[n + 1] = seg /\ q # <<>>
          /\ \A k \in 1 .. n : q[k] = m.segs[k]
      BY <1>1
    <3>2. r = [segs |-> q, panics |-> FALSE]
      <4>1. last.end # seg.offset /\ ~(last.end > seg.offset)
        BY <1>2, <2>1, <2>4
      <4> HIDE DEF seg
      <4> QED BY <1>1, <1>8, <4>1 DEF Join
    <3> HIDE DEF q, r
    <3>3. Apart(q)
      <4>1. ASSUME NEW k \in 1 .. n + 1, NEW l \in 1 .. n + 1, k < l
            PROVE  q[k].end < q[l].offset
        <5>1. k \in 1 .. n
          BY <1>1, <4>1
        <5>2. CASE l \in 1 .. n
          BY <1>4, <3>1, <4>1, <5>1, <5>2
        <5>3. CASE l = n + 1
          <6>1. m.segs[k].end <= last.end
            <7>1. CASE k = n
              BY <2>1, <7>1
            <7>2. CASE k # n
              <8>1. k < n
                BY <1>1, <5>1, <7>2
              <8>2. m.segs[k].end < last.offset
                BY <1>4, <2>1, <5>1, <8>1
              <8> QED BY SMTT(30), <1>3, <2>1, <5>1, <8>2
            <7> QED BY <7>1, <7>2
          <6>2. m.segs[k].end \in Nat /\ q[k] = m.segs[k] /\ q[l] = seg
            BY <1>3, <3>1, <5>1, <5>3
          <6> HIDE DEF seg, last
          <6> QED BY SMTT(30), <1>2, <2>1, <2>4, <6>1, <6>2
        <5> QED BY <1>1, <5>2, <5>3
      <4> HIDE DEF n
      <4> QED BY <3>1, <4>1 DEF Apart
    <3>4. ASSUME NEW b, NEW v
          PROVE  Has(q, b, v) <=>
                   Has(m.segs, b, v) \/ (b \in Offset /\ Covers(seg, b) /\ seg.data[b] = v)
      <4>1. \A k : k \in 1 .. n + 1 <=> k \in 1 .. n \/ k = n + 1
        BY <1>1
      <4> HIDE DEF seg
      <4> QED BY <3>1, <4>1 DEF Has
    <3>5. q[Len(q)].end = seg.end
      BY <3>1
    <3> HIDE DEF seg, n, last
    <3>6. Grown(m.segs, seg, q)
      BY <3>1, <3>3, <3>4, <3>5 DEF Grown
    <3> QED BY <1>6, <3>2, <3>6
  <2> QED BY <1>2, <2>1, <2>2, <2>3, <2>4
<1> QED BY <1>7, <1>8

InOrder(sorted) == \A i \in 2 .. Len(sorted) : sorted[i - 1].end <= sorted[i].offset

LEMMA MergeFacts ==
  ASSUME NEW sorted \in Seq(Segment), InOrder(sorted)
  PROVE  Merged(sorted, Len(sorted), Merge(sorted))
<1> DEFINE n == Len(sorted)
           State == [segs : Seq(Segment), panics : {FALSE}]
           T == [i \in 0 .. n |-> {m \in State : Merged(sorted, i, m)}]
           a == [segs |-> <<>>, panics |-> FALSE]
           g == [i \in 1 .. n |-> [m \in State |-> Join(m, sorted[i])]]
           Body(f) == [i \in 0 .. n |-> IF i = 0 THEN a ELSE Join(f[i - 1], sorted[i])]
<1>1. n \in Nat
  OBVIOUS
<1>2. a \in T[0]
  <2>1. a \in State /\ a.segs = <<>> /\ a.panics = FALSE /\ a = [segs |-> a.segs, panics |-> a.panics]
    OBVIOUS
  <2>2. 1 .. Len(a.segs) = {} /\ 1 .. 0 = {}
    BY <2>1
  <2>3. Merged(sorted, 0, a)
    <3> HIDE DEF a
    <3>1. a.segs \in Seq(Segment) /\ Apart(a.segs)
      BY <2>1, <2>2 DEF Apart
    <3>2. \A b, v : ~Has(a.segs, b, v)
      BY <2>2 DEF Has
    <3> QED BY <2>1, <2>2, <3>1, <3>2 DEF Merged
  <2> QED BY <1>1, <2>1, <2>3
<1>3. ASSUME NEW m, NEW i, Merged(sorted, i, m)
      PROVE  m \in State
  <2>1. m.segs \in Seq(Segment) /\ m.panics = FALSE /\ m = [segs |-> m.segs, panics |-> m.panics]
    BY <1>3 DEF Merged
  <2>2. PICK q, x : q = m.segs /\ x = m.panics
    OBVIOUS
  <2>3. m = [segs |-> q, panics |-> x] /\ q \in Seq(Segment) /\ x \in {FALSE}
    BY <2>1, <2>2
  <2> QED BY <2>3
<1>4. ASSUME NEW i \in 1 .. n, NEW m \in T[i - 1]
      PROVE  /\ g[i][m] = Join(m, sorted[i])
             /\ Join(m, sorted[i]) \in T[i]
  <2>1. i - 1 \in 0 .. n /\ i \in 0 .. n /\ (i # 1 => i \in 2 .. n)
    BY <1>1
  <2>2. m \in State /\ Merged(sorted, i - 1, m)
    BY <2>1
  <2>3. Merged(sorted, i, Join(m, sorted[i]))
    BY <2>1, <2>2, JoinStep DEF InOrder
  <2>4. Join(m, sorted[i]) \in T[i]
    <3> HIDE DEF State
    <3> QED BY <1>3, <2>1, <2>3
  <2> QED BY <2>2, <2>4
<1> HIDE DEF g, T
<1>5. PICK e : Running(n, a, g, e)
  <2>1. Stepping(n, T, g)
    BY <1>4 DEF Stepping
  <2> HIDE DEF a, n
  <2> QED BY <1>1, <1>2, <2>1, LoopExists
<1>6. PICK f : f = [i \in 0 .. n |-> e[i]] /\ \A i \in 0 .. n : e[i] \in T[i]
  <2>1. e[0] \in T[0]
    BY <1>1, <1>2, <1>5 DEF Running
  <2>2. \A i \in 1 .. n : e[i - 1] \in T[i - 1] => e[i] \in T[i]
    <3> HIDE DEF n
    <3> QED BY ZenonT(30), <1>1, <1>4, <1>5 DEF Running
  <2> QED BY <1>1, <2>1, <2>2, LoopInvariant
<1>7. f = Body(f)
  <2> HIDE DEF n
  <2>1. ASSUME NEW i \in 0 .. n, i # 0
        PROVE  f[i] = Join(f[i - 1], sorted[i])
    <3>1. i \in 1 .. n /\ i - 1 \in 0 .. n
      BY <1>1, <2>1
    <3>2. f[i] = g[i][e[i - 1]] /\ e[i - 1] \in T[i - 1] /\ f[i - 1] = e[i - 1]
      BY <1>5, <1>6, <3>1 DEF Running
    <3> QED BY <1>4, <3>1, <3>2
  <2>2. f[0] = a /\ DOMAIN f = 0 .. n
    BY <1>1, <1>5, <1>6 DEF Running
  <2> HIDE DEF a
  <2> QED BY <1>6, <2>1, <2>2
<1>8. Joins(sorted) = CHOOSE h : h = Body(h)
  BY DEF Joins
<1> HIDE DEF Body
<1>9. PICK h : h = Joins(sorted) /\ h = Body(h)
  BY <1>7, <1>8
<1>10. \A i \in 0 .. n : h[i] \in T[i]
  <2>1. \A i \in 0 .. n : h[i] = IF i = 0 THEN a ELSE Join(h[i - 1], sorted[i])
    <3> HIDE DEF a, n
    <3> QED BY <1>9 DEF Body
  <2>2. h[0] \in T[0]
    BY <1>1, <1>2, <2>1
  <2>3. ASSUME NEW i \in 1 .. n, h[i - 1] \in T[i - 1]
        PROVE  h[i] \in T[i]
    <3>1. i \in 0 .. n /\ i # 0
      BY <1>1
    <3> HIDE DEF n
    <3> QED BY <1>4, <2>1, <2>3, <3>1
  <2> QED BY <1>1, <2>2, <2>3, LoopInvariant
<1>11. h[n] \in T[n] /\ n \in 0 .. n
  BY <1>1, <1>10
<1>12. Merge(sorted) = h[n]
  BY <1>9 DEF Merge
<1> QED BY <1>11, <1>12 DEF T
-----------------------------------------------------------------------------
(* SegmentsInv in terms of the offsets covered.                            *)

\* What push leaves in place of the segments.
LEMMA InsertFacts ==
  ASSUME NEW o, NEW p, NEW first, Meets(segments, o, p, first),
         NEW sorted \in Sortings(segments \o Filled(o, p, first).pieces)
  PROVE  /\ Merge(sorted).panics = FALSE /\ Apart(Merge(sorted).segs)
         /\ Whole(segments, o, p, first, Merge(sorted).segs, Filled(o, p, first).bytes)
<1>1. PICK all, bytes : /\ all = segments \o Filled(o, p, first).pieces
                        /\ bytes = Filled(o, p, first).bytes
  OBVIOUS
<1>2. Whole(segments, o, p, first, all, bytes)
  BY <1>1, WholeFacts
<1>3. /\ all \in Seq(Segment) /\ Disjoint(all) /\ sorted \in Sortings(all)
  BY <1>1, <1>2 DEF Whole
<1>4. /\ sorted \in Seq(Segment) /\ InOrder(sorted)
      /\ \A b, v : Has(sorted, b, v) <=> Has(all, b, v)
  BY <1>3, SortedFacts DEF InOrder
<1>5. PICK m : m = Merge(sorted) /\ Merged(sorted, Len(sorted), m)
  BY <1>4, MergeFacts
<1>6. /\ m.panics = FALSE /\ Apart(m.segs) /\ m.segs \in Seq(Segment)
      /\ \A b, v : Has(m.segs, b, v) <=> Has(sorted, b, v)
  BY <1>5 DEF Merged, Has
<1>7. \A b, v : Has(m.segs, b, v) <=> Has(all, b, v)
  BY <1>4, <1>6
<1>8. Covered(m.segs) = Covered(all)
  BY <1>3, <1>6, <1>7, SameCovered
<1>9. Disjoint(m.segs)
  <2>1. ASSUME NEW i \in 1 .. Len(m.segs), NEW j \in 1 .. Len(m.segs), i # j
        PROVE  Clear(m.segs[i], m.segs[j])
    <3>1. m.segs[i] \in Segment /\ m.segs[j] \in Segment /\ Len(m.segs) \in Nat
      BY <1>6
    <3>2. /\ m.segs[i].offset \in Nat /\ m.segs[i].end \in Nat
          /\ m.segs[j].offset \in Nat /\ m.segs[j].end \in Nat
      BY <3>1, SegmentFacts, OffsetFacts
    <3>3. i < j \/ j < i
      BY <2>1, <3>1
    <3>4. /\ i < j => m.segs[i].end < m.segs[j].offset
          /\ j < i => m.segs[j].end < m.segs[i].offset
      BY <1>6 DEF Apart
    <3> QED BY <3>2, <3>3, <3>4 DEF Clear
  <2> QED BY <2>1 DEF Disjoint
<1>10. Whole(segments, o, p, first, m.segs, bytes)
  BY <1>2, <1>6, <1>7, <1>8, <1>9 DEF Whole
<1> QED BY <1>1, <1>5, <1>6, <1>10

\* The first offset of a segment and its last are covered.
LEMMA EndsCovered ==
  ASSUME NEW q \in Seq(Segment), NEW i \in 1 .. Len(q)
  PROVE  q[i].offset \in Covered(q) /\ q[i].end - 1 \in Covered(q)
<1>1. q[i] \in Segment
  OBVIOUS
<1>2. /\ q[i].offset \in Offset /\ q[i].end \in Offset /\ q[i].offset < q[i].end
      /\ q[i].offset \in Nat /\ q[i].end \in Nat
  BY <1>1, SegmentFacts, OffsetFacts
<1>3. q[i].end - 1 \in Offset
  BY <1>2, ReassemblerAssumption DEF Offset
<1> QED BY <1>2, <1>3 DEF Covered, Covers

\* The segments are sequences of segments, apart, in the window from next on.
Placed(q, next) ==
  /\ q \in Seq(Segment) /\ Apart(q)
  /\ \A b \in Covered(q) : next <= b /\ b < next + Window

LEMMA PlacedIs ==
  ASSUME NEW q \in Seq(Segment), NEW next \in Offset
  PROVE  (\A b \in Covered(q) : next <= b /\ b < next + Window)
           <=> \A i \in 1 .. Len(q) : q[i].offset >= next /\ q[i].end - next <= Window
<1>1. /\ next \in Nat /\ Window \in Nat
      /\ \A i \in 1 .. Len(q) : q[i] \in Segment
  BY ReassemblerAssumption, OffsetFacts
<1>2. \A i \in 1 .. Len(q) : /\ q[i].offset \in Nat /\ q[i].end \in Nat
                             /\ q[i].offset < q[i].end
  BY <1>1, SegmentFacts, OffsetFacts
<1>3. ASSUME \A b \in Covered(q) : next <= b /\ b < next + Window, NEW i \in 1 .. Len(q)
      PROVE  q[i].offset >= next /\ q[i].end - next <= Window
  <2>1. next <= q[i].offset /\ q[i].end - 1 < next + Window
    BY <1>3, EndsCovered
  <2> QED BY <1>1, <1>2, <2>1
<1>4. ASSUME \A i \in 1 .. Len(q) : q[i].offset >= next /\ q[i].end - next <= Window,
             NEW b \in Covered(q)
      PROVE  next <= b /\ b < next + Window
  <2>1. PICK i \in 1 .. Len(q) : Covers(q[i], b)
    BY DEF Covered
  <2>2. b \in Nat
    BY OffsetFacts DEF Covered
  <2> QED BY <1>1, <1>2, <1>4, <2>1, <2>2 DEF Covers
<1> QED BY <1>3, <1>4

\* The invariant, in those terms.
LEMMA InvIs ==
  SegmentsInv <=> /\ nextOffset \in Offset /\ finOffset \in SUBSET Offset
                  /\ wrote \in Seq(Byte) /\ result # "panic"
                  /\ Placed(segments, nextOffset)
                  /\ buffered = Cardinality(Covered(segments))
<1>1. Kept = Covered(segments)
  BY DEF Kept, Covered
<1>2. segments \in Seq(Segment) => Cardinality(Covered(segments)) \in Nat
  BY CoveredFacts
<1>3. nextOffset \in Offset /\ segments \in Seq(Segment) =>
        ((\A b \in Covered(segments) : nextOffset <= b /\ b < nextOffset + Window)
           <=> \A i \in 1 .. Len(segments) :
                 segments[i].offset >= nextOffset /\ segments[i].end - nextOffset <= Window)
  BY PlacedIs
<1> QED BY <1>1, <1>2, <1>3
        DEF SegmentsInv, SegmentsApart, WindowRespected, TypeOK, Placed, Apart

LEMMA InvIsNext ==
  SegmentsInv' <=> /\ nextOffset' \in Offset /\ finOffset' \in SUBSET Offset
                   /\ wrote' \in Seq(Byte) /\ result' # "panic"
                   /\ Placed(segments', nextOffset')
                   /\ buffered' = Cardinality(Covered(segments'))
<1>1. Kept' = Covered(segments')
  BY DEF Kept, Covered
<1>2. segments' \in Seq(Segment) => Cardinality(Covered(segments')) \in Nat
  BY CoveredFacts
<1>3. nextOffset' \in Offset /\ segments' \in Seq(Segment) =>
        ((\A b \in Covered(segments') : nextOffset' <= b /\ b < nextOffset' + Window)
           <=> \A i \in 1 .. Len(segments') :
                 segments'[i].offset >= nextOffset' /\ segments'[i].end - nextOffset' <= Window)
  BY PlacedIs
<1> QED BY <1>1, <1>2, <1>3
        DEF SegmentsInv, SegmentsApart, WindowRespected, TypeOK, Placed, Apart

LEMMA PayloadFacts ==
  ASSUME NEW p \in Payload
  PROVE  p \in Seq(Byte) /\ Len(p) \in Nat /\ (p = <<>> <=> Len(p) = 0)
<1>1. PICK n \in 0 .. MaxPayload : p \in [1 .. n -> Byte]
  BY DEF Payload
<1> QED BY <1>1, ReassemblerAssumption
-----------------------------------------------------------------------------
(* DrainTo and its failure.                                                *)

\* Segments q are what is left of segs behind offset stop, and everything
\* from next up to stop was there.
Drops(segs, next, stop, q) ==
  /\ stop \in Offset /\ next <= stop
  /\ q \in Seq(Segment) /\ Apart(q)
  /\ \A b : b \in Covered(q) <=> b \in Covered(segs) /\ b >= stop
  /\ \A b, v : Has(q, b, v) => Has(segs, b, v)
  /\ \A b \in next .. stop - 1 : b \in Covered(segs)

TailFacts ==
  \A q \in Seq(Segment) : q # <<>> =>
    /\ SubSeq(q, 2, Len(q)) \in Seq(Segment) /\ Len(SubSeq(q, 2, Len(q))) = Len(q) - 1
    /\ \A i \in 1 .. Len(q) - 1 : SubSeq(q, 2, Len(q))[i] = q[i + 1]

LEMMA Tails == TailFacts
<1>1. ASSUME NEW q \in Seq(Segment), q # <<>>
      PROVE  /\ SubSeq(q, 2, Len(q)) \in Seq(Segment) /\ Len(SubSeq(q, 2, Len(q))) = Len(q) - 1
             /\ \A i \in 1 .. Len(q) - 1 : SubSeq(q, 2, Len(q))[i] = q[i + 1]
  <2>1. /\ Tail(q) \in Seq(Segment) /\ Len(Tail(q)) = Len(q) - 1
        /\ \A i \in 1 .. Len(Tail(q)) : Tail(q)[i] = q[i + 1]
    BY <1>1, HeadTailProperties
  <2>2. Tail(q) = SubSeq(q, 2, Len(q))
    BY <1>1, TailIsSubSeq
  <2> QED BY <2>1, <2>2
<1> QED BY <1>1 DEF TailFacts

\* Nothing is dropped.
LEMMA DropsNothing ==
  ASSUME NEW segs, NEW next \in Offset, Placed(segs, next)
  PROVE  Drops(segs, next, next, segs)
<1>1. next \in Nat
  BY OffsetFacts
<1>2. \A b \in next .. next - 1 : b \in Covered(segs)
  BY <1>1
<1> QED BY <1>1, <1>2 DEF Placed, Drops

\* The first segment is dropped, where it starts at the next offset.
LEMMA DropsFirst ==
  ASSUME NEW segs, NEW next \in Offset, Placed(segs, next), segs # <<>>, segs[1].offset = next
  PROVE  Drops(segs, next, segs[1].end, SubSeq(segs, 2, Len(segs)))
<1>1. /\ segs \in Seq(Segment) /\ Len(segs) \in Nat /\ Len(segs) # 0 /\ 1 \in 1 .. Len(segs)
      /\ segs[1] \in Segment
  BY DEF Placed
<1>2. PICK q : q = SubSeq(segs, 2, Len(segs))
  OBVIOUS
<1>3. /\ q \in Seq(Segment) /\ Len(q) = Len(segs) - 1
      /\ \A i \in 1 .. Len(q) : i + 1 \in 1 .. Len(segs) /\ q[i] = segs[i + 1]
  BY <1>1, <1>2, Tails DEF TailFacts
<1>4. /\ segs[1].offset < segs[1].end /\ segs[1].end \in Offset
      /\ segs[1].end \in Nat /\ next \in Nat
  BY <1>1, SegmentFacts, OffsetFacts
<1>5. \A i \in 1 .. Len(segs), j \in 1 .. Len(segs) : i < j => segs[i].end < segs[j].offset
  BY DEF Placed, Apart
<1>6. Apart(q)
  <2>1. ASSUME NEW i \in 1 .. Len(q), NEW j \in 1 .. Len(q), i < j
        PROVE  q[i].end < q[j].offset
    <3>1. i + 1 < j + 1
      BY <1>1, <1>3, <2>1
    <3> QED BY <1>3, <1>5, <3>1
  <2> QED BY <2>1 DEF Apart
<1>7. ASSUME NEW b \in Offset, NEW i \in 1 .. Len(segs), Covers(segs[i], b), b >= segs[1].end
      PROVE  i - 1 \in 1 .. Len(q) /\ q[i - 1] = segs[i]
  <2>1. i # 1
    BY <1>4, <1>7, OffsetFacts DEF Covers
  <2> QED BY <1>1, <1>3, <2>1
<1>8. ASSUME NEW b \in Offset, NEW i \in 1 .. Len(q), Covers(q[i], b)
      PROVE  b >= segs[1].end
  <2>1. q[i] = segs[i + 1] /\ i + 1 \in 1 .. Len(segs) /\ segs[i + 1] \in Segment
    BY <1>1, <1>3
  <2>2. segs[1].end < segs[i + 1].offset
    BY <1>1, <1>5, <2>1
  <2>3. b \in Nat /\ segs[i + 1].offset \in Nat /\ segs[i + 1].offset <= b
    BY <1>8, <2>1, SegmentFacts, OffsetFacts DEF Covers
  <2> QED BY <1>4, <2>2, <2>3
<1>9. \A b : b \in Covered(q) <=> b \in Covered(segs) /\ b >= segs[1].end
  <2>1. ASSUME NEW b \in Offset
        PROVE  (\E i \in 1 .. Len(q) : Covers(q[i], b))
                 <=> (\E i \in 1 .. Len(segs) : Covers(segs[i], b)) /\ b >= segs[1].end
    BY <1>3, <1>7, <1>8
  <2> QED BY <2>1 DEF Covered
<1>10. \A b, v : Has(q, b, v) => Has(segs, b, v)
  BY <1>3 DEF Has
<1>11. \A b \in next .. segs[1].end - 1 : b \in Covered(segs)
  <2> SUFFICES ASSUME NEW b \in next .. segs[1].end - 1 PROVE b \in Covered(segs)
    OBVIOUS
  <2>1. b \in Offset
    BY <1>4, ReassemblerAssumption DEF Offset
  <2>2. Covers(segs[1], b)
    BY <1>4 DEF Covers
  <2> QED BY <1>1, <2>1, <2>2 DEF Covered
<1> QED BY <1>2, <1>3, <1>4, <1>6, <1>9, <1>10, <1>11 DEF Drops

Rest(seg, stop) ==
  [offset |-> stop, end |-> seg.end, data |-> [b \in stop .. seg.end - 1 |-> seg.data[b]]]

LEMMA RestFacts ==
  ASSUME NEW seg \in Segment, NEW stop \in seg.offset .. seg.end - 1
  PROVE  /\ Rest(seg, stop) \in Segment /\ stop \in Offset
         /\ Rest(seg, stop).offset = stop /\ Rest(seg, stop).end = seg.end
         /\ \A b \in stop .. seg.end - 1 : Rest(seg, stop).data[b] = seg.data[b]
<1>1. PICK from, to, data : /\ seg = [offset |-> from, end |-> to, data |-> data]
                            /\ from \in Offset /\ to \in Offset /\ from < to
                            /\ data \in [from .. to - 1 -> Byte]
  BY SegmentFacts
<1>2. /\ seg.offset = from /\ seg.end = to /\ seg.data = data
      /\ from \in Nat /\ to \in Nat
  BY <1>1, OffsetFacts
<1>3. PICK part : part = [b \in stop .. to - 1 |-> data[b]]
  OBVIOUS
<1>4. stop \in Offset /\ stop < to /\ part \in [stop .. to - 1 -> Byte]
  <2>1. stop \in from .. to - 1
    BY <1>2
  <2>2. stop \in Nat /\ from <= stop /\ stop < to
    BY <1>2, <2>1
  <2>3. stop \in Offset
    BY <1>1, <2>2, ReassemblerAssumption DEF Offset
  <2>4. \A b \in stop .. to - 1 : data[b] \in Byte
    BY <1>1, <1>2, <2>2
  <2> QED BY <1>3, <2>2, <2>3, <2>4
<1>5. Rest(seg, stop) = [offset |-> stop, end |-> to, data |-> part]
  BY <1>1, <1>2, <1>3 DEF Rest
<1>6. Rest(seg, stop) \in Segment
  BY <1>1, <1>4, <1>5, SegmentMade
<1>7. \A b \in stop .. to - 1 : part[b] = data[b]
  BY <1>3
<1> QED BY <1>2, <1>4, <1>5, <1>6, <1>7

\* The first part of the first segment is dropped.
LEMMA DropsPart ==
  ASSUME NEW segs, NEW next \in Offset, Placed(segs, next), segs # <<>>, segs[1].offset = next,
         NEW stop \in segs[1].offset .. segs[1].end - 1
  PROVE  Drops(segs, next, stop, <<Rest(segs[1], stop)>> \o SubSeq(segs, 2, Len(segs)))
<1> DEFINE seg == segs[1]
           rest == Rest(segs[1], stop)
           tail == SubSeq(segs, 2, Len(segs))
<1>1. /\ segs \in Seq(Segment) /\ Len(segs) \in Nat /\ Len(segs) # 0 /\ 1 \in 1 .. Len(segs)
      /\ seg \in Segment
  BY DEF Placed
<1>2. /\ seg.offset < seg.end /\ seg.end \in Nat /\ next \in Nat /\ stop \in Nat
      /\ next <= stop /\ stop < seg.end
  BY <1>1, SegmentFacts, OffsetFacts
<1>3. /\ rest \in Segment /\ stop \in Offset
      /\ rest.offset = stop /\ rest.end = seg.end
      /\ \A b \in stop .. seg.end - 1 : rest.data[b] = seg.data[b]
  BY <1>1, RestFacts
<1>4. PICK q : q = <<rest>> \o tail
  OBVIOUS
<1> HIDE DEF rest
<1>5. /\ q \in Seq(Segment) /\ Len(q) = Len(segs) /\ q[1] = rest
      /\ \A i \in 2 .. Len(segs) : q[i] = segs[i]
  <2>1. /\ tail \in Seq(Segment) /\ Len(tail) = Len(segs) - 1
        /\ \A i \in 1 .. Len(segs) - 1 : tail[i] = segs[i + 1]
    BY <1>1, Tails DEF TailFacts
  <2>2. <<rest>> \in Seq(Segment) /\ Len(<<rest>>) = 1 /\ <<rest>>[1] = rest
    BY <1>3
  <2> HIDE DEF tail
  <2>3. /\ q \in Seq(Segment) /\ Len(q) = 1 + Len(tail) /\ q[1] = rest
        /\ \A i \in 1 .. Len(tail) : q[1 + i] = tail[i]
    BY <1>4, <2>1, <2>2
  <2>4. ASSUME NEW i \in 2 .. Len(segs)
        PROVE  q[i] = segs[i]
    <3>1. i - 1 \in 1 .. Len(tail) /\ 1 + (i - 1) = i /\ (i - 1) + 1 = i
      BY <1>1, <2>1
    <3> QED BY <2>1, <2>3, <3>1
  <2> QED BY <1>1, <2>1, <2>3, <2>4
<1>6. \A i \in 1 .. Len(segs), j \in 1 .. Len(segs) : i < j => segs[i].end < segs[j].offset
  BY DEF Placed, Apart
<1>7. \A i \in 1 .. Len(segs) : i = 1 \/ i \in 2 .. Len(segs)
  BY <1>1
<1>8. Apart(q)
  <2>1. ASSUME NEW i \in 1 .. Len(segs), NEW j \in 1 .. Len(segs), i < j
        PROVE  q[i].end < q[j].offset
    <3>1. q[j] = segs[j]
      BY <1>1, <1>5, <2>1
    <3>2. q[i].end = segs[i].end
      BY <1>3, <1>5, <1>7
    <3> QED BY <1>6, <2>1, <3>1, <3>2
  <2> QED BY <1>5, <2>1 DEF Apart
<1>9. ASSUME NEW b \in Offset, NEW i \in 1 .. Len(segs)
      PROVE  /\ Covers(q[i], b) <=> Covers(segs[i], b) /\ b >= stop
             /\ Covers(q[i], b) => q[i].data[b] = segs[i].data[b]
  <2>1. b \in Nat
    BY OffsetFacts
  <2>2. CASE i = 1
    <3>1. q[i] = rest /\ segs[i] = seg
      BY <1>5, <2>2
    <3>2. Covers(rest, b) <=> stop <= b /\ b < seg.end
      BY <1>3 DEF Covers
    <3>3. Covers(seg, b) /\ b >= stop <=> stop <= b /\ b < seg.end
      BY <1>2, <2>1 DEF Covers
    <3>4. Covers(rest, b) => rest.data[b] = seg.data[b]
      BY <1>2, <1>3, <2>1, <3>2
    <3> HIDE DEF seg
    <3> QED BY <3>1, <3>2, <3>3, <3>4
  <2>3. CASE i # 1
    <3>1. i \in 2 .. Len(segs) /\ segs[i] \in Segment
      BY <1>1, <1>7, <2>3
    <3>2. q[i] = segs[i]
      BY <1>5, <3>1
    <3>3. segs[i].offset \in Nat
      BY <3>1, SegmentFacts, OffsetFacts
    <3>4. Covers(segs[i], b) => b >= stop
      <4>1. seg.end < segs[i].offset
        BY <1>1, <1>6, <3>1
      <4> HIDE DEF seg
      <4> QED BY <1>2, <2>1, <3>3, <4>1 DEF Covers
    <3> QED BY <3>2, <3>4
  <2> QED BY <2>2, <2>3
<1>10. \A b : b \in Covered(q) <=> b \in Covered(segs) /\ b >= stop
  BY <1>5, <1>9 DEF Covered
<1>11. \A b, v : Has(q, b, v) => Has(segs, b, v)
  BY <1>5, <1>9 DEF Has
<1>12. \A b \in next .. stop - 1 : b \in Covered(segs)
  <2> SUFFICES ASSUME NEW b \in next .. stop - 1 PROVE b \in Covered(segs)
    OBVIOUS
  <2>1. b \in Offset
    BY <1>2, <1>3, ReassemblerAssumption DEF Offset
  <2>2. Covers(segs[1], b)
    BY <1>2 DEF Covers
  <2> QED BY <1>1, <2>1, <2>2 DEF Covered
<1>13. Drops(segs, next, stop, q)
  BY <1>2, <1>3, <1>5, <1>8, <1>10, <1>11, <1>12 DEF Drops
<1> QED BY <1>4, <1>13 DEF rest

\* What an operation that drains does, up to offset stop.
Draining(stop) ==
  /\ Drops(segments, nextOffset, stop, segments') /\ nextOffset' = stop
  /\ wrote' = [i \in 1 .. stop - nextOffset |-> ByteAt(nextOffset + i - 1)]
  /\ buffered' = buffered - (stop - nextOffset)
  /\ finOffset' = finOffset
  /\ \/ result' = "error"
     \/ /\ stop \notin Covered(segments)
        /\ result' = IF stop \in finOffset THEN "finished" ELSE "ok"

LEMMA InvFacts ==
  ASSUME SegmentsInv
  PROVE  /\ Placed(segments, nextOffset) /\ nextOffset \in Offset /\ nextOffset \in Nat
         /\ segments \in Seq(Segment) /\ Len(segments) \in Nat
         /\ \A i \in 1 .. Len(segments), j \in 1 .. Len(segments) :
              i < j => segments[i].end < segments[j].offset
         /\ \A i \in 1 .. Len(segments) :
              /\ segments[i] \in Segment /\ segments[i].offset < segments[i].end
              /\ segments[i].offset \in Nat /\ segments[i].end \in Nat
              /\ nextOffset <= segments[i].offset
<1>1. /\ Placed(segments, nextOffset) /\ nextOffset \in Offset /\ segments \in Seq(Segment)
      /\ Apart(segments)
  BY InvIs DEF Placed
<1>2. /\ nextOffset \in Nat /\ Len(segments) \in Nat
      /\ \A i \in 1 .. Len(segments) : segments[i] \in Segment
  BY <1>1, OffsetFacts
<1>3. \A i \in 1 .. Len(segments) : /\ segments[i].offset < segments[i].end
                                    /\ segments[i].offset \in Nat /\ segments[i].end \in Nat
  BY <1>2, SegmentFacts, OffsetFacts
<1>4. \A i \in 1 .. Len(segments) : nextOffset <= segments[i].offset
  BY <1>1, EndsCovered DEF Placed
<1> QED BY <1>1, <1>2, <1>3, <1>4 DEF Apart

\* At most the first segment is contiguous.
LEMMA ContiguousFirst ==
  ASSUME SegmentsInv, NEW k \in 0 .. Len(segments), Contiguous(k)
  PROVE  k = 0 \/ (k = 1 /\ segments # <<>> /\ segments[1].offset = nextOffset)
<1>1. Len(segments) \in Nat /\ k \in Nat
  BY InvFacts
<1>2. ASSUME k > 1
      PROVE  FALSE
  <2>1. 2 \in 1 .. k /\ 1 \in 1 .. Len(segments) /\ 2 \in 1 .. Len(segments)
    BY <1>1, <1>2
  <2>2. segments[2].offset = segments[1].end
    BY <2>1 DEF Contiguous
  <2>3. segments[1].end < segments[2].offset /\ segments[1].end \in Nat
    BY <2>1, InvFacts
  <2> QED BY <2>2, <2>3
<1>3. ASSUME k = 1
      PROVE  segments # <<>> /\ segments[1].offset = nextOffset
  <2>1. 1 \in 1 .. k /\ Len(segments) # 0
    BY <1>1, <1>3
  <2> QED BY <2>1 DEF Contiguous
<1> QED BY <1>1, <1>2, <1>3

LEMMA DrainFacts ==
  ASSUME SegmentsInv, DrainTo \/ DrainFails
  PROVE  \E stop \in Offset : Draining(stop)
<1>1. /\ Placed(segments, nextOffset) /\ nextOffset \in Offset /\ nextOffset \in Nat
      /\ segments \in Seq(Segment) /\ Len(segments) \in Nat
  BY InvFacts
<1>2. ASSUME NEW k \in 0 .. Len(segments), Contiguous(k), k < Len(segments) => ~Contiguous(k + 1),
             NEW stop, stop = IF k = 0 THEN nextOffset ELSE segments[k].end
      PROVE  /\ stop \notin Covered(segments)
             /\ Drops(segments, nextOffset, stop, SubSeq(segments, k + 1, Len(segments)))
  <2>1. CASE k = 0
    <3>1. stop = nextOffset /\ SubSeq(segments, k + 1, Len(segments)) = segments
      BY <1>1, <1>2, <2>1
    <3>2. ASSUME NEW i \in 1 .. Len(segments), Covers(segments[i], nextOffset)
          PROVE  FALSE
      <4>1. 1 \in 1 .. Len(segments) /\ 0 < Len(segments)
        BY <1>1
      <4>2. segments[1].offset # nextOffset
        <5>1. ~Contiguous(1)
          BY <1>2, <2>1, <4>1
        <5>2. \A j \in 1 .. 1 : j = 1
          OBVIOUS
        <5> QED BY <5>1, <5>2 DEF Contiguous
      <4>3. segments[i].offset <= nextOffset
        BY <3>2 DEF Covers
      <4>4. nextOffset < segments[1].offset
        BY <1>1, <4>1, <4>2, InvFacts
      <4>5. segments[1].offset <= segments[i].offset
        <5>1. CASE i = 1
          BY <4>1, <5>1, InvFacts
        <5>2. CASE i # 1
          <6>1. 1 < i
            BY <1>1, <5>2
          <6>2. /\ segments[1].end < segments[i].offset /\ segments[1].offset < segments[1].end
                /\ segments[1].offset \in Nat /\ segments[1].end \in Nat /\ segments[i].offset \in Nat
            BY <4>1, <6>1, InvFacts
          <6> QED BY <6>2
        <5> QED BY <5>1, <5>2
      <4>6. segments[1].offset \in Nat /\ segments[i].offset \in Nat
        BY <4>1, InvFacts
      <4> QED BY <1>1, <4>3, <4>4, <4>5, <4>6
    <3>3. stop \notin Covered(segments)
      BY <3>1, <3>2 DEF Covered
    <3> QED BY <1>1, <3>1, <3>3, DropsNothing
  <2>2. CASE k = 1
    <3>1. stop = segments[1].end /\ SubSeq(segments, k + 1, Len(segments)) = SubSeq(segments, 2, Len(segments))
      BY <1>2, <2>2
    <3>2. segments # <<>> /\ segments[1].offset = nextOffset /\ 1 \in 1 .. Len(segments)
      BY <1>1, <1>2, <2>2, ContiguousFirst
    <3>3. ASSUME NEW i \in 1 .. Len(segments), Covers(segments[i], stop)
          PROVE  FALSE
      <4>1. segments[i].offset <= segments[1].end /\ segments[1].end < segments[i].end
        BY <3>1, <3>3 DEF Covers
      <4>2. CASE i = 1
        BY <3>2, <4>1, <4>2, InvFacts
      <4>3. CASE i # 1
        <5>1. 1 < i
          BY <1>1, <4>3
        <5>2. /\ segments[1].end < segments[i].offset
              /\ segments[1].end \in Nat /\ segments[i].offset \in Nat
          BY <3>2, <5>1, InvFacts
        <5> QED BY <4>1, <5>2
      <4> QED BY <4>2, <4>3
    <3>4. stop \notin Covered(segments)
      BY <3>3 DEF Covered
    <3> QED BY <1>1, <3>1, <3>2, <3>4, DropsFirst
  <2> QED BY <1>2, <2>1, <2>2, ContiguousFirst
<1>3. CASE DrainTo
  <2>1. PICK k \in 0 .. Len(segments) : \E stop :
           /\ stop = IF k = 0 THEN nextOffset ELSE segments[k].end
           /\ Contiguous(k) /\ (k < Len(segments) => ~Contiguous(k + 1))
           /\ Drained(stop, SubSeq(segments, k + 1, Len(segments)))
           /\ result' = IF stop \in finOffset THEN "finished" ELSE "ok"
    BY <1>3 DEF DrainTo
  <2>2. PICK stop :
           /\ stop = IF k = 0 THEN nextOffset ELSE segments[k].end
           /\ Contiguous(k) /\ (k < Len(segments) => ~Contiguous(k + 1))
           /\ Drained(stop, SubSeq(segments, k + 1, Len(segments)))
           /\ result' = IF stop \in finOffset THEN "finished" ELSE "ok"
    BY <2>1
  <2>3. /\ stop \notin Covered(segments)
        /\ Drops(segments, nextOffset, stop, SubSeq(segments, k + 1, Len(segments)))
    BY <1>2, <2>2
  <2>4. stop \in Offset
    BY <2>3 DEF Drops
  <2>5. Draining(stop)
    BY <2>3, <2>2 DEF Draining, Drained
  <2> QED BY <2>4, <2>5
<1>4. CASE DrainFails
  <2>1. PICK k \in 1 .. Len(segments) : \E stop \in segments[k].offset .. segments[k].end - 1 :
           /\ Contiguous(k)
           /\ Drained(stop, <<Rest(segments[k], stop)>> \o SubSeq(segments, k + 1, Len(segments)))
           /\ result' = "error"
    BY <1>4 DEF DrainFails, Rest
  <2>2. PICK stop \in segments[k].offset .. segments[k].end - 1 :
           /\ Contiguous(k)
           /\ Drained(stop, <<Rest(segments[k], stop)>> \o SubSeq(segments, k + 1, Len(segments)))
           /\ result' = "error"
    BY <2>1
  <2>3. k = 1 /\ segments # <<>> /\ segments[1].offset = nextOffset
    <3>1. k \in 0 .. Len(segments) /\ k # 0
      BY <1>1
    <3> QED BY <2>2, <3>1, ContiguousFirst
  <2>4. Drained(stop, <<Rest(segments[1], stop)>> \o SubSeq(segments, 2, Len(segments)))
    BY <2>2, <2>3
  <2>5. Drops(segments, nextOffset, stop, <<Rest(segments[1], stop)>> \o SubSeq(segments, 2, Len(segments)))
    <3>1. stop \in segments[1].offset .. segments[1].end - 1
      BY <2>3
    <3> QED BY <1>1, <2>3, <3>1, DropsPart
  <2>6. stop \in Offset
    BY <2>5 DEF Drops
  <2>7. Draining(stop)
    BY <2>2, <2>4, <2>5 DEF Draining, Drained
  <2> QED BY <2>6, <2>7
<1> QED BY <1>3, <1>4
-----------------------------------------------------------------------------
(* Push.                                                                   *)

LEMMA PushMeets ==
  ASSUME SegmentsInv, NEW o \in Offset, NEW p \in Payload, p # <<>>,
         o <= MaxOffset - Len(p), o + Len(p) > nextOffset,
         NEW first, first = IF o < nextOffset THEN nextOffset ELSE o
  PROVE  Meets(segments, o, p, first) /\ nextOffset <= first /\ first \in Nat
<1>1. /\ o \in Nat /\ nextOffset \in Nat /\ nextOffset \in Offset /\ MaxOffset \in Nat
      /\ p \in Seq(Byte) /\ Len(p) \in Nat /\ Len(p) # 0
  BY OffsetFacts, InvFacts, PayloadFacts, ReassemblerAssumption
<1>2. o + Len(p) \in Offset
  BY <1>1, OffsetFacts
<1>3. segments \in Seq(Segment) /\ Apart(segments)
  BY InvIs DEF Placed
<1>4. first \in Offset /\ o <= first /\ first < o + Len(p) /\ nextOffset <= first /\ first \in Nat
  BY <1>1
<1> QED BY <1>1, <1>2, <1>3, <1>4 DEF Meets

\* No more bytes are kept than fit in the window.
LEMMA PlacedBound ==
  ASSUME NEW q, NEW next \in Offset, Placed(q, next)
  PROVE  Cardinality(Covered(q)) <= Window
<1>1. next \in Nat /\ Window \in Nat
  BY OffsetFacts, ReassemblerAssumption
<1>2. IsFiniteSet(next .. next + Window - 1) /\ Cardinality(next .. next + Window - 1) = Window
  <2>1. next \in Int /\ next + Window - 1 \in Int
    BY <1>1
  <2>2. /\ IsFiniteSet(next .. next + Window - 1)
        /\ Cardinality(next .. next + Window - 1)
             = IF next > next + Window - 1 THEN 0 ELSE (next + Window - 1) - next + 1
    BY <2>1, FS_Interval
  <2> QED BY <1>1, <2>2
<1>3. Covered(q) \subseteq next .. next + Window - 1
  <2> SUFFICES ASSUME NEW b \in Covered(q) PROVE b \in next .. next + Window - 1
    OBVIOUS
  <2>1. b \in Nat /\ next <= b /\ b < next + Window
    BY OffsetFacts DEF Placed, Covered
  <2> QED BY <1>1, <2>1
<1> QED BY <1>2, <1>3, FS_Subset

\* What an accepted payload does.
Inserted(o, p, first) ==
  /\ Placed(segments', nextOffset)
  /\ Covered(segments') = Covered(segments) \cup (first .. o + Len(p) - 1)
  /\ \A b, v : Has(segments', b, v) =>
                 Has(segments, b, v) \/ (b \notin Covered(segments) /\ v = p[b - o + 1])
  /\ buffered' = Cardinality(Covered(segments'))
  /\ result' = IF Len(segments') > MaxSegments THEN "segments" ELSE "ok"

LEMMA InsertInserts ==
  ASSUME SegmentsInv, NEW o, NEW p, NEW first, Meets(segments, o, p, first),
         nextOffset <= first, o + Len(p) - nextOffset <= Window, Insert(o, p, first)
  PROVE  Inserted(o, p, first)
<1>1. PICK sorted \in Sortings(segments \o Filled(o, p, first).pieces) :
         LET merged == Merge(sorted)
             total  == buffered + Filled(o, p, first).bytes
         IN /\ segments' = merged.segs
            /\ buffered' = total
            /\ result' = IF merged.panics THEN "panic"
                         ELSE IF Len(merged.segs) > MaxSegments THEN "segments"
                         ELSE IF total > Window THEN "window" ELSE "ok"
  BY DEF Insert
<1>2. PICK bytes : bytes = Filled(o, p, first).bytes
  OBVIOUS
<1>3. /\ Merge(sorted).panics = FALSE /\ Apart(segments')
      /\ Whole(segments, o, p, first, segments', bytes)
  BY <1>1, <1>2, InsertFacts
<1>4. /\ segments' \in Seq(Segment)
      /\ Covered(segments') = Covered(segments) \cup (first .. o + Len(p) - 1)
      /\ Cardinality(Covered(segments')) = Cardinality(Covered(segments)) + bytes
      /\ \A b, v : Has(segments', b, v) =>
                     Has(segments, b, v) \/ (b \notin Covered(segments) /\ v = p[b - o + 1])
  BY <1>3 DEF Whole
<1>5. buffered' = Cardinality(Covered(segments'))
  BY <1>1, <1>2, <1>4, InvIs
<1>6. Placed(segments', nextOffset)
  <2>1. ASSUME NEW b \in Covered(segments')
        PROVE  nextOffset <= b /\ b < nextOffset + Window
    <3>1. CASE b \in Covered(segments)
      BY <3>1, InvIs DEF Placed
    <3>2. CASE b \in first .. o + Len(p) - 1
      <4>1. /\ first \in Nat /\ o + Len(p) \in Nat /\ nextOffset \in Nat /\ Window \in Nat
            /\ o \in Nat /\ Len(p) \in Nat
        BY MeetsFacts, InvFacts, ReassemblerAssumption
      <4>2. PICK end : end = o + Len(p)
        OBVIOUS
      <4>3. end \in Nat /\ b \in first .. end - 1 /\ end - nextOffset <= Window
        BY <3>2, <4>1, <4>2
      <4> QED BY <4>1, <4>3
    <3> QED BY <1>4, <2>1, <3>1, <3>2
  <2> QED BY <1>3, <1>4, <2>1 DEF Placed
<1>7. ~(buffered' > Window)
  <2>1. Cardinality(Covered(segments')) <= Window /\ Cardinality(Covered(segments')) \in Nat
    BY <1>4, <1>6, PlacedBound, CoveredFacts, InvFacts
  <2> QED BY <1>5, <2>1, ReassemblerAssumption
<1>8. result' = IF Len(segments') > MaxSegments THEN "segments" ELSE "ok"
  BY <1>1, <1>3, <1>7
<1> QED BY <1>4, <1>5, <1>6, <1>8 DEF Inserted

\* Push refuses with an answer, or inserts where it meets the segments.
LEMMA PushCases ==
  ASSUME SegmentsInv, NEW o \in Offset, NEW p \in Payload, Push(o, p),
         NEW first, first = IF o < nextOffset THEN nextOffset ELSE o
  PROVE  /\ UNCHANGED <<nextOffset, finOffset>> /\ wrote' = <<>>
         /\ \/ UNCHANGED <<segments, buffered>> /\ result' \in {"invalid", "ok", "fin", "window", "overlap"}
            \/ /\ Meets(segments, o, p, first) /\ Inserted(o, p, first)
<1>1. UNCHANGED <<nextOffset, finOffset>> /\ wrote' = <<>>
  BY DEF Push
<1>2. CASE UNCHANGED <<segments, buffered>> /\ result' \in {"invalid", "ok", "fin", "window", "overlap"}
  BY <1>1, <1>2
<1>3. CASE /\ p # <<>> /\ o <= MaxOffset - Len(p) /\ o + Len(p) > nextOffset
           /\ o + Len(p) - nextOffset <= Window /\ Insert(o, p, first)
  <2>1. Meets(segments, o, p, first) /\ nextOffset <= first
    BY <1>3, PushMeets
  <2> QED BY <1>1, <1>3, <2>1, InsertInserts
<1>4. \/ UNCHANGED <<segments, buffered>> /\ result' \in {"invalid", "ok", "fin", "window", "overlap"}
      \/ /\ p # <<>> /\ o <= MaxOffset - Len(p) /\ o + Len(p) > nextOffset
         /\ o + Len(p) - nextOffset <= Window
         /\ Insert(o, p, first)
  <2>1. CASE \E answer \in {"invalid", "ok", "fin", "window", "overlap"} : Refuse(answer)
    BY <2>1 DEF Refuse
  <2>2. CASE ~\E answer \in {"invalid", "ok", "fin", "window", "overlap"} : Refuse(answer)
    <3>1. /\ ~Refuse("invalid") /\ ~Refuse("ok") /\ ~Refuse("fin") /\ ~Refuse("window")
          /\ ~Refuse("overlap")
      BY <2>2
    <3>2. PICK end : end = o + Len(p)
      OBVIOUS
    <3>3. /\ p # <<>> /\ o <= MaxOffset - Len(p) /\ end > nextOffset
          /\ end - nextOffset <= Window /\ Insert(o, p, first)
      BY <3>1, <3>2 DEF Push
    <3>4. o + Len(p) > nextOffset /\ o + Len(p) - nextOffset <= Window
      <4>1. o \in Nat /\ Len(p) \in Nat /\ nextOffset \in Nat /\ Window \in Nat
        BY OffsetFacts, PayloadFacts, InvFacts, ReassemblerAssumption
      <4> QED BY <3>2, <3>3, <4>1
    <3> QED BY <3>3, <3>4
  <2> QED BY <2>1, <2>2
<1> QED BY <1>2, <1>3, <1>4
-----------------------------------------------------------------------------
(* The bytes.                                                              *)

\* The byte at offset b, in the first of the segments q that has it.
At(q, b) ==
  q[CHOOSE i \in 1 .. Len(q) : /\ Covers(q[i], b)
                               /\ \A j \in 1 .. i - 1 : ~Covers(q[j], b)].data[b]

\* Where segments are apart, one of them has the byte at a covered offset.
LEMMA AtFacts ==
  ASSUME NEW q \in Seq(Segment), Apart(q), NEW b \in Covered(q)
  PROVE  Has(q, b, At(q, b)) /\ \A v : Has(q, b, v) => v = At(q, b)
<1>1. /\ b \in Nat /\ b \in Offset /\ Len(q) \in Nat
      /\ \A i \in 1 .. Len(q) : q[i] \in Segment
  BY OffsetFacts DEF Covered
<1>2. \A i \in 1 .. Len(q) : /\ q[i].offset \in Nat /\ q[i].end \in Nat
                             /\ q[i].offset < q[i].end
  BY <1>1, SegmentFacts, OffsetFacts
<1>3. ASSUME NEW i \in 1 .. Len(q), NEW j \in 1 .. Len(q), Covers(q[i], b), Covers(q[j], b)
      PROVE  i = j
  <2>1. i < j \/ j < i \/ i = j
    BY <1>1
  <2>2. /\ i < j => q[i].end < q[j].offset
        /\ j < i => q[j].end < q[i].offset
    BY DEF Apart
  <2>3. /\ q[i].offset <= b /\ b < q[i].end /\ q[j].offset <= b /\ b < q[j].end
    BY <1>3 DEF Covers
  <2> QED BY <1>1, <1>2, <2>1, <2>2, <2>3
<1> DEFINE First(i) == Covers(q[i], b) /\ \A j \in 1 .. i - 1 : ~Covers(q[j], b)
<1>4. PICK k \in 1 .. Len(q) : Covers(q[k], b)
  BY DEF Covered
<1>5. First(k)
  <2>1. \A j \in 1 .. k - 1 : j \in 1 .. Len(q) /\ j # k
    BY <1>1
  <2> QED BY <1>3, <1>4, <2>1
<1>6. (CHOOSE i \in 1 .. Len(q) : First(i)) = k
  <2>1. \E i \in 1 .. Len(q) : First(i)
    BY <1>5
  <2> QED BY <1>3, <1>4, <2>1
<1>7. At(q, b) = q[k].data[b]
  BY <1>6 DEF At
<1> QED BY <1>1, <1>3, <1>4, <1>7 DEF Has

LEMMA ByteOf ==
  ASSUME Placed(segments, nextOffset), NEW b \in Covered(segments)
  PROVE  ByteAt(b) = At(segments, b) /\ ByteAt(b) \in Byte
<1>1. ByteAt(b) = At(segments, b)
  BY DEF ByteAt, At
<1>2. Has(segments, b, At(segments, b)) /\ segments \in Seq(Segment)
  BY AtFacts DEF Placed
<1>3. PICK i \in 1 .. Len(segments) : /\ Covers(segments[i], b) /\ b \in Offset
                                      /\ segments[i].data[b] = At(segments, b)
  BY <1>2 DEF Has
<1>4. segments[i] \in Segment
  BY <1>2
<1>5. /\ segments[i].data \in [segments[i].offset .. segments[i].end - 1 -> Byte]
      /\ segments[i].offset \in Nat /\ segments[i].end \in Nat /\ b \in Nat
  BY <1>3, <1>4, SegmentFacts, OffsetFacts
<1>6. b \in segments[i].offset .. segments[i].end - 1
  BY <1>3, <1>5 DEF Covers
<1> QED BY <1>1, <1>3, <1>5, <1>6

-----------------------------------------------------------------------------
(* The invariant.                                                          *)

\* What is left after a drain is placed, and buffered counts it.
LEMMA DrainingKeeps ==
  ASSUME SegmentsInv, NEW stop \in Offset, Draining(stop)
  PROVE  SegmentsInv'
<1>1. /\ nextOffset \in Nat /\ stop \in Nat /\ nextOffset <= stop /\ Window \in Nat
      /\ nextOffset' = stop /\ stop \in Offset /\ nextOffset \in Offset
      /\ Placed(segments, nextOffset) /\ segments \in Seq(Segment)
  BY InvFacts, OffsetFacts, ReassemblerAssumption DEF Draining, Drops
<1>2. /\ segments' \in Seq(Segment) /\ Apart(segments')
      /\ \A b : b \in Covered(segments') <=> b \in Covered(segments) /\ b >= stop
      /\ \A b \in nextOffset .. stop - 1 : b \in Covered(segments)
  BY DEF Draining, Drops
<1>3. \A b \in Covered(segments) : b \in Nat /\ nextOffset <= b /\ b < nextOffset + Window
  BY <1>1, OffsetFacts DEF Placed, Covered
<1>4. Placed(segments', nextOffset')
  <2>1. ASSUME NEW b \in Covered(segments')
        PROVE  stop <= b /\ b < stop + Window
    <3>1. b \in Covered(segments) /\ b >= stop
      BY <1>2
    <3> QED BY <1>1, <1>3, <3>1
  <2> QED BY <1>1, <1>2, <2>1 DEF Placed
<1>5. /\ Cardinality(Covered(segments')) \in Nat /\ IsFiniteSet(Covered(segments'))
  BY <1>2, CoveredFacts
<1>6. Cardinality(Covered(segments)) = Cardinality(Covered(segments')) + (stop - nextOffset)
  <2>1. Covered(segments) = Covered(segments') \cup (nextOffset .. stop - 1)
    <3>1. ASSUME NEW b \in Covered(segments), ~(b >= stop)
          PROVE  b \in nextOffset .. stop - 1
      BY <1>1, <1>3, <3>1
    <3> QED BY <1>2, <3>1
  <2>2. \A b \in Covered(segments') : b \notin nextOffset .. stop - 1
    BY <1>1, <1>2
  <2>3. CASE nextOffset < stop
    <3>1. Cardinality(Covered(segments') \cup (nextOffset .. stop - 1))
            = Cardinality(Covered(segments')) + stop - nextOffset
      BY <1>1, <1>5, <2>2, <2>3, IntervalAdds
    <3> QED BY <1>1, <1>5, <2>1, <3>1
  <2>4. CASE nextOffset = stop
    <3>1. nextOffset .. stop - 1 = {} /\ stop - nextOffset = 0
      BY <1>1, <2>4
    <3>2. Covered(segments) = Covered(segments')
      BY <2>1, <3>1
    <3> QED BY <1>5, <3>1, <3>2
  <2> QED BY <1>1, <2>3, <2>4
<1>7. buffered' = Cardinality(Covered(segments'))
  <2>1. buffered = Cardinality(Covered(segments)) /\ buffered' = buffered - (stop - nextOffset)
    BY InvIs DEF Draining
  <2> QED BY <1>1, <1>5, <1>6, <2>1
<1>8. wrote' \in Seq(Byte)
  <2>1. ASSUME NEW i \in 1 .. stop - nextOffset
        PROVE  ByteAt(nextOffset + i - 1) \in Byte
    <3>1. nextOffset + i - 1 \in nextOffset .. stop - 1
      BY <1>1
    <3>2. nextOffset + i - 1 \in Covered(segments)
      BY <1>2, <3>1
    <3> QED BY <1>1, <3>2, ByteOf
  <2>2. wrote' = [i \in 1 .. stop - nextOffset |-> ByteAt(nextOffset + i - 1)]
    BY DEF Draining
  <2>3. stop - nextOffset \in Nat
    BY <1>1
  <2> QED BY <2>1, <2>2, <2>3
<1>9. finOffset' \in SUBSET Offset /\ result' # "panic"
  BY InvIs DEF Draining
<1> QED BY <1>1, <1>4, <1>7, <1>8, <1>9, InvIsNext

\* Every operation keeps the invariant.
LEMMA InvStep == SegmentsInv /\ [Next]_vars => SegmentsInv'
<1> SUFFICES ASSUME SegmentsInv, [Next]_vars
             PROVE  SegmentsInv'
  OBVIOUS
<1>1. ASSUME NEW o \in Offset, NEW p \in Payload, Push(o, p)
      PROVE  SegmentsInv'
  <2>1. PICK first : first = IF o < nextOffset THEN nextOffset ELSE o
    OBVIOUS
  <2>2. UNCHANGED <<nextOffset, finOffset>> /\ wrote' = <<>>
    BY <1>1 DEF Push
  <2>3. CASE UNCHANGED <<segments, buffered>> /\ result' \in {"invalid", "ok", "fin", "window", "overlap"}
    BY <2>2, <2>3, InvIs, InvIsNext
  <2>4. CASE Inserted(o, p, first)
    <3>1. result' # "panic"
      BY <2>4 DEF Inserted
    <3>2. Placed(segments', nextOffset') /\ buffered' = Cardinality(Covered(segments'))
      BY <2>2, <2>4 DEF Inserted
    <3>3. wrote' \in Seq(Byte)
      BY <2>2
    <3> QED BY <2>2, <3>1, <3>2, <3>3, InvIs, InvIsNext
  <2> QED BY <1>1, <2>1, <2>3, <2>4, PushCases
<1>2. ASSUME NEW o \in Offset, SetFIN(o)
      PROVE  SegmentsInv'
  <2>1. /\ UNCHANGED <<nextOffset, buffered, segments>> /\ wrote' = <<>>
        /\ result' # "panic" /\ (finOffset' = finOffset \/ finOffset' = {o})
    BY <1>2 DEF SetFIN
  <2>2. wrote' \in Seq(Byte) /\ {o} \in SUBSET Offset
    BY <2>1
  <2> QED BY <2>1, <2>2, InvIs, InvIsNext
<1>3. CASE DrainTo \/ DrainFails
  <2>1. PICK stop \in Offset : Draining(stop)
    BY <1>3, DrainFacts
  <2> QED BY <2>1, DrainingKeeps
<1>4. CASE UNCHANGED vars
  BY <1>4, InvIs, InvIsNext DEF vars
<1> QED BY <1>1, <1>2, <1>3, <1>4 DEF Next

LEMMA InvInit == Init => SegmentsInv
<1> SUFFICES ASSUME Init PROVE SegmentsInv
  OBVIOUS
<1>1. /\ nextOffset \in Offset /\ finOffset \in SUBSET Offset /\ wrote \in Seq(Byte)
      /\ result # "panic" /\ segments = <<>> /\ buffered = 0 /\ segments \in Seq(Segment)
  BY ReassemblerAssumption DEF Init, Offset
<1>2. 1 .. Len(segments) = {}
  BY <1>1
<1>3. Covered(segments) = {} /\ Apart(segments)
  BY <1>2 DEF Covered, Apart
<1>4. Cardinality({}) = 0
  BY FS_EmptySet
<1> QED BY <1>1, <1>3, <1>4, InvIs DEF Placed

\* mergeSegments leaves the segments sorted, disjoint and never adjacent, its
\* panic is unreachable, buffered is the number of bytes they hold, and they
\* never reach beyond the window (push, mergeSegments, DrainTo).
THEOREM SegmentsInvariant == Spec => []SegmentsInv
BY InvInit, InvStep, PTL DEF Spec
-----------------------------------------------------------------------------
(* The map of bytes.                                                       *)

Content(q) == [b \in Covered(q) |-> At(q, b)]

LEMMA ContentNow == [b \in Kept |-> ByteAt(b)] = Content(segments)
BY DEF Kept, Covered, ByteAt, At, Content

LEMMA ContentNext == [b \in Kept |-> ByteAt(b)]' = Content(segments')
BY DEF Kept, Covered, ByteAt, At, Content

\* Segments are the separate runs of what they cover.
LEMMA SegmentRuns ==
  ASSUME NEW q \in Seq(Segment), Apart(q)
  PROVE  Cardinality({b \in Covered(q) : b - 1 \notin Covered(q)}) = Len(q)
<1> DEFINE S == {b \in Covered(q) : b - 1 \notin Covered(q)}
           f == [i \in 1 .. Len(q) |-> q[i].offset]
<1>1. /\ Len(q) \in Nat
      /\ \A i \in 1 .. Len(q) : /\ q[i] \in Segment
                                /\ q[i].offset \in Nat /\ q[i].end \in Nat
                                /\ q[i].offset < q[i].end
  <2>1. Len(q) \in Nat /\ \A i \in 1 .. Len(q) : q[i] \in Segment
    OBVIOUS
  <2> QED BY <2>1, SegmentFacts, OffsetFacts
<1>2. \A i \in 1 .. Len(q), j \in 1 .. Len(q) : i < j => q[i].end < q[j].offset
  BY DEF Apart
<1>3. ASSUME NEW i \in 1 .. Len(q)
      PROVE  q[i].offset \in S
  <2>1. q[i].offset \in Covered(q)
    BY EndsCovered
  <2>2. ASSUME q[i].offset - 1 \in Covered(q)
        PROVE  FALSE
    <3>1. PICK j \in 1 .. Len(q) : Covers(q[j], q[i].offset - 1)
      BY <2>2 DEF Covered
    <3>2. /\ q[j].offset <= q[i].offset - 1 /\ q[i].offset - 1 < q[j].end
      BY <3>1 DEF Covers
    <3>3. CASE j < i
      <4>1. q[j].end < q[i].offset
        BY <1>2, <3>3
      <4> QED BY <1>1, <3>2, <4>1
    <3>4. CASE i < j
      <4>1. q[i].end < q[j].offset
        BY <1>2, <3>4
      <4> QED BY <1>1, <3>2, <4>1
    <3>5. CASE i = j
      BY <1>1, <3>2, <3>5
    <3> QED BY <1>1, <3>3, <3>4, <3>5
  <2> QED BY <2>1, <2>2
<1>4. ASSUME NEW b \in S
      PROVE  \E i \in 1 .. Len(q) : b = q[i].offset
  <2>1. PICK i \in 1 .. Len(q) : Covers(q[i], b)
    BY DEF Covered
  <2>2. b \in Nat /\ b \in Offset /\ MaxOffset \in Nat
    BY OffsetFacts, ReassemblerAssumption DEF Covered
  <2>3. ASSUME b # q[i].offset
        PROVE  FALSE
    <3>1. q[i].offset <= b /\ b < q[i].end
      BY <2>1 DEF Covers
    <3>2. q[i].offset <= b - 1 /\ b - 1 < q[i].end /\ b - 1 \in Offset
      BY <1>1, <2>2, <2>3, <3>1 DEF Offset
    <3>3. b - 1 \in Covered(q)
      BY <3>2 DEF Covered, Covers
    <3> QED BY <3>3
  <2> QED BY <2>3
<1>5. ASSUME NEW i \in 1 .. Len(q), NEW j \in 1 .. Len(q), q[i].offset = q[j].offset
      PROVE  i = j
  <2>1. CASE i < j
    <3>1. q[i].end < q[j].offset
      BY <1>2, <2>1
    <3> QED BY <1>1, <1>5, <3>1
  <2>2. CASE j < i
    <3>1. q[j].end < q[i].offset
      BY <1>2, <2>2
    <3> QED BY <1>1, <1>5, <3>1
  <2> QED BY <1>1, <2>1, <2>2
<1> HIDE DEF S
<1>6. f \in Bijection(1 .. Len(q), S)
  BY <1>3, <1>4, <1>5 DEF Bijection, Injection, Surjection, IsInjective
<1>7. ExistsBijection(1 .. Len(q), S)
  BY <1>6 DEF ExistsBijection
<1> QED BY <1>1, <1>7, FS_CountingElements, FS_NatBijection DEF S

\* The offsets of a payload that count are those from first on.
LEMMA FreshFacts ==
  ASSUME NEW o \in Nat, NEW n \in Nat, NEW next \in Nat, NEW first,
         first = IF o < next THEN next ELSE o
  PROVE  {b \in o .. (o + n - 1) : b >= next} = first .. o + n - 1
<1>1. ASSUME NEW b
      PROVE  b \in {c \in o .. (o + n - 1) : c >= next} <=> b \in first .. o + n - 1
  BY <1>1
<1> QED BY <1>1

\* A payload conflicts where it contradicts the map of bytes.
LEMMA ConflictsIs ==
  ASSUME SegmentsInv, NEW o, NEW p, NEW first
  PROVE  Conflicts(o, p, first) <=>
           \E b \in (first .. o + Len(p) - 1) \cap Covered(segments) :
             At(segments, b) # p[b - o + 1]
<1>1. segments \in Seq(Segment) /\ Apart(segments)
  BY InvIs DEF Placed
<1>2. ASSUME NEW b \in first .. o + Len(p) - 1, NEW i \in 1 .. Len(segments),
             Covers(segments[i], b), b \in Offset
      PROVE  b \in Covered(segments) /\ segments[i].data[b] = At(segments, b)
  <2>1. b \in Covered(segments) /\ Has(segments, b, segments[i].data[b])
    BY <1>2 DEF Covered, Has
  <2> QED BY <1>1, <2>1, AtFacts
<1>3. ASSUME NEW b \in first .. o + Len(p) - 1, NEW i \in 1 .. Len(segments),
             Covers(segments[i], b)
      PROVE  b \in Offset
  <2>1. /\ segments[i].offset \in Nat /\ segments[i].end \in Offset
        /\ segments[i].end \in Nat
    BY <1>1, InvFacts, SegmentFacts
  <2>2. segments[i].offset <= b /\ b < segments[i].end /\ b \in Int
    BY <1>3 DEF Covers
  <2> QED BY <2>1, <2>2, ReassemblerAssumption DEF Offset
<1>4. ASSUME NEW b \in (first .. o + Len(p) - 1) \cap Covered(segments)
      PROVE  \E i \in 1 .. Len(segments) : Covers(segments[i], b)
  BY DEF Covered
<1> QED BY <1>2, <1>3, <1>4 DEF Conflicts

Runs(S) == {b \in S : b - 1 \notin S}

\* The answer of the map of bytes to a payload, where fresh of its offsets
\* count.
Answer(o, p, c, fresh) ==
  IF p = <<>> \/ o + Len(p) > MaxOffset THEN "invalid"
  ELSE IF o + Len(p) <= nextOffset THEN "ok"
  ELSE IF \E e \in finOffset : o + Len(p) > e THEN "fin"
  ELSE IF o + Len(p) - nextOffset > Window THEN "window"
  ELSE IF \E b \in fresh \cap DOMAIN c : c[b] # p[b - o + 1] THEN "overlap"
  ELSE IF Cardinality(Runs(fresh \cup DOMAIN c)) > MaxSegments THEN "segments" ELSE "ok"

LEMMA SameCardinality ==
  ASSUME NEW S
  PROVE  Buffer!Cardinality(S) = Cardinality(S)
BY Zenon DEF Buffer!Cardinality, Cardinality

\* The map of bytes c after that answer.
Pushed(o, p, c, fresh, answer) ==
  IF answer \in {"ok", "segments"}
    THEN [b \in fresh \cup DOMAIN c |-> IF b \in DOMAIN c THEN c[b] ELSE p[b - o + 1]]
    ELSE c

LEMMA BufferPush ==
  ASSUME NEW o, NEW p, NEW c, NEW fresh, NEW answer,
         c = Content(segments), fresh = {b \in o .. (o + Len(p) - 1) : b >= nextOffset},
         answer = Answer(o, p, c, fresh),
         result' = answer, Content(segments') = Pushed(o, p, c, fresh, answer),
         wrote' = <<>>, UNCHANGED <<nextOffset, finOffset>>
  PROVE  Buffer!Push(o, p)
<1>1. Buffer!Fresh(o, p) = fresh
  BY DEF Buffer!Fresh
<1>2. [b \in Kept |-> ByteAt(b)] = c /\ [b \in Kept |-> ByteAt(b)]' = Content(segments')
  BY ContentNow, ContentNext
<1>3. \A S : Buffer!Runs(S) = Runs(S)
  BY DEF Buffer!Runs, Runs
<1>4. Buffer!PushAnswer(o, p) = answer
  <2>1. PICK count : count = Cardinality(Runs(fresh \cup DOMAIN c))
    OBVIOUS
  <2>2. Buffer!Cardinality(Buffer!Runs(fresh \cup DOMAIN c)) = count
    BY <1>3, <2>1, SameCardinality
  <2>3. Buffer!PushAnswer(o, p) =
          IF p = <<>> \/ o + Len(p) > MaxOffset THEN "invalid"
          ELSE IF o + Len(p) <= nextOffset THEN "ok"
          ELSE IF \E e \in finOffset : o + Len(p) > e THEN "fin"
          ELSE IF o + Len(p) - nextOffset > Window THEN "window"
          ELSE IF \E b \in fresh \cap DOMAIN c : c[b] # p[b - o + 1] THEN "overlap"
          ELSE IF count > MaxSegments THEN "segments" ELSE "ok"
    BY <1>1, <1>2, <2>2 DEF Buffer!PushAnswer
  <2> QED BY <2>1, <2>3 DEF Answer
<1>5. Buffer!Push(o, p) <=>
        /\ result' = Buffer!PushAnswer(o, p)
        /\ [b \in Kept |-> ByteAt(b)]' =
             IF Buffer!PushAnswer(o, p) \in {"ok", "segments"}
               THEN [b \in Buffer!Fresh(o, p) \cup DOMAIN [b \in Kept |-> ByteAt(b)] |->
                       IF b \in DOMAIN [x \in Kept |-> ByteAt(x)] THEN [x \in Kept |-> ByteAt(x)][b] ELSE p[b - o + 1]]
               ELSE [b \in Kept |-> ByteAt(b)]
        /\ wrote' = <<>> /\ UNCHANGED <<nextOffset, finOffset>>
  BY DEF Buffer!Push
<1> QED BY <1>1, <1>2, <1>4, <1>5 DEF Pushed

\* An accepted payload adds its bytes to the map, where it has none.
LEMMA InsertedContent ==
  ASSUME SegmentsInv, NEW o, NEW p, NEW first, Inserted(o, p, first)
  PROVE  /\ Content(segments') =
              [b \in (first .. o + Len(p) - 1) \cup Covered(segments) |->
                 IF b \in Covered(segments) THEN At(segments, b) ELSE p[b - o + 1]]
         /\ Cardinality(Runs(Covered(segments'))) = Len(segments')
<1>1. /\ segments' \in Seq(Segment) /\ Apart(segments')
      /\ segments \in Seq(Segment) /\ Apart(segments)
  BY InvIs DEF Inserted, Placed
<1>2. Covered(segments') = (first .. o + Len(p) - 1) \cup Covered(segments)
  BY DEF Inserted
<1>3. ASSUME NEW b \in Covered(segments')
      PROVE  At(segments', b) = IF b \in Covered(segments) THEN At(segments, b) ELSE p[b - o + 1]
  <2>1. PICK v : v = At(segments', b)
    OBVIOUS
  <2>2. Has(segments', b, v)
    BY <1>1, <2>1, AtFacts
  <2>3. Has(segments, b, v) \/ (b \notin Covered(segments) /\ v = p[b - o + 1])
    BY <2>2 DEF Inserted
  <2>4. Has(segments, b, v) => b \in Covered(segments)
    BY <1>1, HasCovered
  <2>5. b \in Covered(segments) => \A w : Has(segments, b, w) => w = At(segments, b)
    BY <1>1, AtFacts
  <2> QED BY <2>1, <2>3, <2>4, <2>5
<1>4. Cardinality(Runs(Covered(segments'))) = Len(segments')
  BY <1>1, SegmentRuns DEF Runs
<1> QED BY <1>2, <1>3, <1>4 DEF Content

LEMMA PushSplit ==
  ASSUME NEW o, NEW p, Push(o, p), NEW first, NEW end,
         first = IF o < nextOffset THEN nextOffset ELSE o, end = o + Len(p)
  PROVE  /\ UNCHANGED <<nextOffset, finOffset>> /\ wrote' = <<>>
         /\ \/ (p = <<>> \/ o > MaxOffset - Len(p)) /\ Refuse("invalid")
            \/ /\ p # <<>> /\ o <= MaxOffset - Len(p)
               /\ \/ end <= nextOffset /\ Refuse("ok")
                  \/ end > nextOffset /\ (\E f \in finOffset : end > f) /\ Refuse("fin")
                  \/ /\ end > nextOffset /\ ~\E f \in finOffset : end > f
                     /\ \/ end - nextOffset > Window /\ Refuse("window")
                        \/ /\ end - nextOffset <= Window
                           /\ \/ Conflicts(o, p, first) /\ Refuse("overlap")
                              \/ ~Conflicts(o, p, first) /\ Insert(o, p, first)
BY DEF Push

\* Push answers as the map of bytes does and changes it as it does.
LEMMA PushRefines ==
  ASSUME SegmentsInv, NEW o \in Offset, NEW p \in Payload, Push(o, p)
  PROVE  Buffer!Push(o, p)
<1>1. PICK first, end : first = (IF o < nextOffset THEN nextOffset ELSE o) /\ end = o + Len(p)
  OBVIOUS
<1>2. /\ o \in Nat /\ Len(p) \in Nat /\ nextOffset \in Nat /\ end \in Nat /\ first \in Nat
      /\ MaxOffset \in Nat /\ Window \in Nat /\ MaxSegments \in Nat
      /\ (p = <<>> <=> Len(p) = 0)
  BY <1>1, OffsetFacts, InvFacts, PayloadFacts, ReassemblerAssumption
<1>3. PICK c, fresh, answer : /\ c = Content(segments)
                              /\ fresh = {b \in o .. (o + Len(p) - 1) : b >= nextOffset}
                              /\ answer = Answer(o, p, c, fresh)
  OBVIOUS
<1>4. fresh = first .. o + Len(p) - 1
  BY <1>1, <1>2, <1>3, FreshFacts
<1>5. /\ DOMAIN c = Covered(segments) /\ \A b \in Covered(segments) : c[b] = At(segments, b)
      /\ c = [b \in Covered(segments) |-> c[b]]
  BY <1>3 DEF Content
<1>6. (\E b \in fresh \cap DOMAIN c : c[b] # p[b - o + 1]) <=> Conflicts(o, p, first)
  BY <1>4, <1>5, ConflictsIs
<1>7. answer = IF p = <<>> \/ end > MaxOffset THEN "invalid"
               ELSE IF end <= nextOffset THEN "ok"
               ELSE IF \E f \in finOffset : end > f THEN "fin"
               ELSE IF end - nextOffset > Window THEN "window"
               ELSE IF Conflicts(o, p, first) THEN "overlap"
               ELSE IF Cardinality(Runs(fresh \cup DOMAIN c)) > MaxSegments THEN "segments"
               ELSE "ok"
  BY <1>1, <1>2, <1>3, <1>6 DEF Answer
<1>8. o > MaxOffset - Len(p) <=> end > MaxOffset
  BY <1>1, <1>2
<1>9. UNCHANGED <<nextOffset, finOffset>> /\ wrote' = <<>>
  BY DEF Push
<1>10. SUFFICES result' = answer /\ Content(segments') = Pushed(o, p, c, fresh, answer)
  BY <1>3, <1>9, BufferPush
<1>11. ASSUME NEW refusal \in {"invalid", "fin", "window", "overlap"}, Refuse(refusal), answer = refusal
       PROVE  result' = answer /\ Content(segments') = Pushed(o, p, c, fresh, answer)
  BY <1>3, <1>11 DEF Refuse, Pushed
<1>12. CASE (p = <<>> \/ o > MaxOffset - Len(p)) /\ Refuse("invalid")
  BY <1>7, <1>8, <1>11, <1>12
<1>13. CASE p # <<>> /\ o <= MaxOffset - Len(p) /\ end <= nextOffset /\ Refuse("ok")
  <2>1. answer = "ok" /\ result' = "ok"
    BY <1>2, <1>7, <1>8, <1>13 DEF Refuse
  <2>2. fresh = {}
    BY <1>1, <1>2, <1>4, <1>13
  <2>3. Content(segments') = c
    BY <1>3, <1>13 DEF Refuse
  <2>4. [b \in fresh \cup DOMAIN c |-> IF b \in DOMAIN c THEN c[b] ELSE p[b - o + 1]] = c
    BY <1>5, <2>2
  <2> QED BY <2>1, <2>3, <2>4 DEF Pushed
<1>14. CASE /\ p # <<>> /\ o <= MaxOffset - Len(p) /\ end > nextOffset
            /\ (\E f \in finOffset : end > f) /\ Refuse("fin")
  <2>1. answer = "fin"
    BY <1>2, <1>7, <1>8, <1>14
  <2> QED BY <1>11, <1>14, <2>1
<1>15. CASE /\ p # <<>> /\ o <= MaxOffset - Len(p) /\ end > nextOffset
            /\ ~(\E f \in finOffset : end > f) /\ end - nextOffset > Window /\ Refuse("window")
  <2>1. answer = "window"
    BY <1>2, <1>7, <1>8, <1>15
  <2> QED BY <1>11, <1>15, <2>1
<1>16. CASE /\ p # <<>> /\ o <= MaxOffset - Len(p) /\ end > nextOffset
            /\ ~(\E f \in finOffset : end > f) /\ end - nextOffset <= Window
            /\ Conflicts(o, p, first) /\ Refuse("overlap")
  <2>1. answer = "overlap"
    BY <1>2, <1>7, <1>8, <1>16
  <2> QED BY <1>11, <1>16, <2>1
<1>17. CASE /\ p # <<>> /\ o <= MaxOffset - Len(p) /\ end > nextOffset
            /\ ~(\E f \in finOffset : end > f) /\ end - nextOffset <= Window
            /\ ~Conflicts(o, p, first) /\ Insert(o, p, first)
  <2>1. Meets(segments, o, p, first) /\ nextOffset <= first
    BY <1>1, <1>17, PushMeets
  <2>2. Inserted(o, p, first)
    <3>1. o + Len(p) - nextOffset <= Window
      BY <1>1, <1>2, <1>17
    <3> QED BY <1>17, <2>1, <3>1, InsertInserts
  <2>3. /\ Content(segments') = [b \in fresh \cup DOMAIN c |->
                                   IF b \in DOMAIN c THEN c[b] ELSE p[b - o + 1]]
        /\ Cardinality(Runs(Covered(segments'))) = Len(segments')
    <3>1. PICK d : d = [b \in (first .. o + Len(p) - 1) \cup Covered(segments) |->
                          IF b \in Covered(segments) THEN At(segments, b) ELSE p[b - o + 1]]
      OBVIOUS
    <3>2. d = [b \in fresh \cup DOMAIN c |-> IF b \in DOMAIN c THEN c[b] ELSE p[b - o + 1]]
      BY <1>4, <1>5, <3>1
    <3> QED BY ZenonT(30), <2>2, <3>1, <3>2, InsertedContent
  <2>4. Covered(segments') = fresh \cup DOMAIN c
    BY <1>4, <1>5, <2>2 DEF Inserted
  <2>5. result' = IF Len(segments') > MaxSegments THEN "segments" ELSE "ok"
    BY <2>2 DEF Inserted
  <2>6. answer = IF Len(segments') > MaxSegments THEN "segments" ELSE "ok"
    BY <1>2, <1>7, <1>8, <1>17, <2>3, <2>4
  <2> QED BY <2>3, <2>5, <2>6 DEF Pushed
<1> QED BY <1>1, <1>12, <1>13, <1>14, <1>15, <1>16, <1>17, PushSplit

\* The FIN is refused where the map of bytes refuses it.
LEMMA SetFINRefines ==
  ASSUME SegmentsInv, NEW o \in Offset, SetFIN(o)
  PROVE  Buffer!SetFIN(o)
<1>1. PICK c : c = Content(segments)
  OBVIOUS
<1>2. [b \in Kept |-> ByteAt(b)] = c /\ [b \in Kept |-> ByteAt(b)]' = Content(segments')
  BY <1>1, ContentNow, ContentNext
<1>3. (\E i \in 1 .. Len(segments) : segments[i].end > o) <=> \E b \in DOMAIN c : b >= o
  <2>1. DOMAIN c = Covered(segments) /\ o \in Nat
    BY <1>1, OffsetFacts DEF Content
  <2>2. ASSUME NEW i \in 1 .. Len(segments), segments[i].end > o
        PROVE  \E b \in Covered(segments) : b >= o
    <3>1. segments[i].end - 1 \in Covered(segments) /\ segments[i].end \in Nat
      BY InvFacts, EndsCovered
    <3> QED BY <2>1, <2>2, <3>1
  <2>3. ASSUME NEW b \in Covered(segments), b >= o
        PROVE  \E i \in 1 .. Len(segments) : segments[i].end > o
    <3>1. PICK i \in 1 .. Len(segments) : Covers(segments[i], b)
      BY DEF Covered
    <3>2. b \in Nat /\ segments[i].end \in Nat /\ b < segments[i].end
      BY <3>1, InvFacts, OffsetFacts DEF Covered, Covers
    <3> QED BY <2>1, <2>3, <3>2
  <2> QED BY <2>1, <2>2, <2>3
<1>4. PICK bad \in BOOLEAN :
        bad <=> (o < nextOffset \/ (\E b \in DOMAIN c : b >= o) \/ \E f \in finOffset : f # o)
  OBVIOUS
<1>5. /\ result' = (IF bad THEN "fin" ELSE "ok") /\ finOffset' = (IF bad THEN finOffset ELSE {o})
      /\ wrote' = <<>> /\ UNCHANGED <<nextOffset, buffered, segments>>
  BY <1>3, <1>4 DEF SetFIN
<1>6. Content(segments') = c
  BY <1>1, <1>5
<1>7. Buffer!SetFIN(o) <=>
        /\ result' = (IF \/ o < nextOffset \/ \E b \in DOMAIN [b \in Kept |-> ByteAt(b)] : b >= o
                         \/ \E e \in finOffset : e # o
                        THEN "fin" ELSE "ok")
        /\ finOffset' = (IF result' = "ok" THEN {o} ELSE finOffset)
        /\ wrote' = <<>>
        /\ UNCHANGED nextOffset /\ [b \in Kept |-> ByteAt(b)]' = [b \in Kept |-> ByteAt(b)]
  BY DEF Buffer!SetFIN
<1>8. Buffer!SetFIN(o) <=>
        /\ result' = (IF bad THEN "fin" ELSE "ok")
        /\ finOffset' = (IF result' = "ok" THEN {o} ELSE finOffset)
        /\ wrote' = <<>>
        /\ UNCHANGED nextOffset /\ Content(segments') = c
  BY <1>2, <1>4, <1>7
<1> QED BY <1>5, <1>6, <1>8

\* A drain hands out the contiguous bytes of the map and keeps the others.
LEMMA DrainRefines ==
  ASSUME SegmentsInv, NEW stop \in Offset, Draining(stop)
  PROVE  \E n \in 0 .. Window : Buffer!Drain(n)
<1>1. /\ nextOffset \in Nat /\ stop \in Nat /\ nextOffset <= stop /\ Window \in Nat
      /\ Placed(segments, nextOffset) /\ segments \in Seq(Segment) /\ Apart(segments)
      /\ segments' \in Seq(Segment) /\ Apart(segments')
  BY InvFacts, OffsetFacts, ReassemblerAssumption DEF Draining, Drops, Placed
<1>2. \A b \in nextOffset .. stop - 1 : b \in Covered(segments)
  BY DEF Draining, Drops
<1>3. PICK n : n = stop - nextOffset
  OBVIOUS
<1>4. n \in 0 .. Window /\ nextOffset + n = stop
  <2>1. CASE nextOffset < stop
    <3>1. stop - 1 \in Covered(segments)
      BY <1>1, <1>2, <2>1
    <3>2. stop - 1 < nextOffset + Window
      BY <1>1, <3>1 DEF Placed
    <3> QED BY <1>1, <1>3, <3>2
  <2> QED BY <1>1, <1>3, <2>1
<1>5. PICK c : c = Content(segments)
  OBVIOUS
<1>6. DOMAIN c = Covered(segments) /\ \A b \in Covered(segments) : c[b] = At(segments, b)
  BY <1>5 DEF Content
<1>7. [b \in Kept |-> ByteAt(b)] = c /\ [b \in Kept |-> ByteAt(b)]' = Content(segments')
  BY <1>5, ContentNow, ContentNext
<1>8. nextOffset .. nextOffset + n - 1 \subseteq DOMAIN c
  BY <1>1, <1>2, <1>4, <1>6
<1>9. wrote' = [i \in 1 .. n |-> c[nextOffset + i - 1]]
  <2>1. ASSUME NEW i \in 1 .. n
        PROVE  ByteAt(nextOffset + i - 1) = c[nextOffset + i - 1]
    <3>1. nextOffset + i - 1 \in Covered(segments)
      BY <1>1, <1>2, <1>3
    <3> QED BY <1>1, <1>6, <3>1, ByteOf
  <2>2. wrote' = [i \in 1 .. n |-> ByteAt(nextOffset + i - 1)]
    BY <1>3 DEF Draining
  <2> QED BY <2>1, <2>2
<1>10. Content(segments') = [b \in {d \in DOMAIN c : d >= stop} |-> c[b]]
  <2>1. Covered(segments') = {d \in DOMAIN c : d >= stop}
    BY <1>6 DEF Draining, Drops
  <2>2. ASSUME NEW b \in Covered(segments')
        PROVE  At(segments', b) = c[b]
    <3>1. Has(segments', b, At(segments', b))
      BY <1>1, AtFacts
    <3>2. Has(segments, b, At(segments', b))
      BY <3>1 DEF Draining, Drops
    <3>3. b \in Covered(segments)
      BY <1>6, <2>1
    <3> QED BY <1>1, <1>6, <3>2, <3>3, AtFacts
  <2> QED BY <2>1, <2>2 DEF Content
<1>11. PICK answers : answers = IF stop \in DOMAIN c THEN {}
                                ELSE {IF stop \in finOffset THEN "finished" ELSE "ok"}
  OBVIOUS
<1>12. nextOffset' = stop /\ finOffset' = finOffset /\ result' \in {"error"} \cup answers
  BY <1>6, <1>11 DEF Draining
<1>13. Buffer!Drain(n) <=>
         /\ nextOffset .. (nextOffset + n - 1) \subseteq DOMAIN [b \in Kept |-> ByteAt(b)]
         /\ wrote' = [i \in 1 .. n |-> [b \in Kept |-> ByteAt(b)][nextOffset + i - 1]]
         /\ nextOffset' = nextOffset + n
         /\ [b \in Kept |-> ByteAt(b)]' =
              [b \in {d \in DOMAIN [b \in Kept |-> ByteAt(b)] : d >= nextOffset + n} |->
                 [x \in Kept |-> ByteAt(x)][b]]
         /\ result' \in {"error"} \cup
              IF nextOffset + n \in DOMAIN [b \in Kept |-> ByteAt(b)] THEN {}
              ELSE {IF nextOffset + n \in finOffset THEN "finished" ELSE "ok"}
         /\ UNCHANGED finOffset
  BY DEF Buffer!Drain
<1>14. Buffer!Drain(n) <=>
         /\ nextOffset .. (nextOffset + n - 1) \subseteq DOMAIN c
         /\ wrote' = [i \in 1 .. n |-> c[nextOffset + i - 1]]
         /\ nextOffset' = stop
         /\ Content(segments') = [b \in {d \in DOMAIN c : d >= stop} |-> c[b]]
         /\ result' \in {"error"} \cup answers
         /\ UNCHANGED finOffset
  BY <1>4, <1>7, <1>11, <1>13
<1> QED BY <1>4, <1>8, <1>9, <1>10, <1>12, <1>14

\* The reassembler starts as an empty map of bytes, and each of its steps is
\* one of the map.
LEMMA BufferInit == Init => Buffer!Init
<1> SUFFICES ASSUME Init PROVE Buffer!Init
  OBVIOUS
<1>1. /\ nextOffset = 0 /\ finOffset = {} /\ segments = <<>> /\ wrote = <<>> /\ result = "ok"
  BY DEF Init
<1>2. 1 .. Len(segments) = {}
  BY <1>1
<1>3. Kept = {}
  BY <1>2 DEF Kept
<1>4. [b \in Kept |-> ByteAt(b)] = <<>>
  BY <1>3
<1> QED BY <1>1, <1>4 DEF Buffer!Init

LEMMA BufferStep == SegmentsInv /\ [Next]_vars => [Buffer!Next]_(Buffer!bufferVars)
<1> SUFFICES ASSUME SegmentsInv, [Next]_vars
             PROVE  [Buffer!Next]_(Buffer!bufferVars)
  OBVIOUS
<1>1. ASSUME NEW o \in Offset, NEW p \in Payload, Push(o, p)
      PROVE  Buffer!Next
  BY <1>1, PushRefines DEF Buffer!Next, Buffer!Offset, Buffer!Payload, Offset, Payload
<1>2. ASSUME NEW o \in Offset, SetFIN(o)
      PROVE  Buffer!Next
  BY <1>2, SetFINRefines DEF Buffer!Next, Buffer!Offset, Offset
<1>3. ASSUME DrainTo \/ DrainFails
      PROVE  Buffer!Next
  BY <1>3, DrainFacts, DrainRefines DEF Buffer!Next
<1>4. ASSUME UNCHANGED vars
      PROVE  UNCHANGED Buffer!bufferVars
  <2>1. /\ segments' = segments /\ nextOffset' = nextOffset /\ finOffset' = finOffset
        /\ wrote' = wrote /\ result' = result
    BY <1>4 DEF vars
  <2>2. [b \in Kept |-> ByteAt(b)]' = [b \in Kept |-> ByteAt(b)]
    BY <2>1, ContentNow, ContentNext
  <2> QED BY <2>1, <2>2 DEF Buffer!bufferVars
<1> QED BY <1>1, <1>2, <1>3, <1>4 DEF Next

\* Trimming to the next offset, filling gaps between segments, sorting and
\* merging them and writing a part of one do to the stream what a map from
\* offsets to bytes does (push, mergeSegments, SetFIN, DrainTo).
THEOREM BufferImplemented == Spec => ImplementsBuffer
<1>1. Init => Buffer!Init
  BY BufferInit
<1>2. SegmentsInv /\ [Next]_vars => [Buffer!Next]_(Buffer!bufferVars)
  BY BufferStep
<1> QED BY <1>1, <1>2, SegmentsInvariant, PTL DEF Spec, ImplementsBuffer, Buffer!Spec

\* Push and SetFIN give each payload and each FIN the answer the map of bytes
\* gives it, errors included, and have the effect they have there (push,
\* SetFIN).
THEOREM AnswersSame == Spec => SameAnswers
<1>1. SegmentsInv /\ [Next]_vars =>
        [/\ \A o \in Offset, p \in Payload : Push(o, p) => Buffer!Push(o, p)
         /\ \A o \in Offset : SetFIN(o) => Buffer!SetFIN(o)]_vars
  BY PushRefines, SetFINRefines
<1> QED BY <1>1, SegmentsInvariant, PTL DEF Spec, SameAnswers
=============================================================================
