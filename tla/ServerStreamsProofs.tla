------------------------ MODULE ServerStreamsProofs ------------------------
(***************************************************************************)
(* Proofs about module ServerStreams, for any virtual streams, identifiers *)
(* and destinations and any limits: the table of logical streams and the   *)
(* list of closed identifiers are well-formed, and an identifier is dialled*)
(* a second time only when the code says it may be.                        *)
(***************************************************************************)
EXTENDS ServerStreams, FiniteSetTheorems, FunctionTheorems, TLAPS

-----------------------------------------------------------------------------
(* Lists that rise along a function of their elements, as closedOrder does  *)
(* along the last time that an identifier was closed.                      *)

Rising(list, last) ==
  \A m, n \in 1 .. Len(list) : m < n => last[list[m]] < last[list[n]]

LEMMA InRange ==
  ASSUME NEW list \in Seq(StreamId)
  PROVE  /\ \A x : x \in Range(list) <=> \E m \in 1 .. Len(list) : x = list[m]
         /\ \A m \in 1 .. Len(list) : list[m] \in StreamId
BY DEF Range

LEMMA RisingTail ==
  ASSUME NEW list \in Seq(StreamId), NEW last \in [StreamId -> Nat], Rising(list, last),
         NEW n \in 0 .. Len(list), NEW tail, tail = SubSeq(list, n + 1, Len(list))
  PROVE  /\ tail \in Seq(StreamId) /\ Len(tail) = Len(list) - n
         /\ \A m \in 1 .. Len(tail) : tail[m] = list[m + n]
         /\ Rising(tail, last)
         /\ Range(tail) = Range(list) \ {list[m] : m \in 1 .. n}
<1>1. /\ tail \in Seq(StreamId) /\ Len(tail) = Len(list) - n
      /\ \A m \in 1 .. Len(tail) : tail[m] = list[m + n]
  <2>1. CASE n = Len(list)
    BY <2>1
  <2>2. CASE n < Len(list)
    BY <2>2
  <2> QED BY <2>1, <2>2
<1>2. Rising(tail, last)
  BY <1>1 DEF Rising
<1>3. Range(tail) = Range(list) \ {list[m] : m \in 1 .. n}
  <2>1. /\ \A x : x \in Range(tail) <=> \E m \in 1 .. Len(tail) : x = tail[m]
        /\ \A x : x \in Range(list) <=> \E m \in 1 .. Len(list) : x = list[m]
        /\ \A m \in 1 .. Len(list) : list[m] \in StreamId
    BY <1>1, InRange
  <2>2. ASSUME NEW x \in Range(tail)
        PROVE  x \in Range(list) \ {list[m] : m \in 1 .. n}
    <3>1. PICK m \in 1 .. Len(tail) : x = tail[m]
      BY <2>1
    <3>2. x = list[m + n] /\ m + n \in 1 .. Len(list)
      BY <1>1, <3>1
    <3>3. ASSUME NEW k \in 1 .. n
          PROVE  list[k] # x
      <4>1. k \in 1 .. Len(list) /\ k < m + n
        BY <1>1
      <4>2. last[list[k]] < last[list[m + n]] /\ last[list[k]] \in Nat
        BY <2>1, <3>2, <4>1 DEF Rising
      <4> QED BY SMTT(30), <3>2, <4>2
    <3>4. x \notin {list[k] : k \in 1 .. n}
      BY <3>3
    <3> QED BY <2>1, <3>2, <3>4
  <2>3. ASSUME NEW x \in Range(list) \ {list[m] : m \in 1 .. n}
        PROVE  x \in Range(tail)
    <3>1. PICK m \in 1 .. Len(list) : x = list[m]
      BY <2>1
    <3>2. m \notin 1 .. n
      BY <3>1
    <3>3. m - n \in 1 .. Len(tail) /\ tail[m - n] = list[m - n + n]
      BY <1>1, <3>2
    <3>4. x = tail[m - n]
      BY <3>1, <3>3
    <3> QED BY <2>1, <3>3, <3>4
  <2> QED BY <2>2, <2>3
<1> QED BY <1>1, <1>2, <1>3

LEMMA RisingDistinct ==
  ASSUME NEW list \in Seq(StreamId), NEW last \in [StreamId -> Nat], Rising(list, last)
  PROVE  \A m, n \in 1 .. Len(list) : list[m] = list[n] => m = n
<1> SUFFICES ASSUME NEW m \in 1 .. Len(list), NEW n \in 1 .. Len(list), list[m] = list[n], m < n
             PROVE  FALSE
  OBVIOUS
<1>1. last[list[m]] < last[list[n]] /\ last[list[m]] \in Nat
  BY DEF Rising
<1> QED BY <1>1

LEMMA UpTo ==
  ASSUME NEW k \in Nat, NEW n \in 1 .. k + 1
  PROVE  n = k + 1 \/ n \in 1 .. k
OBVIOUS

LEMMA ConcatIs ==
  ASSUME NEW a \in Seq(StreamId), NEW b \in Seq(StreamId)
  PROVE  /\ a \o b \in Seq(StreamId) /\ Len(a \o b) = Len(a) + Len(b)
         /\ \A m \in 1 .. Len(a) + Len(b) :
              (a \o b)[m] = IF m <= Len(a) THEN a[m] ELSE b[m - Len(a)]
OBVIOUS

LEMMA RisingUnlisted ==
  ASSUME NEW list \in Seq(StreamId), NEW last \in [StreamId -> Nat], Rising(list, last),
         NEW id \in StreamId, NEW rest, rest = Unlisted(list, id)
  PROVE  /\ rest \in Seq(StreamId) /\ Len(rest) <= Len(list)
         /\ id \in Range(list) => Len(rest) = Len(list) - 1
         /\ Rising(rest, last)
         /\ Range(rest) = Range(list) \ {id}
<1>0. /\ \A x : x \in Range(list) <=> \E m \in 1 .. Len(list) : x = list[m]
      /\ \A m \in 1 .. Len(list) : list[m] \in StreamId
  BY InRange
<1>1. CASE ~ \E n \in 1 .. Len(list) : list[n] = id
  BY SMTT(30), <1>0, <1>1 DEF Unlisted
<1>2. CASE \E n \in 1 .. Len(list) : list[n] = id
  <2>1. PICK n \in 1 .. Len(list) : /\ list[n] = id
                                    /\ rest = SubSeq(list, 1, n - 1) \o SubSeq(list, n + 1, Len(list))
    BY <1>2 DEF Unlisted
  <2> DEFINE front == SubSeq(list, 1, n - 1)
             back == SubSeq(list, n + 1, Len(list))
  <2>2. /\ front \in Seq(StreamId) /\ Len(front) = n - 1
        /\ \A m \in 1 .. n - 1 : front[m] = list[m]
    <3>1. CASE n = 1
      BY <3>1
    <3>2. CASE n > 1
      BY <3>2
    <3> QED BY <3>1, <3>2
  <2>3. /\ back \in Seq(StreamId) /\ Len(back) = Len(list) - n
        /\ \A m \in 1 .. Len(back) : back[m] = list[m + n]
    BY RisingTail
  <2> HIDE DEF front, back
  <2>4. rest = front \o back
    BY <2>1 DEF front, back
  <2>5. /\ rest \in Seq(StreamId) /\ Len(rest) = Len(list) - 1
        /\ \A m \in 1 .. Len(rest) : rest[m] = IF m < n THEN list[m] ELSE list[m + 1]
    <3>1. /\ rest \in Seq(StreamId) /\ Len(rest) = Len(front) + Len(back)
          /\ \A m \in 1 .. Len(rest) : rest[m] = IF m <= Len(front) THEN front[m] ELSE back[m - Len(front)]
      <4>1. front \in Seq(StreamId) /\ back \in Seq(StreamId)
        BY <2>2, <2>3
      <4>2. /\ front \o back \in Seq(StreamId) /\ Len(front \o back) = Len(front) + Len(back)
            /\ \A m \in 1 .. Len(front) + Len(back) :
                 (front \o back)[m] = IF m <= Len(front) THEN front[m] ELSE back[m - Len(front)]
        BY <4>1, ConcatIs
      <4> QED BY <2>4, <4>2
    <3>2. Len(rest) = Len(list) - 1
      BY <2>2, <2>3, <3>1
    <3>3. ASSUME NEW m \in 1 .. Len(rest)
          PROVE  rest[m] = IF m < n THEN list[m] ELSE list[m + 1]
      <4>1. CASE m < n
        BY <2>2, <3>1, <4>1
      <4>2. CASE ~(m < n)
        <5>0. n \in Int /\ m \in Int /\ Len(list) \in Int /\ n <= m /\ m <= Len(list) - 1
          BY <3>2, <4>2
        <5>1. rest[m] = back[m - (n - 1)] /\ m - (n - 1) \in 1 .. Len(back)
          BY <2>2, <2>3, <3>1, <5>0
        <5>2. m - (n - 1) + n = m + 1
          OBVIOUS
        <5> QED BY <2>3, <4>2, <5>1, <5>2
      <4> QED BY <4>1, <4>2
    <3> QED BY <3>1, <3>2, <3>3
  <2>6. Rising(rest, last)
    <3> SUFFICES ASSUME NEW m \in 1 .. Len(rest), NEW k \in 1 .. Len(rest), m < k
                 PROVE  last[rest[m]] < last[rest[k]]
      BY DEF Rising
    <3>0. Len(list) \in Nat /\ Len(rest) = Len(list) - 1
      BY <2>5
    <3> DEFINE At(x) == IF x < n THEN x ELSE x + 1
    <3>1. At(m) \in 1 .. Len(list) /\ At(k) \in 1 .. Len(list) /\ At(m) < At(k)
      BY <3>0
    <3>2. rest[m] = list[At(m)] /\ rest[k] = list[At(k)]
      BY <2>5
    <3> HIDE DEF At
    <3> QED BY <3>1, <3>2 DEF Rising
  <2>7. \A x : x \in Range(rest) <=> \E m \in 1 .. Len(rest) : x = rest[m]
    BY <2>5, InRange
  <2>8. ASSUME NEW x \in Range(rest)
        PROVE  x \in Range(list) \ {id}
    <3>1. PICK m \in 1 .. Len(rest) : x = rest[m]
      BY <2>7
    <3>2. \E k \in 1 .. Len(list) : k # n /\ x = list[k]
      <4>1. CASE m < n
        BY SMTT(30), <2>5, <3>1, <4>1
      <4>2. CASE ~(m < n)
        <5>1. m + 1 \in 1 .. Len(list) /\ m + 1 # n /\ x = list[m + 1]
          BY SMTT(30), <2>5, <3>1, <4>2
        <5> QED BY <5>1
      <4> QED BY <4>1, <4>2
    <3> QED BY SMTT(30), <1>0, <2>1, <3>2, RisingDistinct
  <2>9. ASSUME NEW x \in Range(list) \ {id}
        PROVE  x \in Range(rest)
    <3>1. PICK k \in 1 .. Len(list) : x = list[k]
      BY <1>0
    <3>2. k # n
      BY <2>1, <3>1
    <3>3. CASE k < n
      <4>1. k \in 1 .. Len(rest) /\ rest[k] = x
        BY SMTT(30), <2>5, <3>1, <3>3
      <4> QED BY <2>7, <4>1
    <3>4. CASE k > n
      <4>1. k - 1 \in 1 .. Len(rest) /\ ~(k - 1 < n) /\ k - 1 + 1 = k
        BY <2>5, <3>4
      <4>2. rest[k - 1] = x
        BY <2>5, <3>1, <4>1
      <4> QED BY <2>7, <4>1, <4>2
    <3> QED BY <3>2, <3>3, <3>4
  <2>10. Range(rest) = Range(list) \ {id}
    BY <2>8, <2>9
  <2> QED BY <2>5, <2>6, <2>10
<1> QED BY <1>1, <1>2

LEMMA RisingAppend ==
  ASSUME NEW list \in Seq(StreamId), NEW last \in [StreamId -> Nat], Rising(list, last),
         NEW id \in StreamId \ Range(list), NEW later \in [StreamId -> Nat],
         \A i \in StreamId \ {id} : later[i] = last[i],
         \A i \in StreamId : last[i] < later[id]
  PROVE  /\ Append(list, id) \in Seq(StreamId) /\ Len(Append(list, id)) = Len(list) + 1
         /\ Rising(Append(list, id), later)
         /\ Range(Append(list, id)) = Range(list) \cup {id}
<1> DEFINE longer == Append(list, id)
<1>0. /\ \A x : x \in Range(list) <=> \E m \in 1 .. Len(list) : x = list[m]
      /\ \A m \in 1 .. Len(list) : list[m] \in StreamId
  BY InRange
<1>1. /\ longer \in Seq(StreamId) /\ Len(longer) = Len(list) + 1
      /\ \A m \in 1 .. Len(list) : longer[m] = list[m]
      /\ longer[Len(list) + 1] = id
  OBVIOUS
<1> HIDE DEF longer
<1>2. \A m \in 1 .. Len(list) : list[m] \in StreamId \ {id}
  BY <1>0
<1>3. Rising(longer, later)
  <2> SUFFICES ASSUME NEW m \in 1 .. Len(longer), NEW n \in 1 .. Len(longer), m < n
               PROVE  later[longer[m]] < later[longer[n]]
    BY DEF Rising
  <2>1. m \in 1 .. Len(list) /\ longer[m] = list[m] /\ later[list[m]] = last[list[m]]
    <3>1. m \in 1 .. Len(list)
      BY <1>1
    <3>2. list[m] \in StreamId \ {id}
      BY <1>2, <3>1
    <3> QED BY <1>1, <3>1, <3>2
  <2>2. CASE n = Len(list) + 1
    <3>1. longer[n] = id /\ list[m] \in StreamId
      BY <1>0, <1>1, <2>1, <2>2
    <3> QED BY <2>1, <3>1
  <2>3. CASE n \in 1 .. Len(list)
    <3>1. longer[n] = list[n] /\ list[n] \in StreamId \ {id}
      BY <1>1, <1>2, <2>3
    <3>2. last[list[m]] < last[list[n]]
      BY <2>1, <2>3 DEF Rising
    <3> QED BY <2>1, <3>1, <3>2
  <2>4. Len(list) \in Nat /\ Len(longer) = Len(list) + 1
    BY <1>1
  <2>5. n = Len(list) + 1 \/ n \in 1 .. Len(list)
    BY <2>4, UpTo
  <2> QED BY <2>2, <2>3, <2>5
<1>4. \A x : x \in Range(longer) <=> \E m \in 1 .. Len(longer) : x = longer[m]
  BY <1>1, InRange
<1>5. Range(longer) = Range(list) \cup {id}
  <2>1. ASSUME NEW x \in Range(longer)
        PROVE  x \in Range(list) \cup {id}
    <3>1. PICK m \in 1 .. Len(longer) : x = longer[m]
      BY <1>4
    <3>2. CASE m = Len(list) + 1
      BY <1>1, <3>1, <3>2
    <3>3. CASE m \in 1 .. Len(list)
      BY <1>0, <1>1, <3>1, <3>3
    <3> QED BY <1>1, <3>2, <3>3
  <2>2. ASSUME NEW x \in Range(list) \cup {id}
        PROVE  x \in Range(longer)
    <3>1. CASE x = id
      <4>1. Len(list) + 1 \in 1 .. Len(longer)
        BY <1>1
      <4> QED BY <1>1, <1>4, <3>1, <4>1
    <3>2. CASE x \in Range(list)
      <4>1. PICK m \in 1 .. Len(list) : x = list[m]
        BY <1>0, <3>2
      <4>2. m \in 1 .. Len(longer) /\ x = longer[m]
        BY <1>1, <4>1
      <4> QED BY <1>4, <4>2
    <3> QED BY <3>1, <3>2
  <2> QED BY <2>1, <2>2
<1> QED BY <1>1, <1>3, <1>5 DEF longer

LEMMA RisingLength ==
  ASSUME NEW list \in Seq(StreamId), NEW last \in [StreamId -> Nat], Rising(list, last)
  PROVE  IsFiniteSet(Range(list)) /\ Cardinality(Range(list)) = Len(list)
<1>1. list \in Surjection(1 .. Len(list), Range(list))
  BY InRange DEF Surjection
<1>2. list \in Injection(1 .. Len(list), Range(list))
  BY <1>1, RisingDistinct DEF Injection, IsInjective, Surjection
<1>3. ExistsBijection(1 .. Len(list), Range(list))
  BY <1>1, <1>2 DEF ExistsBijection, Bijection
<1> QED BY <1>3, FS_CountingElements, FS_NatBijection

-----------------------------------------------------------------------------
(* The history of closed identifiers.                                      *)

Entry == [id : StreamId, at : Nat]

LEMMA LastEndedIs ==
  ASSUME NEW h, NEW i, NEW n \in Nat
  PROVE  /\ \A k : k \in LastEnded(h, i, n) <=>
              /\ k \in 1 .. n /\ h[k].id = i
              /\ \A m \in k + 1 .. n : h[m].id # i
         /\ \A k, l \in LastEnded(h, i, n) : k = l
<1>1. \A k : k \in LastEnded(h, i, n) <=>
         /\ k \in 1 .. n /\ h[k].id = i
         /\ \A m \in k + 1 .. n : h[m].id # i
  BY DEF LastEnded
<1>2. ASSUME NEW k \in LastEnded(h, i, n), NEW l \in LastEnded(h, i, n), k < l
      PROVE  FALSE
  <2>1. k \in 1 .. n /\ l \in 1 .. n
    BY <1>1
  <2>2. l \in k + 1 .. n
    BY <1>2, <2>1
  <2> QED BY <1>1, <2>2
<1>3. \A k, l \in LastEnded(h, i, n) : k = l
  <2>1. \A k \in LastEnded(h, i, n) : k \in Nat
    BY <1>1
  <2> QED BY <1>2, <2>1
<1> QED BY <1>1, <1>3

\* One more entry: what was known of the first n does not change, and what
\* is known of all changes for its identifier only.
Grown(h, e, longer) ==
  /\ longer \in Seq(Entry) /\ Len(longer) = Len(h) + 1 /\ longer[Len(h) + 1] = e
  /\ \A k \in 1 .. Len(h) : longer[k] = h[k]
  /\ \A i, n : n \in 0 .. Len(h) => LastEnded(longer, i, n) = LastEnded(h, i, n)
  /\ \A k, n : n \in 0 .. Len(h) /\ k \in Nat =>
       EndedAfter(longer, k, n) = EndedAfter(h, k, n)
  /\ \A i : i # e.id => LastEnded(longer, i, Len(longer)) = LastEnded(h, i, Len(h))
  /\ LastEnded(longer, e.id, Len(longer)) = {Len(h) + 1}
  /\ \A k \in 1 .. Len(h) :
       EndedAfter(longer, k, Len(longer)) = EndedAfter(h, k, Len(h)) \cup {e.id}

LEMMA HistoryGrows ==
  ASSUME NEW h \in Seq(Entry), NEW e \in Entry, NEW longer, longer = Append(h, e)
  PROVE  Grown(h, e, longer)
<1>1. /\ longer \in Seq(Entry) /\ Len(longer) = Len(h) + 1 /\ longer[Len(h) + 1] = e
      /\ \A k \in 1 .. Len(h) : longer[k] = h[k]
      /\ Len(h) \in Nat
  OBVIOUS
<1>2. ASSUME NEW i, NEW n \in 0 .. Len(h)
      PROVE  LastEnded(longer, i, n) = LastEnded(h, i, n)
  <2>1. \A k \in 1 .. n : /\ longer[k] = h[k]
                          /\ \A m \in k + 1 .. n : longer[m] = h[m]
    BY <1>1
  <2> QED BY <2>1 DEF LastEnded
<1>3. ASSUME NEW n \in 0 .. Len(h), NEW k \in Nat
      PROVE  EndedAfter(longer, k, n) = EndedAfter(h, k, n)
  <2>1. \A m \in k + 1 .. n : longer[m] = h[m]
    BY <1>1
  <2> QED BY <2>1 DEF EndedAfter
<1>4. ASSUME NEW i, i # e.id
      PROVE  LastEnded(longer, i, Len(longer)) = LastEnded(h, i, Len(h))
  <2>1. \A k : k \in LastEnded(longer, i, Len(longer)) <=>
          /\ k \in 1 .. Len(h) + 1 /\ longer[k].id = i
          /\ \A m \in k + 1 .. Len(h) + 1 : longer[m].id # i
    <3>1. Len(longer) \in Nat
      BY <1>1
    <3>2. \A k : k \in LastEnded(longer, i, Len(longer)) <=>
            /\ k \in 1 .. Len(longer) /\ longer[k].id = i
            /\ \A m \in k + 1 .. Len(longer) : longer[m].id # i
      BY DEF LastEnded
    <3> QED BY <1>1, <3>2
  <2>2. \A k : k \in LastEnded(h, i, Len(h)) <=>
          /\ k \in 1 .. Len(h) /\ h[k].id = i
          /\ \A m \in k + 1 .. Len(h) : h[m].id # i
    BY <1>1, LastEndedIs
  <2>3. ASSUME NEW k \in LastEnded(longer, i, Len(longer))
        PROVE  k \in LastEnded(h, i, Len(h))
    <3>1. k # Len(h) + 1
      BY <1>1, <1>4, <2>1
    <3>2. k \in 1 .. Len(h) /\ h[k].id = i
      BY <1>1, <2>1, <3>1, UpTo
    <3>3. \A m \in k + 1 .. Len(h) : m \in k + 1 .. Len(h) + 1 /\ longer[m] = h[m]
      BY <1>1, <3>2
    <3> QED BY <2>1, <2>2, <3>2, <3>3
  <2>4. ASSUME NEW k \in LastEnded(h, i, Len(h))
        PROVE  k \in LastEnded(longer, i, Len(longer))
    <3>1. k \in 1 .. Len(h) + 1 /\ k \in 1 .. Len(h) /\ longer[k].id = i
      BY <1>1, <2>2
    <3>2. ASSUME NEW m \in k + 1 .. Len(h) + 1
          PROVE  longer[m].id # i
      <4>1. CASE m = Len(h) + 1
        BY <1>1, <1>4, <4>1
      <4>2. CASE m # Len(h) + 1
        <5>1. m \in k + 1 .. Len(h) /\ m \in 1 .. Len(h)
          BY <1>1, <3>1, <4>2
        <5> QED BY <1>1, <2>2, <5>1
      <4> QED BY <4>1, <4>2
    <3> QED BY <2>1, <3>1, <3>2
  <2> QED BY <2>3, <2>4
<1>5. LastEnded(longer, e.id, Len(longer)) = {Len(h) + 1}
  <2>1. Len(longer) \in Nat
    BY <1>1
  <2>2. \A k, l \in LastEnded(longer, e.id, Len(longer)) : k = l
    BY <2>1, LastEndedIs
  <2>3. Len(h) + 1 \in LastEnded(longer, e.id, Len(longer))
    <3>1. /\ Len(h) + 1 \in 1 .. Len(longer) /\ longer[Len(h) + 1].id = e.id
          /\ \A m \in Len(h) + 1 + 1 .. Len(longer) : FALSE
      BY <1>1
    <3> QED BY <3>1 DEF LastEnded
  <2> QED BY <2>2, <2>3
<1>6. ASSUME NEW k \in 1 .. Len(h)
      PROVE  EndedAfter(longer, k, Len(longer)) = EndedAfter(h, k, Len(h)) \cup {e.id}
  <2>1. ASSUME NEW x \in EndedAfter(longer, k, Len(longer))
        PROVE  x \in EndedAfter(h, k, Len(h)) \cup {e.id}
    <3>1. PICK m \in k + 1 .. Len(longer) : x = longer[m].id
      BY DEF EndedAfter
    <3>2. CASE m = Len(h) + 1
      BY <1>1, <3>1, <3>2
    <3>3. CASE m # Len(h) + 1
      <4>1. m \in k + 1 .. Len(h) /\ longer[m] = h[m]
        BY <1>1, <3>3
      <4> QED BY <3>1, <4>1 DEF EndedAfter
    <3> QED BY <3>2, <3>3
  <2>2. ASSUME NEW x \in EndedAfter(h, k, Len(h)) \cup {e.id}
        PROVE  x \in EndedAfter(longer, k, Len(longer))
    <3>1. CASE x = e.id
      <4>1. Len(h) + 1 \in k + 1 .. Len(longer)
        BY <1>1
      <4> QED BY <1>1, <3>1, <4>1 DEF EndedAfter
    <3>2. CASE x \in EndedAfter(h, k, Len(h))
      <4>1. PICK m \in k + 1 .. Len(h) : x = h[m].id
        BY <3>2 DEF EndedAfter
      <4>2. m \in k + 1 .. Len(longer) /\ longer[m] = h[m]
        BY <1>1
      <4> QED BY <4>1, <4>2 DEF EndedAfter
    <3> QED BY <3>1, <3>2
  <2> QED BY <2>1, <2>2
<1> QED BY <1>1, <1>2, <1>3, <1>4, <1>5, <1>6 DEF Grown

LEMMA EndedAfterFinite ==
  ASSUME NEW h, NEW k \in Nat, NEW n \in Nat
  PROVE  IsFiniteSet(EndedAfter(h, k, n))
<1>1. IsFiniteSet(k + 1 .. n)
  BY FS_Interval
<1> DEFINE f == [m \in k + 1 .. n |-> h[m].id]
<1>2. f \in Surjection(k + 1 .. n, EndedAfter(h, k, n))
  BY DEF Surjection, EndedAfter
<1> QED BY <1>1, <1>2, FS_Surjection DEF ExistsSurjection

\* When each identifier was last closed, 0 if it never was.
Latest(h) == [i \in StreamId |-> IF LastEnded(h, i, Len(h)) = {} THEN 0
                                 ELSE CHOOSE k \in LastEnded(h, i, Len(h)) : TRUE]

LEMMA LatestIs ==
  ASSUME NEW h \in Seq(Entry)
  PROVE  /\ Latest(h) \in [StreamId -> Nat]
         /\ \A i \in StreamId :
              /\ Latest(h)[i] \in 0 .. Len(h)
              /\ \A k \in LastEnded(h, i, Len(h)) :
                   k = Latest(h)[i] /\ k \in 1 .. Len(h) /\ h[k].id = i
              /\ LastEnded(h, i, Len(h)) # {} => Latest(h)[i] \in LastEnded(h, i, Len(h))
<1>0. Len(h) \in Nat
  OBVIOUS
<1>1. ASSUME NEW i \in StreamId
      PROVE  /\ Latest(h)[i] \in 0 .. Len(h)
             /\ \A k \in LastEnded(h, i, Len(h)) :
                  k = Latest(h)[i] /\ k \in 1 .. Len(h) /\ h[k].id = i
             /\ LastEnded(h, i, Len(h)) # {} => Latest(h)[i] \in LastEnded(h, i, Len(h))
  <2>1. Latest(h)[i] = IF LastEnded(h, i, Len(h)) = {} THEN 0
                       ELSE CHOOSE k \in LastEnded(h, i, Len(h)) : TRUE
    BY DEF Latest
  <2>2. LastEnded(h, i, Len(h)) # {} => Latest(h)[i] \in LastEnded(h, i, Len(h))
    BY <2>1
  <2>3. /\ \A k \in LastEnded(h, i, Len(h)) : k \in 1 .. Len(h) /\ h[k].id = i
        /\ \A k, l \in LastEnded(h, i, Len(h)) : k = l
    BY <1>0, LastEndedIs
  <2>4. LastEnded(h, i, Len(h)) = {} => Latest(h)[i] \in 0 .. Len(h)
    BY <1>0, <2>1
  <2>5. LastEnded(h, i, Len(h)) # {} => Latest(h)[i] \in 0 .. Len(h)
    BY <1>0, <2>2, <2>3
  <2> QED BY <2>2, <2>3, <2>4, <2>5
<1>2. \A i \in StreamId : Latest(h)[i] \in Nat
  BY <1>0, <1>1
<1>3. Latest(h) \in [StreamId -> Nat]
  BY <1>2 DEF Latest
<1> QED BY <1>1, <1>3

-----------------------------------------------------------------------------
(* What the server remembers, of any list, map and history.                *)

Dated(h, t) ==
  /\ \A m, n \in 1 .. Len(h) : m < n => h[m].at <= h[n].at
  /\ \A m \in 1 .. Len(h) : h[m].at <= t

Remembered(list, map, h) ==
  /\ list \in Seq(StreamId) /\ Range(list) = DOMAIN map /\ Len(list) <= Limit
  /\ Rising(list, Latest(h))
  /\ map \in [DOMAIN map -> Nat]
  /\ \A i \in DOMAIN map : /\ Latest(h)[i] \in LastEnded(h, i, Len(h))
                           /\ map[i] = h[Latest(h)[i]].at + TTL

\* ClosedInOrder, of any list, map and history.
InOrder(list, map, h, t) ==
  /\ Range(list) = DOMAIN map /\ Len(list) = Cardinality(DOMAIN map)
  /\ Len(list) <= Limit
  /\ \A m, n \in DOMAIN list : m < n => map[list[m]] <= map[list[n]]
  /\ \A m \in DOMAIN list : \E k \in LastEnded(h, list[m], Len(h)) :
       /\ map[list[m]] = h[k].at + TTL
       /\ \A n \in m + 1 .. Len(list) : \A l \in LastEnded(h, list[n], Len(h)) : k < l
  /\ \A m, n \in DOMAIN h : m < n => h[m].at <= h[n].at
  /\ \A m \in DOMAIN h : h[m].at <= t

LEMMA TTLs == TTL \in Nat \ {0} /\ Limit \in Nat \ {0} /\ MaxStreams \in Nat
BY ServerAssumption DEF ServerAssumption, Limit

LEMMA InOrderRemembered ==
  ASSUME NEW list \in Seq(StreamId), NEW map, map \in [DOMAIN map -> Nat],
         NEW h \in Seq(Entry), NEW t \in Nat, InOrder(list, map, h, t)
  PROVE  Remembered(list, map, h) /\ Dated(h, t)
<1>1. /\ \A m \in 1 .. Len(list) : list[m] \in StreamId
      /\ \A x : x \in Range(list) <=> \E m \in 1 .. Len(list) : x = list[m]
      /\ DOMAIN list = 1 .. Len(list) /\ DOMAIN h = 1 .. Len(h)
  BY InRange
<1>2. Dated(h, t)
  BY <1>1 DEF Dated, InOrder
<1>3. \A m \in 1 .. Len(list) :
        /\ Latest(h)[list[m]] \in LastEnded(h, list[m], Len(h))
        /\ map[list[m]] = h[Latest(h)[list[m]]].at + TTL
  <2> SUFFICES ASSUME NEW m \in 1 .. Len(list)
               PROVE  /\ Latest(h)[list[m]] \in LastEnded(h, list[m], Len(h))
                      /\ map[list[m]] = h[Latest(h)[list[m]]].at + TTL
    OBVIOUS
  <2>1. PICK k \in LastEnded(h, list[m], Len(h)) : map[list[m]] = h[k].at + TTL
    BY <1>1 DEF InOrder
  <2>2. k = Latest(h)[list[m]]
    BY <1>1, LatestIs
  <2> QED BY <2>1, <2>2
<1>4. Rising(list, Latest(h))
  <2> SUFFICES ASSUME NEW m \in 1 .. Len(list), NEW n \in 1 .. Len(list), m < n
               PROVE  Latest(h)[list[m]] < Latest(h)[list[n]]
    BY DEF Rising
  <2>1. PICK k \in LastEnded(h, list[m], Len(h)) :
          \A p \in m + 1 .. Len(list) : \A l \in LastEnded(h, list[p], Len(h)) : k < l
    BY <1>1 DEF InOrder
  <2>2. k = Latest(h)[list[m]]
    BY <1>1, LatestIs
  <2>3. n \in m + 1 .. Len(list)
    OBVIOUS
  <2> QED BY <1>3, <2>1, <2>2, <2>3
<1>5. \A i \in DOMAIN map : /\ Latest(h)[i] \in LastEnded(h, i, Len(h))
                            /\ map[i] = h[Latest(h)[i]].at + TTL
  BY <1>1, <1>3 DEF InOrder
<1> QED BY <1>2, <1>4, <1>5 DEF Remembered, InOrder

LEMMA RememberedInOrder ==
  ASSUME NEW list, NEW map, NEW h \in Seq(Entry), NEW t \in Nat,
         Remembered(list, map, h), Dated(h, t)
  PROVE  InOrder(list, map, h, t) /\ IsFiniteSet(DOMAIN map)
<1>1. list \in Seq(StreamId) /\ Range(list) = DOMAIN map /\ Rising(list, Latest(h))
  BY DEF Remembered
<1>2. /\ \A m \in 1 .. Len(list) : list[m] \in StreamId
      /\ \A m \in 1 .. Len(list) : list[m] \in DOMAIN map
      /\ DOMAIN list = 1 .. Len(list) /\ DOMAIN h = 1 .. Len(h) /\ Len(list) \in Nat
  BY <1>1, InRange
<1>3. /\ Latest(h) \in [StreamId -> Nat]
      /\ \A m \in 1 .. Len(list) :
           \A k \in LastEnded(h, list[m], Len(h)) : k = Latest(h)[list[m]] /\ k \in 1 .. Len(h)
  BY <1>2, LatestIs
<1>4. Len(list) = Cardinality(DOMAIN map) /\ IsFiniteSet(DOMAIN map)
  BY <1>1, <1>3, RisingLength
<1>5. ASSUME NEW m \in 1 .. Len(list)
      PROVE  /\ Latest(h)[list[m]] \in LastEnded(h, list[m], Len(h))
             /\ Latest(h)[list[m]] \in 1 .. Len(h)
             /\ map[list[m]] = h[Latest(h)[list[m]]].at + TTL
  BY <1>2, <1>3 DEF Remembered
<1>6. ASSUME NEW m \in 1 .. Len(list), NEW n \in 1 .. Len(list), m < n
      PROVE  map[list[m]] <= map[list[n]]
  <2>1. Latest(h)[list[m]] < Latest(h)[list[n]]
    BY <1>1, <1>6 DEF Rising
  <2>2. h[Latest(h)[list[m]]].at <= h[Latest(h)[list[n]]].at
    BY <1>5, <2>1 DEF Dated
  <2>3. \A k \in 1 .. Len(h) : h[k].at \in Nat
    <3>1. \A k \in 1 .. Len(h) : h[k] \in Entry
      OBVIOUS
    <3> QED BY <3>1 DEF Entry
  <2> DEFINE x == h[Latest(h)[list[m]]].at
             y == h[Latest(h)[list[n]]].at
  <2>4. x \in Nat /\ y \in Nat /\ map[list[m]] = x + TTL /\ map[list[n]] = y + TTL
    BY <1>5, <2>3
  <2>5. x <= y
    BY <2>2
  <2> HIDE DEF x, y
  <2> QED BY <2>4, <2>5, TTLs
<1>7. ASSUME NEW m \in 1 .. Len(list)
      PROVE  \E k \in LastEnded(h, list[m], Len(h)) :
               /\ map[list[m]] = h[k].at + TTL
               /\ \A n \in m + 1 .. Len(list) : \A l \in LastEnded(h, list[n], Len(h)) : k < l
  <2>1. ASSUME NEW n \in m + 1 .. Len(list), NEW l \in LastEnded(h, list[n], Len(h))
        PROVE  Latest(h)[list[m]] < l
    <3>1. n \in 1 .. Len(list) /\ m < n
      BY <1>2
    <3>2. l = Latest(h)[list[n]]
      BY <1>3, <3>1
    <3> QED BY <1>1, <3>1, <3>2 DEF Rising
  <2> QED BY <1>5, <2>1
<1>8. Len(list) <= Limit
  BY DEF Remembered
<1> QED BY <1>1, <1>2, <1>4, <1>6, <1>7, <1>8 DEF InOrder, Dated

\* removeClosedLocked: fewer identifiers, in a shorter list.
LEMMA RememberedLess ==
  ASSUME NEW list, NEW map, NEW h \in Seq(Entry), Remembered(list, map, h),
         NEW ids, NEW left \in Seq(StreamId), Len(left) <= Len(list),
         Rising(left, Latest(h)), Range(left) = Range(list) \ ids,
         NEW less, less = [i \in DOMAIN map \ ids |-> map[i]]
  PROVE  Remembered(left, less, h)
<1>1. Len(left) <= Limit
  <2>1. Len(left) \in Nat /\ Len(list) \in Nat /\ Len(list) <= Limit
    BY DEF Remembered
  <2> QED BY <2>1, TTLs
<1>2. /\ DOMAIN less = DOMAIN map \ ids
      /\ \A i \in DOMAIN less : less[i] = map[i] /\ i \in DOMAIN map /\ map[i] \in Nat
      /\ less \in [DOMAIN less -> Nat]
  BY DEF Remembered
<1> QED BY <1>1, <1>2 DEF Remembered

\* NothingForgotten, of any map and history.
Known(map, h, t) ==
  \A i \in StreamId : \A k \in LastEnded(h, i, Len(h)) :
    \/ i \in DOMAIN map /\ map[i] = h[k].at + TTL
    \/ t >= h[k].at + TTL
    \/ Cardinality(EndedAfter(h, k, Len(h))) >= Limit

\* removeClosedLocked, of identifiers that have expired.
LEMMA KnownLess ==
  ASSUME NEW map, map \in [DOMAIN map -> Nat], NEW h \in Seq(Entry), NEW t \in Nat,
         Known(map, h, t),
         NEW ids, \A i \in ids : i \in DOMAIN map => map[i] <= t,
         NEW less, less = [i \in DOMAIN map \ ids |-> map[i]]
  PROVE  Known(less, h, t)
<1> SUFFICES ASSUME NEW i \in StreamId, NEW k \in LastEnded(h, i, Len(h))
             PROVE  \/ i \in DOMAIN less /\ less[i] = h[k].at + TTL
                    \/ t >= h[k].at + TTL
                    \/ Cardinality(EndedAfter(h, k, Len(h))) >= Limit
  BY DEF Known
<1>1. CASE i \in DOMAIN map /\ map[i] = h[k].at + TTL
  <2>1. CASE i \in ids
    <3>1. map[i] <= t
      BY <1>1, <2>1
    <3> QED BY <1>1, <3>1
  <2>2. CASE i \notin ids
    BY <1>1, <2>2
  <2> QED BY <2>1, <2>2
<1>2. CASE ~(i \in DOMAIN map /\ map[i] = h[k].at + TTL)
  BY <1>2 DEF Known
<1> QED BY <1>1, <1>2

\* The identifiers that rememberClosedLocked evicts: none, or the oldest of a
\* full list.
LEMMA EvictedIs ==
  ASSUME NEW list \in Seq(StreamId), Len(list) <= Limit, NEW map, NEW id,
         NEW n, n = IF id \in DOMAIN map \/ Len(list) < Limit THEN 0 ELSE Len(list) - Limit + 1
  PROVE  \/ n = 0 /\ (id \in DOMAIN map \/ Len(list) < Limit)
         \/ n = 1 /\ id \notin DOMAIN map /\ Len(list) = Limit
<1>1. Len(list) \in Nat
  OBVIOUS
<1> QED BY <1>1, TTLs

\* rememberClosedLocked, of any list and map.
Room(list, map, id) ==
  IF id \in DOMAIN map \/ Len(list) < Limit THEN 0 ELSE Len(list) - Limit + 1
Remembers(list, map, t, id, new, more) ==
  LET n == Room(list, map, id) IN
  /\ more = [i \in (DOMAIN map \ {list[m] : m \in 1 .. n}) \cup {id} |->
                IF i = id THEN t + TTL ELSE map[i]]
  /\ new = Append(Unlisted(SubSeq(list, n + 1, Len(list)), id), id)

LEMMA RememberedMore ==
  ASSUME NEW list, NEW map, NEW h \in Seq(Entry), NEW t \in Nat,
         Remembered(list, map, h), Dated(h, t), NEW id \in StreamId,
         NEW new, NEW more, Remembers(list, map, t, id, new, more),
         NEW longer, NEW e \in Entry, e.id = id, e.at = t, Grown(h, e, longer)
  PROVE  Remembered(new, more, longer) /\ Dated(longer, t) /\ longer \in Seq(Entry)
<1>n. PICK n : n = Room(list, map, id)
  OBVIOUS
<1>g. PICK gone : gone = {list[m] : m \in 1 .. n}
  OBVIOUS
<1>b. new = Append(Unlisted(SubSeq(list, n + 1, Len(list)), id), id)
  BY <1>n DEF Remembers
<1>a. more = [i \in (DOMAIN map \ gone) \cup {id} |-> IF i = id THEN t + TTL ELSE map[i]]
  BY <1>n, <1>g DEF Remembers
<1>0. /\ list \in Seq(StreamId) /\ Range(list) = DOMAIN map /\ Len(list) <= Limit
      /\ Len(list) \in Nat /\ Rising(list, Latest(h)) /\ Latest(h) \in [StreamId -> Nat]
  BY LatestIs DEF Remembered
<1>1. \/ n = 0 /\ (id \in DOMAIN map \/ Len(list) < Limit)
      \/ n = 1 /\ id \notin DOMAIN map /\ Len(list) = Limit
  BY <1>0, <1>n, EvictedIs DEF Room
<1>2. n \in 0 .. Len(list)
  BY <1>0, <1>1, TTLs
<1> DEFINE tail == SubSeq(list, n + 1, Len(list))
           rest == Unlisted(tail, id)
<1>4. new = Append(rest, id)
  BY <1>b
<1>5. /\ tail \in Seq(StreamId) /\ Len(tail) = Len(list) - n /\ Rising(tail, Latest(h))
      /\ Range(tail) = DOMAIN map \ gone
  BY <1>g, <1>0, <1>2, RisingTail
<1> HIDE DEF tail
<1>6. /\ rest \in Seq(StreamId) /\ Len(rest) <= Len(tail) /\ Rising(rest, Latest(h))
      /\ id \in Range(tail) => Len(rest) = Len(tail) - 1
      /\ Range(rest) = Range(tail) \ {id}
  BY <1>0, <1>5, RisingUnlisted
<1> HIDE DEF rest
<1>7. /\ longer \in Seq(Entry) /\ Len(longer) = Len(h) + 1 /\ longer[Len(h) + 1] = e
      /\ \A k \in 1 .. Len(h) : longer[k] = h[k]
      /\ \A i : i # id => LastEnded(longer, i, Len(longer)) = LastEnded(h, i, Len(h))
      /\ LastEnded(longer, id, Len(longer)) = {Len(h) + 1}
  BY DEF Grown
<1>8. /\ Latest(longer) \in [StreamId -> Nat]
      /\ \A i \in StreamId \ {id} : Latest(longer)[i] = Latest(h)[i]
      /\ \A i \in StreamId : Latest(h)[i] < Latest(longer)[id]
      /\ Latest(longer)[id] = Len(h) + 1
  <2>1. Latest(longer) \in [StreamId -> Nat]
    BY <1>7, LatestIs
  <2>2. Latest(longer)[id] = Len(h) + 1
    <3>1. Len(h) + 1 \in LastEnded(longer, id, Len(longer))
      BY <1>7
    <3> QED BY <1>7, <3>1, LatestIs
  <2>3. \A i \in StreamId \ {id} : Latest(longer)[i] = Latest(h)[i]
    <3> SUFFICES ASSUME NEW i \in StreamId \ {id}
                 PROVE  Latest(longer)[i] = Latest(h)[i]
      OBVIOUS
    <3>1. LastEnded(longer, i, Len(longer)) = LastEnded(h, i, Len(h))
      BY <1>7
    <3>2. CASE LastEnded(h, i, Len(h)) = {}
      BY <3>1, <3>2 DEF Latest
    <3>3. CASE LastEnded(h, i, Len(h)) # {}
      <4>1. Latest(h)[i] \in LastEnded(longer, i, Len(longer))
        BY <3>1, <3>3, LatestIs
      <4> QED BY <1>7, <4>1, LatestIs
    <3> QED BY <3>2, <3>3
  <2>4. \A i \in StreamId : Latest(h)[i] < Len(h) + 1
    <3>1. Len(h) \in Nat
      OBVIOUS
    <3>2. \A i \in StreamId : Latest(h)[i] \in 0 .. Len(h)
      BY LatestIs
    <3> QED BY <3>1, <3>2
  <2> QED BY <2>1, <2>2, <2>3, <2>4
<1>9. /\ new \in Seq(StreamId) /\ Len(new) = Len(rest) + 1
      /\ Rising(new, Latest(longer)) /\ Range(new) = Range(rest) \cup {id}
  <2>1. id \in StreamId \ Range(rest)
    BY <1>6
  <2>2. /\ Append(rest, id) \in Seq(StreamId) /\ Len(Append(rest, id)) = Len(rest) + 1
        /\ Rising(Append(rest, id), Latest(longer))
        /\ Range(Append(rest, id)) = Range(rest) \cup {id}
    <3>1. rest \in Seq(StreamId) /\ Rising(rest, Latest(h)) /\ Latest(h) \in [StreamId -> Nat]
      BY <1>0, <1>6
    <3> QED BY <1>8, <2>1, <3>1, RisingAppend
  <2> QED BY <1>4, <2>2
<1>10. Len(new) <= Limit
  <2>0. Len(rest) \in Nat /\ Len(tail) \in Nat /\ Limit \in Nat
    BY <1>5, <1>6, TTLs
  <2>1. CASE n = 0 /\ id \in DOMAIN map
    <3>1. gone = {}
      BY <1>g, <2>1
    <3>2. id \in Range(tail)
      BY <1>5, <2>1, <3>1
    <3> QED BY <1>0, <1>5, <1>6, <1>9, <2>0, <2>1, <3>2
  <2>2. CASE n = 0 /\ Len(list) < Limit
    BY <1>0, <1>5, <1>6, <1>9, <2>0, <2>2
  <2>3. CASE n = 1 /\ Len(list) = Limit
    BY <1>0, <1>5, <1>6, <1>9, <2>0, <2>3
  <2> QED BY <1>1, <2>1, <2>2, <2>3
<1>11. DOMAIN more = Range(new)
  BY <1>a, <1>5, <1>6, <1>9
<1>12. more \in [DOMAIN more -> Nat]
  BY <1>a, TTLs DEF Remembered
<1>13. ASSUME NEW i \in DOMAIN more
       PROVE  /\ Latest(longer)[i] \in LastEnded(longer, i, Len(longer))
              /\ more[i] = longer[Latest(longer)[i]].at + TTL
  <2>1. CASE i = id
    <3>1. more[i] = t + TTL
      BY <1>a, <2>1
    <3> QED BY <1>7, <1>8, <2>1, <3>1
  <2>2. CASE i # id
    <3>1. i \in DOMAIN map /\ more[i] = map[i]
      BY <1>a, <2>2
    <3>2. /\ i \in StreamId \ {id} /\ Latest(h)[i] \in LastEnded(h, i, Len(h))
          /\ map[i] = h[Latest(h)[i]].at + TTL
      <4>1. i \in StreamId
        BY <1>0, <3>1, InRange
      <4> QED BY <2>2, <3>1, <4>1 DEF Remembered
    <3>3. Latest(h)[i] \in 1 .. Len(h)
      BY <3>2, LatestIs
    <3> QED BY <1>7, <1>8, <2>2, <3>1, <3>2, <3>3
  <2> QED BY <2>1, <2>2
<1>14. Dated(longer, t)
  <2>1. ASSUME NEW m \in 1 .. Len(longer), NEW k \in 1 .. Len(longer), m < k
        PROVE  longer[m].at <= longer[k].at
    <3>0. Len(h) \in Nat
      OBVIOUS
    <3>1. m \in 1 .. Len(h) /\ longer[m] = h[m]
      BY <1>7, <2>1, <3>0
    <3>2. CASE k = Len(h) + 1
      BY <1>7, <3>1, <3>2 DEF Dated
    <3>3. CASE k \in 1 .. Len(h)
      BY <1>7, <2>1, <3>1, <3>3 DEF Dated
    <3> QED BY <1>7, <3>0, <3>2, <3>3, UpTo
  <2>2. ASSUME NEW m \in 1 .. Len(longer)
        PROVE  longer[m].at <= t
    <3>0. Len(h) \in Nat
      OBVIOUS
    <3>1. CASE m = Len(h) + 1
      BY <1>7, <3>1
    <3>2. CASE m \in 1 .. Len(h)
      BY <1>7, <3>2 DEF Dated
    <3> QED BY <1>7, <3>0, <3>1, <3>2, UpTo
  <2> QED BY <2>1, <2>2 DEF Dated
<1> QED BY <1>7, <1>9, <1>10, <1>11, <1>12, <1>13, <1>14 DEF Remembered

LEMMA EvictedLate ==
  ASSUME NEW list, NEW map, NEW h \in Seq(Entry), Remembered(list, map, h),
         NEW id \in StreamId, id \notin DOMAIN map, Len(list) = Limit,
         NEW longer, NEW e \in Entry, e.id = id, Grown(h, e, longer),
         NEW k, k = Latest(h)[list[1]]
  PROVE  Cardinality(EndedAfter(longer, k, Len(longer))) >= Limit
<1>0. /\ list \in Seq(StreamId) /\ Range(list) = DOMAIN map /\ Len(list) = Limit
      /\ Limit \in Nat \ {0} /\ Rising(list, Latest(h)) /\ Latest(h) \in [StreamId -> Nat]
      /\ Len(h) \in Nat
  BY LatestIs, TTLs DEF Remembered
<1>1. /\ \A m \in 1 .. Len(list) : list[m] \in StreamId
      /\ \A x : x \in DOMAIN map <=> \E m \in 1 .. Len(list) : x = list[m]
      /\ 1 \in 1 .. Len(list)
  BY SMTT(30), <1>0, InRange
<1> DEFINE others == DOMAIN map \ {list[1]}
<1>2. k \in 1 .. Len(h)
  <2>1. list[1] \in DOMAIN map /\ list[1] \in StreamId
    BY <1>1
  <2>2. k \in LastEnded(h, list[1], Len(h))
    BY <2>1 DEF Remembered
  <2> QED BY <2>1, <2>2, LatestIs
<1>3. EndedAfter(longer, k, Len(longer)) = EndedAfter(h, k, Len(h)) \cup {id}
  BY <1>2 DEF Grown
<1>4. others \subseteq EndedAfter(h, k, Len(h))
  <2> SUFFICES ASSUME NEW j \in DOMAIN map, j # list[1]
               PROVE  j \in EndedAfter(h, k, Len(h))
    OBVIOUS
  <2>1. PICK m \in 1 .. Len(list) : j = list[m]
    BY <1>1
  <2>2. m # 1 /\ 1 < m /\ j \in StreamId
    BY <1>1, <2>1
  <2>3. k < Latest(h)[j]
    BY <1>0, <1>1, <2>1, <2>2 DEF Rising
  <2>4. Latest(h)[j] \in LastEnded(h, j, Len(h))
    BY DEF Remembered
  <2>5. Latest(h)[j] \in 1 .. Len(h) /\ h[Latest(h)[j]].id = j
    BY <2>2, <2>4, LatestIs
  <2>6. Latest(h)[j] \in k + 1 .. Len(h)
    BY <1>0, <1>2, <2>3, <2>5
  <2> QED BY <2>5, <2>6 DEF EndedAfter
<1>5. IsFiniteSet(DOMAIN map) /\ Cardinality(DOMAIN map) = Limit
  BY <1>0, RisingLength
<1>6. IsFiniteSet(others) /\ Cardinality(others) = Limit - 1
  BY <1>1, <1>5, FS_RemoveElement
<1>7. IsFiniteSet(others \cup {id}) /\ Cardinality(others \cup {id}) = Limit - 1 + 1
  <2>1. id \notin others
    OBVIOUS
  <2> HIDE DEF others
  <2> QED BY <1>6, <2>1, FS_AddElement
<1>8. IsFiniteSet(EndedAfter(longer, k, Len(longer)))
  <2>1. Len(longer) \in Nat
    BY <1>0 DEF Grown
  <2> QED BY <1>2, <2>1, EndedAfterFinite
<1>9. /\ Cardinality(others \cup {id}) <= Cardinality(EndedAfter(longer, k, Len(longer)))
      /\ Cardinality(EndedAfter(longer, k, Len(longer))) \in Nat
  <2> HIDE DEF others
  <2>1. others \cup {id} \subseteq EndedAfter(longer, k, Len(longer))
    BY <1>3, <1>4
  <2> QED BY <1>8, <2>1, FS_Subset, FS_CardinalityType
<1>10. Limit - 1 + 1 = Limit
  BY <1>0
<1> QED BY <1>0, <1>7, <1>9, <1>10

LEMMA KnownMore ==
  ASSUME NEW list, NEW map, NEW h \in Seq(Entry), NEW t \in Nat,
         Remembered(list, map, h), Known(map, h, t), NEW id \in StreamId,
         NEW new, NEW more, Remembers(list, map, t, id, new, more),
         NEW longer, NEW e \in Entry, e.id = id, e.at = t, Grown(h, e, longer)
  PROVE  Known(more, longer, t)
<1>n. PICK n : n = Room(list, map, id)
  OBVIOUS
<1>g. PICK gone : gone = {list[m] : m \in 1 .. n}
  OBVIOUS
<1>a. more = [i \in (DOMAIN map \ gone) \cup {id} |-> IF i = id THEN t + TTL ELSE map[i]]
  BY <1>n, <1>g DEF Remembers
<1>0. /\ list \in Seq(StreamId) /\ Len(list) <= Limit /\ Len(list) \in Nat
      /\ Latest(h) \in [StreamId -> Nat] /\ Len(h) \in Nat
  BY LatestIs DEF Remembered
<1>1. \/ n = 0 /\ (id \in DOMAIN map \/ Len(list) < Limit)
      \/ n = 1 /\ id \notin DOMAIN map /\ Len(list) = Limit
  BY <1>0, <1>n, EvictedIs DEF Room
<1> SUFFICES ASSUME NEW i \in StreamId, NEW k \in LastEnded(longer, i, Len(longer))
             PROVE  \/ i \in DOMAIN more /\ more[i] = longer[k].at + TTL
                    \/ t >= longer[k].at + TTL
                    \/ Cardinality(EndedAfter(longer, k, Len(longer))) >= Limit
  BY DEF Known
<1>2. CASE i = id
  <2>1. k = Len(h) + 1 /\ longer[k] = e
    BY <1>2 DEF Grown
  <2>2. i \in DOMAIN more /\ more[i] = t + TTL
    BY <1>a, <1>2
  <2> QED BY <2>1, <2>2
<1>3. CASE i # id
  <2>1. k \in LastEnded(h, i, Len(h))
    BY <1>3 DEF Grown
  <2>2. k \in 1 .. Len(h) /\ k = Latest(h)[i]
    BY <2>1, LatestIs
  <2>3. longer[k] = h[k] /\ EndedAfter(longer, k, Len(longer)) = EndedAfter(h, k, Len(h)) \cup {id}
    BY <2>2 DEF Grown
  <2>4. CASE i \in DOMAIN map /\ map[i] = h[k].at + TTL /\ i \notin gone
    BY <1>a, <1>3, <2>3, <2>4
  <2>5. CASE i \in gone
    <3>1. n = 1 /\ id \notin DOMAIN map /\ Len(list) = Limit /\ i = list[1]
      BY <1>g, <1>1, <2>5
    <3> QED BY <2>2, <3>1, EvictedLate
  <2>6. CASE t >= h[k].at + TTL
    BY <2>3, <2>6
  <2>7. CASE Cardinality(EndedAfter(h, k, Len(h))) >= Limit
    <3>1. Len(longer) \in Nat
      BY <1>0 DEF Grown
    <3>2. IsFiniteSet(EndedAfter(longer, k, Len(longer))) /\ IsFiniteSet(EndedAfter(h, k, Len(h)))
      BY <1>0, <2>2, <3>1, EndedAfterFinite
    <3>3. /\ Cardinality(EndedAfter(h, k, Len(h))) <= Cardinality(EndedAfter(longer, k, Len(longer)))
          /\ Cardinality(EndedAfter(h, k, Len(h))) \in Nat
          /\ Cardinality(EndedAfter(longer, k, Len(longer))) \in Nat
      BY <2>3, <3>2, FS_Subset, FS_CardinalityType
    <3> QED BY <2>7, <3>3, TTLs
  <2> QED BY <2>1, <2>4, <2>5, <2>6, <2>7 DEF Known
<1> QED BY <1>2, <1>3

-----------------------------------------------------------------------------
(* The memory of closed identifiers, step by step.                         *)

Memory ==
  /\ Remembered(order, closed, ended) /\ Dated(ended, now)
  /\ ended \in Seq(Entry) /\ now \in Nat
  /\ ~Stopping => Known(closed, ended, now)

LEMMA MemoryHolds == TypeOK /\ ClosedInOrder /\ NothingForgotten => Memory
<1> SUFFICES ASSUME TypeOK, ClosedInOrder, NothingForgotten PROVE Memory
  OBVIOUS
<1>1. /\ order \in Seq(StreamId) /\ closed \in [DOMAIN closed -> Nat]
      /\ ended \in Seq(Entry) /\ now \in Nat
  BY ServerAssumption DEF TypeOK, Entry, ServerAssumption
<1>2. InOrder(order, closed, ended, now)
  BY DEF ClosedInOrder, InOrder
<1>3. Remembered(order, closed, ended) /\ Dated(ended, now)
  BY <1>1, <1>2, InOrderRemembered
<1>4. ~Stopping => Known(closed, ended, now)
  BY DEF NothingForgotten, Known
<1> QED BY <1>1, <1>3, <1>4 DEF Memory

LEMMA MemoryUnchanged ==
  ASSUME Memory, UNCHANGED <<closed, order, ended>>, now' \in Nat, now' >= now,
         Stopping => Stopping'
  PROVE  Memory'
<1>1. /\ Remembered(order', closed', ended') /\ ended' \in Seq(Entry)
      /\ \A k \in 1 .. Len(ended) : ended[k].at \in Nat
  <2>1. \A k \in 1 .. Len(ended) : ended[k] \in Entry
    BY DEF Memory
  <2> QED BY <2>1 DEF Memory, Entry
<1>2. Dated(ended', now')
  BY <1>1 DEF Memory, Dated
<1>3. ~Stopping' => Known(closed', ended', now')
  <2> SUFFICES ASSUME ~Stopping', NEW i \in StreamId, NEW k \in LastEnded(ended, i, Len(ended))
               PROVE  \/ i \in DOMAIN closed /\ closed[i] = ended[k].at + TTL
                      \/ now' >= ended[k].at + TTL
                      \/ Cardinality(EndedAfter(ended, k, Len(ended))) >= Limit
    BY DEF Known
  <2>1. Known(closed, ended, now)
    BY DEF Memory
  <2>2. k \in 1 .. Len(ended)
    BY LatestIs DEF Memory
  <2>3. now >= ended[k].at + TTL => now' >= ended[k].at + TTL
    BY <1>1, <2>2, TTLs DEF Memory
  <2> QED BY <2>1, <2>3 DEF Known
<1> QED BY <1>1, <1>2, <1>3 DEF Memory

\* removeClosedLocked, of identifiers that have expired.
LEMMA MemoryForgets ==
  ASSUME Memory, UNCHANGED <<now, ended>>, Stopping => Stopping',
         NEW ids, \A i \in ids : i \in DOMAIN closed => closed[i] <= now,
         NEW left \in Seq(StreamId), Len(left) <= Len(order),
         Rising(left, Latest(ended)), Range(left) = Range(order) \ ids,
         Forget(ids, left)
  PROVE  Memory'
<1>1. order' = left /\ closed' = [i \in DOMAIN closed \ ids |-> closed[i]]
  BY DEF Forget
<1>2. /\ Remembered(order, closed, ended) /\ Dated(ended, now)
      /\ ended \in Seq(Entry) /\ now \in Nat /\ closed \in [DOMAIN closed -> Nat]
  BY DEF Memory, Remembered
<1>3. Remembered(order', closed', ended)
  BY <1>1, <1>2, RememberedLess
<1>4. ~Stopping => Known(closed', ended, now)
  BY <1>1, <1>2, KnownLess DEF Memory
<1> QED BY <1>2, <1>3, <1>4 DEF Memory

LEMMA OrderIs ==
  ASSUME Memory
  PROVE  /\ order \in Seq(StreamId) /\ Len(order) \in Nat
         /\ Rising(order, Latest(ended)) /\ Latest(ended) \in [StreamId -> Nat]
         /\ Range(order) = DOMAIN closed /\ DOMAIN closed \subseteq StreamId
         /\ \A m \in 1 .. Len(order) : order[m] \in DOMAIN closed
<1>1. /\ order \in Seq(StreamId) /\ Rising(order, Latest(ended)) /\ Range(order) = DOMAIN closed
      /\ Latest(ended) \in [StreamId -> Nat]
  BY LatestIs DEF Memory, Remembered
<1>2. /\ \A x : x \in Range(order) <=> \E m \in 1 .. Len(order) : x = order[m]
      /\ \A m \in 1 .. Len(order) : order[m] \in StreamId
  BY <1>1, InRange
<1> QED BY <1>1, <1>2

LEMMA MemoryPruned ==
  ASSUME Memory, PruneClosed
  PROVE  Memory'
<1>1. PICK n \in 1 .. Len(order) : /\ \A m \in 1 .. n : Expired(order[m])
                                   /\ Forget(Oldest(n), Later(n))
  BY DEF PruneClosed
<1>2. /\ order \in Seq(StreamId) /\ Rising(order, Latest(ended)) /\ Latest(ended) \in [StreamId -> Nat]
      /\ n \in 0 .. Len(order)
  BY OrderIs
<1>3. /\ Later(n) \in Seq(StreamId) /\ Len(Later(n)) = Len(order) - n
      /\ Rising(Later(n), Latest(ended)) /\ Range(Later(n)) = Range(order) \ Oldest(n)
  <2> DEFINE tail == SubSeq(order, n + 1, Len(order))
  <2>1. /\ tail \in Seq(StreamId) /\ Len(tail) = Len(order) - n
        /\ Rising(tail, Latest(ended))
        /\ Range(tail) = Range(order) \ {order[m] : m \in 1 .. n}
    BY <1>2, RisingTail
  <2> QED BY <2>1 DEF Later, Oldest
<1>4. Len(Later(n)) <= Len(order)
  BY <1>2, <1>3
<1>5. \A i \in Oldest(n) : i \in DOMAIN closed => closed[i] <= now
  BY <1>1 DEF Oldest, Expired
<1>6. UNCHANGED <<now, ended>> /\ (Stopping => Stopping')
  BY DEF PruneClosed, Stopping, control
<1> QED BY <1>1, <1>3, <1>4, <1>5, <1>6, MemoryForgets

LEMMA MemoryExpires ==
  ASSUME Memory, NEW id \in StreamId, ForgetExpired(id), UNCHANGED <<now, ended, control>>
  PROVE  Memory'
<1>1. now \in Nat /\ (Stopping => Stopping')
  BY DEF Memory, Stopping, control
<1>2. CASE id \in DOMAIN closed /\ Expired(id) /\ ~Stopping
  <2>1. Forget({id}, Unlisted(order, id))
    BY <1>2 DEF ForgetExpired
  <2> DEFINE rest == Unlisted(order, id)
  <2>2. /\ rest \in Seq(StreamId) /\ Len(rest) <= Len(order)
        /\ Rising(rest, Latest(ended)) /\ Range(rest) = Range(order) \ {id}
    BY OrderIs, RisingUnlisted
  <2>3. \A i \in {id} : i \in DOMAIN closed => closed[i] <= now
    BY <1>2 DEF Expired
  <2> QED BY <1>1, <2>1, <2>2, <2>3, MemoryForgets
<1>3. CASE ~(id \in DOMAIN closed /\ Expired(id) /\ ~Stopping)
  <2>1. UNCHANGED <<closed, order>>
    BY <1>3 DEF ForgetExpired
  <2> QED BY <1>1, <2>1, MemoryUnchanged
<1> QED BY <1>2, <1>3

LEMMA MemoryGrows ==
  ASSUME Memory, NEW id \in StreamId, RememberClosed(id), UNCHANGED <<now, control>>
  PROVE  /\ Memory'
         /\ ~Stopping => Grown(ended, [id |-> id, at |-> now], ended')
         /\ Stopping => UNCHANGED ended
<1>1. now \in Nat /\ Stopping' = Stopping
  BY DEF Memory, Stopping, control
<1>2. CASE Stopping
  <2>1. UNCHANGED <<closed, order, ended>>
    BY <1>2 DEF RememberClosed
  <2> QED BY <1>1, <1>2, <2>1, MemoryUnchanged
<1>3. CASE ~Stopping
  <2> DEFINE e == [id |-> id, at |-> now]
  <2>1. /\ closed' = [i \in (DOMAIN closed \ Oldest(Evicted(id))) \cup {id} |->
                        IF i = id THEN now + TTL ELSE closed[i]]
        /\ order' = Append(Unlisted(Later(Evicted(id)), id), id)
        /\ ended' = Append(ended, e)
    BY <1>3 DEF RememberClosed, Reordered
  <2>2. e \in Entry /\ e.id = id /\ e.at = now
    BY <1>1 DEF Entry
  <2>3. Grown(ended, e, ended')
    BY <2>1, <2>2, HistoryGrows DEF Memory
  <2>4. Remembers(order, closed, now, id, order', closed')
    BY <2>1 DEF Remembers, Room, Evicted, Oldest, Later
  <2> HIDE DEF e
  <2>5. /\ Remembered(order, closed, ended) /\ Dated(ended, now)
        /\ ended \in Seq(Entry) /\ Known(closed, ended, now)
    BY <1>3 DEF Memory
  <2>6. Remembered(order', closed', ended') /\ Dated(ended', now) /\ ended' \in Seq(Entry)
    BY <1>1, <2>2, <2>3, <2>4, <2>5, RememberedMore
  <2>7. Known(closed', ended', now)
    BY <1>1, <2>2, <2>3, <2>4, <2>5, KnownMore
  <2>8. Memory'
    BY <1>1, <2>6, <2>7 DEF Memory
  <2> QED BY <1>3, <2>3, <2>8 DEF e
<1> QED BY <1>2, <1>3

-----------------------------------------------------------------------------
(* The parts of the invariant.                                             *)

At == {"idle", "open", "dial", "wait", "lock", "write", "attach", "attached", "closed"}

StreamsOK ==
  /\ streams \in [DOMAIN streams -> DOMAIN objects]
  /\ DOMAIN streams \subseteq StreamId /\ IsFiniteSet(DOMAIN streams)
  /\ MaxStreams > 0 => Cardinality(DOMAIN streams) <= MaxStreams

PendingOK == MaxPending > 0 => Cardinality(Pending) <= MaxPending

ControlOK ==
  /\ now \in 0 .. MaxTime
  /\ closing \in BOOLEAN /\ cancelled \in BOOLEAN /\ finished \in BOOLEAN

DoomedOK == doomed \subseteq DOMAIN objects /\ \A o \in doomed : objects[o].flow \in {"live", "done"}

Held(s) == s.flow # "failed" /\ s.removed # "yes"

TableOK ==
  /\ \A o \in DOMAIN objects :
       /\ ObjectOK(objects[o])
       /\ Held(objects[o]) <=> (objects[o].id \in DOMAIN streams /\ streams[objects[o].id] = o)
  /\ \A i \in DOMAIN streams : objects[streams[i]].id = i

Served ==
  ~Stopping =>
    \A o \in DOMAIN objects : ~Held(objects[o]) => LastEnded(ended, objects[o].id, Len(ended)) # {}

Parts ==
  /\ ConnsOK /\ objects \in Seq(Object) /\ StreamsOK /\ PendingOK /\ ControlOK
  /\ DoomedOK /\ TableOK /\ CarriersOK /\ Memory /\ Served

LEMMA PartsHold == TableInv => Parts
<1> SUFFICES ASSUME TableInv PROVE Parts
  OBVIOUS
<1>1. ConnsOK /\ objects \in Seq(Object) /\ StreamsOK /\ PendingOK
  BY DEF TableInv, TypeOK, StreamsOK, PendingOK
<1>2. ControlOK
  BY DEF TableInv, TypeOK, ControlOK
<1>3. DoomedOK
  BY DEF TableInv, TypeOK, ObjectsOK, DoomedOK
<1>4. TableOK
  BY DEF TableInv, ObjectsOK, TableOK, Held
<1>5. CarriersOK /\ Memory
  BY MemoryHolds DEF TableInv
<1>6. Served
  BY DEF TableInv, NothingForgotten, Served, Held
<1> QED BY <1>1, <1>2, <1>3, <1>4, <1>5, <1>6 DEF Parts

\* Nothing is lost by the parts: they hold what TableInv says, before a step
\* and after it.
LEMMA PartsEnoughNow == Parts => TableInv
<1> SUFFICES ASSUME Parts PROVE TableInv
  OBVIOUS
<1>1. InOrder(order, closed, ended, now)
  BY RememberedInOrder DEF Parts, Memory
<1>2. ClosedInOrder
  BY <1>1 DEF ClosedInOrder, InOrder
<1>3. NothingForgotten
  BY DEF Parts, Memory, Served, NothingForgotten, Known, Held
<1>4. ObjectsOK
  BY DEF Parts, DoomedOK, TableOK, ObjectsOK, Held
<1>5. /\ (closed \in [DOMAIN closed -> Nat]) /\ (order \in Seq(StreamId))
      /\ (ended \in Seq([id : StreamId, at : Nat]))
  BY DEF Parts, Memory, Remembered, Entry
<1>6. TypeOK
  <2>1. ConnsOK /\ (objects \in Seq(Object)) /\ StreamsOK /\ PendingOK /\ ControlOK /\ DoomedOK
    BY DEF Parts
  <2> QED BY <1>5, <2>1 DEF TypeOK, StreamsOK, PendingOK, ControlOK, DoomedOK
<1>7. CarriersOK
  BY DEF Parts
<1> QED BY <1>2, <1>3, <1>4, <1>6, <1>7 DEF TableInv

LEMMA PartsEnough == Parts' => TableInv'
<1> SUFFICES ASSUME Parts' PROVE TableInv'
  OBVIOUS
<1>1. InOrder(order', closed', ended', now')
  BY RememberedInOrder DEF Parts, Memory
<1>2. ClosedInOrder'
  BY <1>1 DEF ClosedInOrder, InOrder
<1>3. NothingForgotten'
  BY DEF Parts, Memory, Served, NothingForgotten, Known, Held
<1>4. ObjectsOK'
  BY DEF Parts, DoomedOK, TableOK, ObjectsOK, Held
<1>5. /\ (closed \in [DOMAIN closed -> Nat])' /\ (order \in Seq(StreamId))'
      /\ (ended \in Seq([id : StreamId, at : Nat]))'
  BY DEF Parts, Memory, Remembered, Entry
<1>6. TypeOK'
  <2>1. ConnsOK' /\ (objects \in Seq(Object))' /\ StreamsOK' /\ PendingOK' /\ ControlOK' /\ DoomedOK'
    BY DEF Parts
  <2> QED BY <1>5, <2>1 DEF TypeOK, StreamsOK, PendingOK, ControlOK, DoomedOK
<1>7. CarriersOK'
  BY DEF Parts
<1> QED BY <1>2, <1>3, <1>4, <1>6, <1>7 DEF TableInv

-----------------------------------------------------------------------------
(* Steps that change one stream, or none.                                  *)

\* What no step undoes.
Follows(s, r) ==
  /\ r.id = s.id /\ r.born = s.born
  /\ s.flow \in {"live", "done"} => r.flow \in {"live", "done"}
  /\ s.flow = "done" => r.flow = "done"
  /\ s.flow = "failed" => r.flow = "failed"

Changed(o, r) ==
  /\ objects' \in Seq(Object) /\ Len(objects') = Len(objects)
  /\ DOMAIN objects' = DOMAIN objects
  /\ objects'[o] = r /\ \A p \in DOMAIN objects : p # o => objects'[p] = objects[p]

LEMMA ObjectChanged ==
  ASSUME objects \in Seq(Object), NEW o \in DOMAIN objects, NEW r \in Object,
         objects' = [objects EXCEPT ![o] = r]
  PROVE  Changed(o, r)
BY DEF Changed

LEMMA ObjectFields ==
  ASSUME NEW s \in Object
  PROVE  /\ s.id \in StreamId /\ s.destination \in Destination
         /\ s.flow \in {"dialing", "live", "done", "failed"} /\ s.started \in BOOLEAN
         /\ s.timer \in {"off", "armed", "fired"} /\ s.mu \in Conn \cup {Nobody}
         /\ s.removed \in {"no", "timer", "yes"} /\ s.expired \in BOOLEAN
         /\ s.born \in [at : Nat, after : Nat]
BY DEF Object

\* The table when one stream has changed, but not whether the table holds it.
LEMMA TableKept ==
  ASSUME TableOK, StreamsOK, NEW o \in DOMAIN objects, NEW r, Changed(o, r),
         UNCHANGED streams, r.id = objects[o].id, ObjectOK(r), Held(r) <=> Held(objects[o])
  PROVE  TableOK'
<1>1. \A p \in DOMAIN objects : objects'[p].id = objects[p].id
  BY DEF Changed
<1>2. ASSUME NEW p \in DOMAIN objects
      PROVE  /\ ObjectOK(objects'[p])
             /\ Held(objects'[p]) <=> (objects'[p].id \in DOMAIN streams /\ streams[objects'[p].id] = p)
  <2>1. CASE p = o
    BY <1>1, <2>1 DEF Changed, TableOK
  <2>2. CASE p # o
    BY <1>1, <2>2 DEF Changed, TableOK
  <2> QED BY <2>1, <2>2
<1>3. \A i \in DOMAIN streams : streams[i] \in DOMAIN objects => objects'[streams[i]].id = i
  BY <1>1 DEF TableOK
<1>4. \A i \in DOMAIN streams : streams[i] \in DOMAIN objects'
  <2>1. \A i \in DOMAIN streams : streams[i] \in DOMAIN objects
    BY DEF StreamsOK
  <2> QED BY <2>1 DEF Changed
<1> QED BY <1>2, <1>3, <1>4 DEF TableOK, Changed

-----------------------------------------------------------------------------
(* Steps of one virtual stream.                                            *)

Unbound == {"idle", "open", "closed"}
Bound == {"lock", "write", "attach", "attached"}
Holding == {"write", "attach"}
Counted == {"open", "dial", "wait", "lock", "write", "attach"}

Moved(c, v) == conns'[c] = v /\ \A d \in Conn : d # c => conns'[d] = conns[d]

Placed(v, n) == /\ v \in [at : At, stream : Nat]
                /\ IF v.at \in Unbound THEN v.stream = 0 ELSE v.stream \in 1 .. n

LEMMA ConnFields ==
  ASSUME ConnsOK, objects \in Seq(Object), NEW c \in Conn
  PROVE  /\ conns[c] = [at |-> conns[c].at, stream |-> conns[c].stream]
         /\ conns[c].at \in At /\ Placed(conns[c], Len(objects))
         /\ conns[c].at \notin Unbound => conns[c].stream \in DOMAIN objects
         /\ Len(objects) \in Nat /\ DOMAIN objects = 1 .. Len(objects)
<1>1. conns[c] \in [at : At, stream : Nat]
  BY DEF ConnsOK, At
<1>2. Len(objects) \in Nat /\ DOMAIN objects = 1 .. Len(objects)
  OBVIOUS
<1>3. IF conns[c].at \in Unbound THEN conns[c].stream = 0 ELSE conns[c].stream \in DOMAIN objects
  BY DEF ConnsOK, Unbound
<1> QED BY <1>1, <1>2, <1>3 DEF Placed

LEMMA Moving ==
  ASSUME ConnsOK, objects \in Seq(Object), NEW c \in Conn, NEW at
  PROVE  /\ Move(c, at) => Moved(c, [at |-> at, stream |-> conns[c].stream])
         /\ Move(c, at) => DOMAIN conns' = Conn
         /\ Return(c, at) => Moved(c, [at |-> at, stream |-> 0])
         /\ Return(c, at) => DOMAIN conns' = Conn
<1>1. conns \in [Conn -> [at : At, stream : Nat]]
  BY DEF ConnsOK, At
<1> QED BY <1>1 DEF Move, Return, Moved

\* Nothing is said of the domain of conns' by Moved.
LEMMA ConnsMoved ==
  ASSUME ConnsOK, objects \in Seq(Object), objects' \in Seq(Object),
         Len(objects') >= Len(objects), NEW c \in Conn, NEW v,
         Moved(c, v), Placed(v, Len(objects')), NEW f, conns' = [conns EXCEPT ![c] = f]
  PROVE  ConnsOK'
<1>1. DOMAIN objects' = 1 .. Len(objects') /\ Len(objects') \in Nat /\ Len(objects) \in Nat
  OBVIOUS
<1>2. conns \in [Conn -> [at : At, stream : Nat]]
  BY DEF ConnsOK, At
<1>3. \A d \in Conn : Placed(conns'[d], Len(objects'))
  <2> SUFFICES ASSUME NEW d \in Conn PROVE Placed(conns'[d], Len(objects'))
    OBVIOUS
  <2>1. CASE d = c
    BY <2>1 DEF Moved
  <2>2. CASE d # c
    <3>1. conns'[d] = conns[d]
      BY <2>2 DEF Moved
    <3>2. Placed(conns[d], Len(objects))
      BY ConnFields
    <3> QED BY <1>1, <3>1, <3>2 DEF Placed
  <2> QED BY <2>1, <2>2
<1>4. conns' \in [Conn -> [at : At, stream : Nat]]
  <2>1. conns' \in [Conn -> [at : At, stream : Nat]] <=>
          \A d \in Conn : conns'[d] \in [at : At, stream : Nat]
    BY <1>2
  <2> QED BY <1>3, <2>1 DEF Placed
<1> QED BY <1>1, <1>3, <1>4 DEF ConnsOK, Placed, Unbound, At

LEMMA PendingKept ==
  ASSUME PendingOK, NEW c \in Conn, NEW v, Moved(c, v),
         \/ v.at \notin Counted
         \/ conns[c].at \in Counted
         \/ MaxPending > 0 => Cardinality(Pending) < MaxPending
  PROVE  PendingOK'
<1> SUFFICES ASSUME MaxPending > 0 PROVE Cardinality(Pending') <= MaxPending
  BY DEF PendingOK
<1>0. MaxPending \in Nat /\ IsFiniteSet(Conn)
  BY ServerAssumption DEF ServerAssumption
<1>1. /\ \A d \in Conn : d \in Pending <=> conns[d].at \in Counted
      /\ \A d \in Conn : d \in Pending' <=> conns'[d].at \in Counted
      /\ Pending \subseteq Conn /\ Pending' \subseteq Conn
  BY DEF Pending, Counted
<1>2. /\ IsFiniteSet(Pending) /\ IsFiniteSet(Pending')
      /\ Cardinality(Pending) \in Nat /\ Cardinality(Pending') \in Nat
  BY <1>0, <1>1, FS_Subset, FS_CardinalityType
<1>3. Cardinality(Pending) <= MaxPending
  BY DEF PendingOK
<1>4. Pending' \subseteq Pending \cup {c}
  BY <1>1 DEF Moved
<1>5. CASE Pending' \subseteq Pending
  <2>1. Cardinality(Pending') <= Cardinality(Pending)
    BY <1>2, <1>5, FS_Subset
  <2> QED BY <1>0, <1>2, <1>3, <2>1
<1>6. CASE ~(Pending' \subseteq Pending)
  <2>1. c \in Pending' /\ c \notin Pending
    BY <1>4, <1>6
  <2>2. Cardinality(Pending) < MaxPending
    BY <1>1, <2>1 DEF Moved
  <2>3. /\ IsFiniteSet(Pending \cup {c})
        /\ Cardinality(Pending \cup {c}) = Cardinality(Pending) + 1
    BY <1>2, <2>1, FS_AddElement
  <2>4. Cardinality(Pending') <= Cardinality(Pending \cup {c})
    BY <1>4, <2>3, FS_Subset
  <2> QED BY <1>0, <1>2, <2>2, <2>3, <2>4
<1> QED BY <1>5, <1>6

\* Full, of any virtual streams.
FullIn(cs, o) ==
  /\ MaxCarriers > 0
  /\ Cardinality({d \in Conn : cs[d] = [at |-> "attached", stream |-> o]}) >= MaxCarriers

\* A stream has less room than before only when another carrier is attached.
LEMMA RoomKept ==
  ASSUME NEW o, NEW cs, NEW ds, ~FullIn(cs, o),
         \A d \in Conn : ds[d] = [at |-> "attached", stream |-> o] => ds[d] = cs[d]
  PROVE  ~FullIn(ds, o)
<1>0. IsFiniteSet(Conn) /\ MaxCarriers \in Nat
  BY ServerAssumption DEF ServerAssumption
<1>1. PICK before : before = {d \in Conn : cs[d] = [at |-> "attached", stream |-> o]}
  OBVIOUS
<1>2. PICK after : after = {d \in Conn : ds[d] = [at |-> "attached", stream |-> o]}
  OBVIOUS
<1>3. after \subseteq before /\ before \subseteq Conn
  BY <1>1, <1>2
<1>4. IsFiniteSet(before) /\ IsFiniteSet(after)
  BY <1>0, <1>3, FS_Subset
<1>5. Cardinality(after) <= Cardinality(before) /\ Cardinality(after) \in Nat /\ Cardinality(before) \in Nat
  BY <1>3, <1>4, FS_Subset, FS_CardinalityType
<1>6. ~(MaxCarriers > 0 /\ Cardinality(before) >= MaxCarriers)
  BY <1>1 DEF FullIn
<1>7. ~(MaxCarriers > 0 /\ Cardinality(after) >= MaxCarriers)
  BY <1>0, <1>5, <1>6
<1> QED BY <1>2, <1>7 DEF FullIn

LEMMA CarriersStep ==
  ASSUME ConnsOK, objects \in Seq(Object), CarriersOK,
         \A d \in Conn : conns'[d].at = "dial" =>
           conns'[d] = conns[d] /\ objects'[conns[d].stream].flow = "dialing",
         \A o \in DOMAIN objects :
           objects[o].flow \in {"live", "done"} => objects'[o].flow \in {"live", "done"},
         \A d \in Conn : conns'[d].at \in Bound =>
           \/ objects'[conns'[d].stream].flow \in {"live", "done"}
           \/ conns'[d].stream = conns[d].stream /\ conns[d].at \in Bound,
         \A d \in Conn : conns'[d].at \in Holding =>
           /\ objects'[conns'[d].stream].mu = d /\ conns'[d].stream = conns[d].stream
           /\ conns[d].at \in Holding \/ ~Full(conns[d].stream),
         \A d, e \in Conn :
           (/\ conns'[e].at \in Holding
            /\ conns'[d] = [at |-> "attached", stream |-> conns'[e].stream]) =>
              conns'[d] = conns[d]
  PROVE  CarriersOK'
<1>1. ASSUME NEW c \in Conn, conns'[c].at = "dial"
      PROVE  /\ objects'[conns'[c].stream].flow = "dialing"
             /\ \A d \in Conn : (conns'[d].at = "dial" /\ conns'[d].stream = conns'[c].stream) => d = c
  BY <1>1 DEF CarriersOK
<1>2. ASSUME NEW c \in Conn, conns'[c].at \in Bound
      PROVE  objects'[conns'[c].stream].flow \in {"live", "done"}
  <2>1. CASE conns'[c].stream = conns[c].stream /\ conns[c].at \in Bound
    <3>1. conns[c].stream \in DOMAIN objects
      BY <2>1, ConnFields DEF Bound, Unbound
    <3> QED BY <2>1, <3>1 DEF CarriersOK, Bound
  <2> QED BY <1>2, <2>1
<1>3. ASSUME NEW c \in Conn, conns'[c].at \in Holding
      PROVE  objects'[conns'[c].stream].mu = c /\ ~FullIn(conns', conns'[c].stream)
  <2>1. PICK o : o = conns[c].stream
    OBVIOUS
  <2>2. conns'[c].stream = o /\ objects'[o].mu = c
    BY <1>3, <2>1
  <2>3. ~FullIn(conns, o)
    BY <1>3, <2>1 DEF CarriersOK, Holding, Full, Carriers, FullIn
  <2>4. \A d \in Conn : conns'[d] = [at |-> "attached", stream |-> o] => conns'[d] = conns[d]
    BY <1>3, <2>2
  <2>5. ~FullIn(conns', o)
    BY <2>3, <2>4, RoomKept
  <2> QED BY <2>2, <2>5
<1> QED BY <1>1, <1>2, <1>3 DEF CarriersOK, Bound, Holding, Full, Carriers, FullIn

-----------------------------------------------------------------------------
(* What the steps leave alone.                                             *)

Still == UNCHANGED <<streams, ended, now, closing, cancelled, finished>>

LEMMA StillKept ==
  /\ ControlOK /\ Still => ControlOK'
  /\ StreamsOK /\ UNCHANGED streams /\ DOMAIN objects \subseteq DOMAIN objects' => StreamsOK'
<1>1. ControlOK /\ Still => ControlOK'
  BY DEF ControlOK, Still
<1>2. ASSUME StreamsOK, UNCHANGED streams, DOMAIN objects \subseteq DOMAIN objects'
      PROVE  StreamsOK'
  BY <1>2 DEF StreamsOK
<1> QED BY <1>1, <1>2

LEMMA DoomedKept ==
  ASSUME DoomedOK, doomed' \subseteq doomed, DOMAIN objects \subseteq DOMAIN objects',
         \A o \in DOMAIN objects :
           objects[o].flow \in {"live", "done"} => objects'[o].flow \in {"live", "done"}
  PROVE  DoomedOK'
BY DEF DoomedOK

LEMMA ServedKept ==
  ASSUME Served, Stopping => Stopping', UNCHANGED ended,
         ~Stopping' => \A o \in DOMAIN objects' :
           \/ Held(objects'[o])
           \/ o \in DOMAIN objects /\ ~Held(objects[o]) /\ objects'[o].id = objects[o].id
  PROVE  Served'
BY DEF Served

\* A step that only moves a virtual stream, to where it holds nothing or to
\* the attachMu of a stream that is connected.
LEMMA ConnStep ==
  ASSUME Parts, NEW c \in Conn, NEW v, Moved(c, v), NEW f, conns' = [conns EXCEPT ![c] = f],
         Placed(v, Len(objects)), UNCHANGED objects, Still, UNCHANGED doomed, Memory',
         \/ v.at \in {"idle", "open", "wait", "closed"}
         \/ v.at = "lock" /\ objects[v.stream].flow \in {"live", "done"},
         \/ v.at \notin Counted
         \/ conns[c].at \in Counted
         \/ MaxPending > 0 => Cardinality(Pending) < MaxPending
  PROVE  Parts'
<1>1. ConnsOK /\ objects \in Seq(Object) /\ objects' \in Seq(Object) /\ Len(objects) \in Nat
  BY DEF Parts
<1>2. ConnsOK'
  <2>1. Len(objects') >= Len(objects) /\ Placed(v, Len(objects'))
    BY <1>1
  <2> QED BY <1>1, <2>1, ConnsMoved
<1>3. PendingOK'
  BY PendingKept DEF Parts
<1>4. StreamsOK' /\ ControlOK'
  BY StillKept DEF Parts, Still
<1>5. DoomedOK'
  BY DoomedKept DEF Parts
<1>6. TableOK'
  BY DEF Parts, TableOK, Still
<1>7. Served'
  BY DEF Parts, Served, Still, Stopping
<1>8. CarriersOK'
  <2>1. CarriersOK
    BY DEF Parts
  <2>2. \A d \in Conn : conns'[d].at = "dial" =>
           conns'[d] = conns[d] /\ objects'[conns[d].stream].flow = "dialing"
    BY <2>1 DEF Moved, CarriersOK
  <2>3. \A d \in Conn : conns'[d].at \in Bound =>
           \/ objects'[conns'[d].stream].flow \in {"live", "done"}
           \/ conns'[d].stream = conns[d].stream /\ conns[d].at \in Bound
    BY DEF Moved, Bound
  <2>4. \A d \in Conn : conns'[d].at \in Holding => d # c /\ conns'[d] = conns[d]
    BY DEF Moved, Holding
  <2>5. \A d \in Conn : conns'[d].at \in Holding =>
           /\ objects'[conns'[d].stream].mu = d /\ conns'[d].stream = conns[d].stream
           /\ conns[d].at \in Holding \/ ~Full(conns[d].stream)
    BY <2>1, <2>4 DEF CarriersOK, Holding
  <2>6. \A d : \A o : conns'[d] = [at |-> "attached", stream |-> o] /\ d \in Conn => conns'[d] = conns[d]
    BY DEF Moved
  <2> QED BY <1>1, <2>1, <2>2, <2>3, <2>5, <2>6, CarriersStep
<1> QED BY <1>1, <1>2, <1>3, <1>4, <1>5, <1>6, <1>7, <1>8 DEF Parts

LEMMA ArriveStep == \A c \in Conn : Parts /\ Arrive(c) => Parts'
<1> SUFFICES ASSUME NEW c \in Conn, Parts, Arrive(c) PROVE Parts'
  OBVIOUS
<1>0. ConnsOK /\ objects \in Seq(Object) /\ Memory /\ now \in Nat
  BY DEF Parts, Memory
<1>1. /\ conns[c].at = "idle" /\ UNCHANGED objects /\ Still /\ UNCHANGED doomed
      /\ UNCHANGED <<closed, order>>
  BY DEF Arrive, Still, table, control
<1>2. Memory'
  BY <1>0, <1>1, MemoryUnchanged DEF Still, Stopping
<1>3. conns[c].stream = 0
  BY <1>0, <1>1 DEF ConnsOK
<1>4. PICK at : /\ Move(c, at) /\ at \in {"open", "closed"}
                /\ at = "closed" \/ (MaxPending > 0 => Cardinality(Pending) < MaxPending)
  <2>1. MaxPending \in Nat /\ (MaxPending > 0 => Cardinality(Pending) \in Nat)
    <3>1. IsFiniteSet(Pending)
      BY ServerAssumption, FS_Subset DEF ServerAssumption, Pending
    <3> QED BY <3>1, ServerAssumption, FS_CardinalityType DEF ServerAssumption
  <2> QED BY <2>1 DEF Arrive
<1> DEFINE v == [at |-> at, stream |-> 0]
<1>5. Moved(c, v)
  BY <1>0, <1>3, <1>4, Moving
<1>6. Placed(v, Len(objects))
  BY <1>4 DEF Placed, At, Unbound
<1>7. \E f : conns' = [conns EXCEPT ![c] = f]
  BY <1>4 DEF Move
<1>8. v.at \in {"idle", "open", "wait", "closed"}
  BY <1>4
<1>9. v.at \notin Counted \/ (MaxPending > 0 => Cardinality(Pending) < MaxPending)
  BY <1>4 DEF Counted
<1> HIDE DEF v
<1> QED BY <1>1, <1>2, <1>5, <1>6, <1>7, <1>8, <1>9, ConnStep

LEMMA ReturnStep ==
  ASSUME Parts, NEW c \in Conn, Return(c, "closed"), UNCHANGED objects, Still,
         UNCHANGED doomed, Memory'
  PROVE  Parts'
<1>0. ConnsOK /\ objects \in Seq(Object)
  BY DEF Parts
<1> DEFINE v == [at |-> "closed", stream |-> 0]
<1>3. Moved(c, v)
  BY <1>0, Moving
<1>4. Placed(v, Len(objects))
  BY DEF Placed, At, Unbound
<1>5. \E f : conns' = [conns EXCEPT ![c] = f]
  BY DEF Return
<1>6. v.at \in {"idle", "open", "wait", "closed"} /\ v.at \notin Counted
  BY DEF Counted
<1> HIDE DEF v
<1> QED BY <1>3, <1>4, <1>5, <1>6, ConnStep

LEMMA RestStill ==
  ASSUME Parts, UNCHANGED <<table, now, control>>
  PROVE  Still /\ UNCHANGED doomed /\ Memory'
<1>1. /\ Still /\ UNCHANGED doomed /\ UNCHANGED <<closed, order, ended>>
      /\ Memory /\ now \in Nat
  BY DEF Still, table, control, Parts, Memory
<1>2. Memory'
  BY <1>1, MemoryUnchanged DEF Still, Stopping
<1> QED BY <1>1, <1>2

LEMMA OpenRefusedStep ==
  \A c \in Conn, id \in StreamId, destination \in Destination :
    Parts /\ OpenRefused(c, id, destination) => Parts'
<1> SUFFICES ASSUME NEW c \in Conn, NEW id \in StreamId, NEW destination \in Destination,
                    Parts, OpenRefused(c, id, destination)
             PROVE  Parts'
  OBVIOUS
<1>1. /\ Return(c, "closed") /\ UNCHANGED objects /\ Still /\ UNCHANGED doomed
      /\ ForgetExpired(id) /\ UNCHANGED <<now, ended, control>>
  BY DEF OpenRefused, Still, control
<1>2. Memory'
  BY <1>1, MemoryExpires DEF Parts
<1> QED BY <1>1, <1>2, ReturnStep

LEMMA OpenJoinsStep ==
  \A c \in Conn, id \in StreamId, destination \in Destination :
    Parts /\ OpenJoins(c, id, destination) => Parts'
<1> SUFFICES ASSUME NEW c \in Conn, NEW id \in StreamId, NEW destination \in Destination,
                    Parts, OpenJoins(c, id, destination)
             PROVE  Parts'
  OBVIOUS
<1> DEFINE v == [at |-> "wait", stream |-> streams[id]]
<1>0. ConnsOK /\ objects \in Seq(Object) /\ DOMAIN objects = 1 .. Len(objects) /\ StreamsOK
  BY ConnFields DEF Parts
<1>1. /\ conns[c].at = "open" /\ UNCHANGED objects /\ Still /\ UNCHANGED doomed
      /\ ForgetExpired(id) /\ UNCHANGED <<now, ended, control>>
      /\ conns' = [conns EXCEPT ![c] = v] /\ id \in DOMAIN streams
  BY DEF OpenJoins, Still, control
<1>2. Memory'
  BY <1>1, MemoryExpires DEF Parts
<1>3. Moved(c, v)
  BY <1>0, <1>1 DEF Moved, ConnsOK
<1>4. Placed(v, Len(objects))
  <2>1. streams[id] \in 1 .. Len(objects)
    BY <1>0, <1>1 DEF StreamsOK
  <2>2. streams[id] \in Nat
    BY <2>1
  <2> QED BY <2>1, <2>2 DEF Placed, At, Unbound
<1>5. v.at = "wait"
  OBVIOUS
<1> HIDE DEF v
<1> QED BY <1>1, <1>2, <1>3, <1>4, <1>5, ConnStep DEF Counted

LEMMA WaitEndsStep == \A c \in Conn : Parts /\ WaitEnds(c) => Parts'
<1> SUFFICES ASSUME NEW c \in Conn, Parts, WaitEnds(c) PROVE Parts'
  OBVIOUS
<1>0. ConnsOK /\ objects \in Seq(Object)
  BY DEF Parts
<1>1. conns[c].at = "wait" /\ UNCHANGED objects /\ Still /\ UNCHANGED doomed /\ Memory'
  BY RestStill DEF WaitEnds
<1>2. CASE Return(c, "closed")
  BY <1>1, <1>2, ReturnStep
<1>3. CASE Move(c, "lock") /\ Ready(conns[c].stream) /\ objects[conns[c].stream].flow # "failed"
  <2> DEFINE v == [at |-> "lock", stream |-> conns[c].stream]
  <2>1. Moved(c, v)
    BY <1>0, <1>3, Moving
  <2>2. Placed(conns[c], Len(objects)) /\ conns[c].stream \in DOMAIN objects
    BY <1>0, <1>1, ConnFields DEF Unbound
  <2>3. Placed(v, Len(objects))
    BY <1>1, <2>2 DEF Placed, At, Unbound
  <2>4. \E f : conns' = [conns EXCEPT ![c] = f]
    BY <1>3 DEF Move
  <2>5. v.at = "lock" /\ objects[v.stream].flow \in {"live", "done"}
    <3>1. objects[conns[c].stream] \in Object
      BY <1>0, <2>2
    <3> QED BY <1>3, <3>1, ObjectFields DEF Ready
  <2> HIDE DEF v
  <2> QED BY <1>1, <2>1, <2>3, <2>4, <2>5, ConnStep DEF Counted
<1> QED BY <1>2, <1>3 DEF WaitEnds

-----------------------------------------------------------------------------
(* Steps that change one stream.                                           *)

\* A step that changes one stream, moves no virtual stream, and neither ends
\* a dial nor attaches a carrier.
LEMMA ObjectStep ==
  ASSUME Parts, NEW o \in DOMAIN objects, NEW r \in Object,
         objects' = [objects EXCEPT ![o] = r], UNCHANGED conns, Still, doomed' \subseteq doomed, Memory',
         r.id = objects[o].id, r.mu = objects[o].mu, ObjectOK(r), Held(r) <=> Held(objects[o]),
         objects[o].flow = "dialing" => r.flow = "dialing",
         objects[o].flow \in {"live", "done"} => r.flow \in {"live", "done"}
  PROVE  Parts'
<1>1. ConnsOK /\ objects \in Seq(Object) /\ StreamsOK /\ TableOK /\ CarriersOK
  BY DEF Parts
<1>2. Changed(o, r)
  BY <1>1, ObjectChanged
<1>3. objects' \in Seq(Object) /\ DOMAIN objects' = DOMAIN objects
  BY <1>2 DEF Changed
<1>4. ConnsOK' /\ PendingOK'
  BY <1>3 DEF Parts, ConnsOK, PendingOK, Pending
<1>5. StreamsOK' /\ ControlOK'
  BY <1>3, StillKept DEF Parts, Still
<1>6. \A p \in DOMAIN objects :
        /\ objects'[p].mu = objects[p].mu /\ objects'[p].id = objects[p].id
        /\ objects[p].flow = "dialing" => objects'[p].flow = "dialing"
        /\ objects[p].flow \in {"live", "done"} => objects'[p].flow \in {"live", "done"}
        /\ Held(objects'[p]) <=> Held(objects[p])
  BY <1>2 DEF Changed
<1>7. DoomedOK'
  BY <1>3, <1>6, DoomedKept DEF Parts
<1>8. TableOK'
  BY <1>1, <1>2, TableKept DEF Still
<1>9. Served'
  BY <1>3, <1>6, ServedKept DEF Parts, Still, Stopping
<1>10. CarriersOK'
  <2>1. \A d \in Conn : conns'[d] = conns[d]
    OBVIOUS
  <2>2. \A d \in Conn : conns[d].at \in Holding \cup {"dial"} => conns[d].stream \in DOMAIN objects
    BY <1>1, ConnFields DEF Holding, Unbound
  <2>3. \A d \in Conn : conns'[d].at = "dial" =>
           conns'[d] = conns[d] /\ objects'[conns[d].stream].flow = "dialing"
    BY <1>1, <1>6, <2>1, <2>2 DEF CarriersOK
  <2>4. \A d \in Conn : conns'[d].at \in Holding =>
           /\ objects'[conns'[d].stream].mu = d /\ conns'[d].stream = conns[d].stream
           /\ conns[d].at \in Holding \/ ~Full(conns[d].stream)
    BY <1>1, <1>6, <2>1, <2>2 DEF CarriersOK, Holding
  <2> QED BY <1>1, <1>6, <2>1, <2>3, <2>4, CarriersStep
<1> QED BY <1>3, <1>4, <1>5, <1>7, <1>8, <1>9, <1>10 DEF Parts

LEMMA TimerFiresStep == \A o \in DOMAIN objects : Parts /\ TimerFires(o) => Parts'
<1> SUFFICES ASSUME NEW o \in DOMAIN objects, Parts, TimerFires(o) PROVE Parts'
  OBVIOUS
<1> DEFINE r == [objects[o] EXCEPT !.timer = "fired"]
<1>1. objects[o] \in Object /\ ObjectOK(objects[o])
  BY DEF Parts, TableOK
<1>2. objects[o].timer = "armed" /\ objects' = [objects EXCEPT ![o] = r] /\ UNCHANGED conns
  BY DEF TimerFires
<1>3. Still /\ UNCHANGED doomed /\ Memory'
  BY RestStill DEF TimerFires
<1>4. /\ r \in Object /\ r.id = objects[o].id /\ r.mu = objects[o].mu /\ r.flow = objects[o].flow
      /\ r.started = objects[o].started /\ r.expired = objects[o].expired
      /\ r.removed = objects[o].removed /\ r.timer = "fired"
  BY <1>1 DEF Object
<1> HIDE DEF r
<1>5. ObjectOK(r) /\ (Held(r) <=> Held(objects[o]))
  BY <1>1, <1>2, <1>4 DEF ObjectOK, Held
<1> QED BY <1>2, <1>3, <1>4, <1>5, ObjectStep

LEMMA ExpireStep == \A o \in DOMAIN objects : Parts /\ Expire(o) => Parts'
<1> SUFFICES ASSUME NEW o \in DOMAIN objects, Parts, Expire(o) PROVE Parts'
  OBVIOUS
<1> DEFINE flow == IF MayExpire(o) THEN "done" ELSE objects[o].flow
           r == [objects[o] EXCEPT !.timer = "off", !.flow = flow, !.expired = MayExpire(o)]
<1>1. objects[o] \in Object /\ ObjectOK(objects[o])
  BY DEF Parts, TableOK
<1>2. objects[o].timer = "fired" /\ objects' = [objects EXCEPT ![o] = r] /\ UNCHANGED conns
  BY DEF Expire
<1>3. Still /\ UNCHANGED doomed /\ Memory'
  BY RestStill DEF Expire
<1>4. /\ MayExpire(o) \in BOOLEAN
      /\ MayExpire(o) <=> (objects[o].flow # "done" /\ ~objects[o].started)
      /\ flow \in {"dialing", "live", "done", "failed"}
  BY <1>1, ObjectFields DEF MayExpire
<1>5. /\ r \in Object /\ r.id = objects[o].id /\ r.mu = objects[o].mu /\ r.flow = flow
      /\ r.started = objects[o].started /\ r.expired = MayExpire(o)
      /\ r.removed = objects[o].removed /\ r.timer = "off"
  BY <1>1, <1>4 DEF Object
<1>6. objects[o].flow \in {"live", "done"} /\ flow \in {"live", "done"}
  BY <1>1, <1>2, ObjectFields DEF ObjectOK
<1>7. MayExpire(o) => flow = "done"
  OBVIOUS
<1>8. objects[o].removed # "no" => flow = "done"
  BY <1>1 DEF ObjectOK
<1> HIDE DEF r, flow
<1>9. ObjectOK(r)
  BY <1>1, <1>2, <1>4, <1>5, <1>6, <1>7, <1>8 DEF ObjectOK
<1>10. Held(r) <=> Held(objects[o])
  BY <1>5, <1>6 DEF Held
<1> QED BY <1>2, <1>3, <1>5, <1>6, <1>9, <1>10, ObjectStep

LEMMA RemoveBeginsStep == \A o \in DOMAIN objects : Parts /\ RemoveBegins(o) => Parts'
<1> SUFFICES ASSUME NEW o \in DOMAIN objects, Parts, RemoveBegins(o) PROVE Parts'
  OBVIOUS
<1> DEFINE timer == Stopped(objects[o].timer)
           r == [objects[o] EXCEPT !.timer = timer, !.removed = "timer"]
<1>1. objects[o] \in Object /\ ObjectOK(objects[o])
  BY DEF Parts, TableOK
<1>2. /\ objects[o].flow = "done" /\ objects[o].removed = "no"
      /\ objects' = [objects EXCEPT ![o] = r] /\ UNCHANGED conns
  BY DEF RemoveBegins
<1>3. Still /\ UNCHANGED doomed /\ Memory'
  BY RestStill DEF RemoveBegins
<1>4. timer \in {"off", "fired"}
  BY <1>1, ObjectFields DEF Stopped
<1>5. /\ r \in Object /\ r.id = objects[o].id /\ r.mu = objects[o].mu /\ r.flow = objects[o].flow
      /\ r.started = objects[o].started /\ r.expired = objects[o].expired
      /\ r.removed = "timer" /\ r.timer = timer
  BY <1>1, <1>4 DEF Object
<1> HIDE DEF r, timer
<1>6. ObjectOK(r) /\ (Held(r) <=> Held(objects[o]))
  BY <1>1, <1>2, <1>4, <1>5 DEF ObjectOK, Held
<1> QED BY <1>2, <1>3, <1>5, <1>6, ObjectStep

\* The stream leaves the table.
LEMMA TableDrops ==
  ASSUME TableOK, StreamsOK, NEW o \in DOMAIN objects, NEW r, Changed(o, r),
         r.id = objects[o].id, ObjectOK(r), Held(objects[o]), ~Held(r),
         streams' = Without(objects[o].id)
  PROVE  TableOK' /\ StreamsOK'
<1>1. /\ objects[o].id \in DOMAIN streams /\ streams[objects[o].id] = o
      /\ DOMAIN streams' = DOMAIN streams \ {objects[o].id}
      /\ \A i \in DOMAIN streams' : streams'[i] = streams[i] /\ i \in DOMAIN streams
  BY DEF TableOK, Without
<1>2. /\ \A p \in DOMAIN objects : objects'[p].id = objects[p].id
      /\ DOMAIN objects' = DOMAIN objects
  BY DEF Changed
<1>3. ASSUME NEW p \in DOMAIN objects
      PROVE  /\ ObjectOK(objects'[p])
             /\ Held(objects'[p]) <=>
                  (objects'[p].id \in DOMAIN streams' /\ streams'[objects'[p].id] = p)
  <2>1. CASE p = o
    BY <1>1, <2>1 DEF Changed
  <2>2. CASE p # o
    <3>1. objects'[p] = objects[p]
      BY <2>2 DEF Changed
    <3>2. Held(objects[p]) => objects[p].id # objects[o].id
      BY <1>1, <2>2 DEF TableOK
    <3> QED BY <1>1, <3>1, <3>2 DEF TableOK
  <2> QED BY <2>1, <2>2
<1>4. \A i \in DOMAIN streams' : objects'[streams'[i]].id = i
  BY <1>1, <1>2 DEF TableOK, StreamsOK
<1>5. TableOK'
  BY <1>2, <1>3, <1>4 DEF TableOK
<1>6. /\ streams' \in [DOMAIN streams' -> DOMAIN objects']
      /\ DOMAIN streams' \subseteq StreamId
  BY <1>1, <1>2 DEF StreamsOK, Without
<1>7. /\ IsFiniteSet(DOMAIN streams')
      /\ MaxStreams > 0 => Cardinality(DOMAIN streams') <= MaxStreams
  <2>1. DOMAIN streams' \subseteq DOMAIN streams /\ IsFiniteSet(DOMAIN streams)
    BY <1>1 DEF StreamsOK
  <2> DEFINE before == DOMAIN streams
             after == DOMAIN streams'
  <2> HIDE DEF before, after
  <2>2. after \subseteq before /\ IsFiniteSet(before)
    BY <2>1 DEF before, after
  <2>3. /\ IsFiniteSet(after) /\ Cardinality(after) <= Cardinality(before)
        /\ Cardinality(after) \in Nat /\ Cardinality(before) \in Nat
    BY <2>2, FS_Subset, FS_CardinalityType
  <2>4. MaxStreams > 0 => Cardinality(before) <= MaxStreams
    BY DEF StreamsOK, before
  <2>5. MaxStreams > 0 => Cardinality(after) <= MaxStreams
    BY <2>3, <2>4, TTLs
  <2> QED BY <2>3, <2>5 DEF after
<1> QED BY <1>5, <1>6, <1>7 DEF StreamsOK

\* ... and its identifier is remembered, unless the server is stopping.
LEMMA ServedGrows ==
  ASSUME Parts, NEW o \in DOMAIN objects, NEW r, Changed(o, r), r.id = objects[o].id,
         RememberClosed(objects[o].id), UNCHANGED <<now, control>>
  PROVE  Memory' /\ Served'
<1>1. /\ objects[o] \in Object /\ Memory
      /\ \A p \in DOMAIN objects : objects[p] \in Object
  BY DEF Parts
<1>2. PICK id \in StreamId : id = objects[o].id
  BY <1>1, ObjectFields
<1>3. /\ Memory'
      /\ ~Stopping => Grown(ended, [id |-> id, at |-> now], ended')
      /\ Stopping' = Stopping
  BY <1>1, <1>2, MemoryGrows DEF Stopping, control
<1>4. Served'
  <2> SUFFICES ASSUME ~Stopping, NEW p \in DOMAIN objects', ~Held(objects'[p])
               PROVE  LastEnded(ended', objects'[p].id, Len(ended')) # {}
    BY <1>3 DEF Served
  <2>1. p \in DOMAIN objects /\ objects'[p].id = objects[p].id
    BY DEF Changed
  <2>2. Grown(ended, [id |-> id, at |-> now], ended')
    BY <1>3
  <2>3. CASE objects[p].id = id
    BY <2>1, <2>2, <2>3 DEF Grown
  <2>4. CASE objects[p].id # id
    <3>1. LastEnded(ended', objects[p].id, Len(ended')) = LastEnded(ended, objects[p].id, Len(ended))
      BY <2>2, <2>4 DEF Grown
    <3>2. ~Held(objects[p])
      BY <1>2, <2>4 DEF Changed
    <3> QED BY <2>1, <3>1, <3>2 DEF Parts, Served
  <2> QED BY <2>3, <2>4
<1> QED BY <1>3, <1>4

LEMMA RemoveStep == \A o \in DOMAIN objects : Parts /\ Remove(o) => Parts'
<1> SUFFICES ASSUME NEW o \in DOMAIN objects, Parts, Remove(o) PROVE Parts'
  OBVIOUS
<1> DEFINE r == [objects[o] EXCEPT !.removed = "yes"]
<1>1. /\ objects[o] \in Object /\ ObjectOK(objects[o]) /\ objects \in Seq(Object)
      /\ ConnsOK /\ CarriersOK /\ TableOK /\ StreamsOK
  BY DEF Parts, TableOK
<1>2. /\ objects[o].removed = "timer" /\ objects' = [objects EXCEPT ![o] = r]
      /\ UNCHANGED <<conns, now, control>> /\ RememberClosed(objects[o].id)
  BY DEF Remove
<1>3. /\ r \in Object /\ r.id = objects[o].id /\ r.mu = objects[o].mu /\ r.flow = objects[o].flow
      /\ r.started = objects[o].started /\ r.expired = objects[o].expired
      /\ r.removed = "yes" /\ r.timer = objects[o].timer
  BY <1>1 DEF Object
<1> HIDE DEF r
<1>4. ObjectOK(r) /\ Held(objects[o]) /\ ~Held(r) /\ r.flow = "done"
  BY <1>1, <1>2, <1>3 DEF ObjectOK, Held
<1>5. Changed(o, r)
  BY <1>1, <1>2, <1>3, ObjectChanged
<1>6. streams' = Without(objects[o].id)
  BY <1>1, <1>4 DEF Remove, TableOK
<1>7. TableOK' /\ StreamsOK'
  BY <1>1, <1>3, <1>4, <1>5, <1>6, TableDrops
<1>8. Memory' /\ Served'
  BY <1>2, <1>3, <1>5, ServedGrows
<1>9. objects' \in Seq(Object) /\ DOMAIN objects' = DOMAIN objects
  BY <1>5 DEF Changed
<1>10. ConnsOK' /\ PendingOK'
  BY <1>2, <1>9 DEF Parts, ConnsOK, PendingOK, Pending
<1>11. ControlOK'
  BY <1>2 DEF Parts, ControlOK, control
<1>12. \A p \in DOMAIN objects :
         /\ objects'[p].mu = objects[p].mu /\ objects'[p].flow = objects[p].flow
  BY <1>3, <1>5 DEF Changed
<1>13. DoomedOK'
  <2>1. doomed' \subseteq doomed
    BY <1>2 DEF control
  <2> QED BY <1>9, <1>12, <2>1, DoomedKept DEF Parts
<1>14. CarriersOK'
  <2>1. \A d \in Conn : conns'[d] = conns[d]
    BY <1>2
  <2>2. \A d \in Conn : conns[d].at \in Holding \cup {"dial"} => conns[d].stream \in DOMAIN objects
    BY <1>1, ConnFields DEF Holding, Unbound
  <2>3. \A d \in Conn : conns'[d].at = "dial" =>
           conns'[d] = conns[d] /\ objects'[conns[d].stream].flow = "dialing"
    BY <1>1, <1>12, <2>1, <2>2 DEF CarriersOK
  <2>4. \A d \in Conn : conns'[d].at \in Holding =>
           /\ objects'[conns'[d].stream].mu = d /\ conns'[d].stream = conns[d].stream
           /\ conns[d].at \in Holding \/ ~Full(conns[d].stream)
    BY <1>1, <1>12, <2>1, <2>2 DEF CarriersOK, Holding
  <2> QED BY <1>1, <1>12, <2>1, <2>3, <2>4, CarriersStep
<1> QED BY <1>7, <1>8, <1>9, <1>10, <1>11, <1>13, <1>14 DEF Parts

-----------------------------------------------------------------------------
(* Steps of a virtual stream that change its stream.                       *)

\* attachMu: whoever finds it free, or holds it, is the only one to hold it.
LEMMA OneHolder ==
  ASSUME Parts, NEW c \in Conn, NEW o \in DOMAIN objects, conns[c].stream = o,
         objects[o].mu = Nobody \/ conns[c].at \in Holding
  PROVE  \A d \in Conn : d # c /\ conns[d].at \in Holding => conns[d].stream # o
<1> SUFFICES ASSUME NEW d \in Conn, d # c, conns[d].at \in Holding, conns[d].stream = o
             PROVE  FALSE
  OBVIOUS
<1>1. objects[o].mu = d
  BY DEF Parts, CarriersOK, Holding
<1>2. objects[o].mu \in {c, Nobody}
  BY DEF Parts, CarriersOK, Holding
<1> QED BY <1>1, <1>2, ServerAssumption DEF ServerAssumption

LEMMA BothStep ==
  ASSUME Parts, NEW c \in Conn, NEW o \in DOMAIN objects, conns[c].stream = o,
         conns[c].at \in Counted, NEW v, Moved(c, v), NEW f, conns' = [conns EXCEPT ![c] = f],
         Placed(v, Len(objects)), v.at # "dial", NEW r \in Object, Changed(o, r),
         objects[o].flow = "dialing" => conns[c].at = "dial",
         objects[o].flow \in {"live", "done"} => r.flow \in {"live", "done"},
         v.at \in Bound => v.stream = o /\ r.flow \in {"live", "done"},
         v.at \in Holding => r.mu = c /\ (conns[c].at \in Holding \/ ~Full(o)),
         \/ r.mu = objects[o].mu /\ v.at # "attached"
         \/ objects[o].mu = Nobody \/ conns[c].at \in Holding,
         doomed' \subseteq doomed
  PROVE  /\ ConnsOK' /\ PendingOK' /\ CarriersOK' /\ DoomedOK'
         /\ objects' \in Seq(Object)
<1>1. /\ ConnsOK /\ objects \in Seq(Object) /\ CarriersOK /\ Len(objects) \in Nat
      /\ objects' \in Seq(Object) /\ Len(objects') = Len(objects)
      /\ DOMAIN objects' = DOMAIN objects
      /\ objects'[o] = r /\ \A p \in DOMAIN objects : p # o => objects'[p] = objects[p]
  BY DEF Parts, Changed
<1>2. ConnsOK'
  <2>1. Len(objects') >= Len(objects) /\ Placed(v, Len(objects'))
    BY <1>1
  <2> QED BY <1>1, <2>1, ConnsMoved
<1>3. PendingOK'
  BY PendingKept DEF Parts
<1>4. \A p \in DOMAIN objects :
        objects[p].flow \in {"live", "done"} => objects'[p].flow \in {"live", "done"}
  BY <1>1
<1>5. DoomedOK'
  BY <1>1, <1>4, DoomedKept DEF Parts
<1>6. CarriersOK'
  <2>1. \A d \in Conn : d # c => conns'[d] = conns[d]
    BY DEF Moved
  <2>2. conns'[c] = v
    BY DEF Moved
  <2>3. ASSUME NEW d \in Conn, conns'[d].at = "dial"
        PROVE  conns'[d] = conns[d] /\ objects'[conns[d].stream].flow = "dialing"
    <3>1. d # c /\ conns'[d] = conns[d] /\ conns[d].at = "dial"
      BY <2>1, <2>2, <2>3
    <3>2. conns[d].stream \in DOMAIN objects /\ objects[conns[d].stream].flow = "dialing"
      BY <1>1, <3>1, ConnFields DEF Unbound, CarriersOK
    <3>3. conns[d].stream # o
      BY <1>1, <3>1, <3>2 DEF CarriersOK
    <3> QED BY <1>1, <3>1, <3>2, <3>3
  <2>4. ASSUME NEW d \in Conn, conns'[d].at \in Bound
        PROVE  \/ objects'[conns'[d].stream].flow \in {"live", "done"}
               \/ conns'[d].stream = conns[d].stream /\ conns[d].at \in Bound
    BY <1>1, <2>1, <2>2, <2>4
  <2>5. ASSUME NEW d \in Conn, conns'[d].at \in Holding
        PROVE  /\ objects'[conns'[d].stream].mu = d /\ conns'[d].stream = conns[d].stream
               /\ conns[d].at \in Holding \/ ~Full(conns[d].stream)
    <3>1. CASE d = c
      <4>1. v.stream = o
        BY <2>2, <2>5, <3>1 DEF Holding, Bound
      <4> QED BY <1>1, <2>2, <2>5, <3>1, <4>1
    <3>2. CASE d # c
      <4>1. conns'[d] = conns[d] /\ conns[d].at \in Holding
        BY <2>1, <2>5, <3>2
      <4>2. conns[d].stream \in DOMAIN objects /\ objects[conns[d].stream].mu = d
        BY <1>1, <4>1, ConnFields DEF Holding, Unbound, CarriersOK
      <4>3. CASE conns[d].stream # o
        BY <1>1, <4>1, <4>2, <4>3
      <4>4. CASE conns[d].stream = o
        <5>1. ~(objects[o].mu = Nobody \/ conns[c].at \in Holding)
          BY <3>2, <4>1, <4>4, OneHolder
        <5>2. r.mu = objects[o].mu
          BY <5>1
        <5> QED BY <1>1, <4>1, <4>2, <4>4, <5>2
      <4> QED BY <4>3, <4>4
    <3> QED BY <3>1, <3>2
  <2>6. ASSUME NEW d \in Conn, NEW e \in Conn, conns'[e].at \in Holding,
               conns'[d] = [at |-> "attached", stream |-> conns'[e].stream]
        PROVE  conns'[d] = conns[d]
    <3>1. CASE d # c
      BY <2>1, <3>1
    <3>2. CASE d = c
      <4>1. v.at = "attached" /\ conns'[d].at = "attached" /\ v.stream = conns'[e].stream
        BY <2>2, <2>6, <3>2
      <4>2. v.stream = o
        BY <4>1 DEF Bound
      <4>3. e # c
        BY <2>2, <2>6, <4>1 DEF Holding
      <4>4. conns[e].at \in Holding /\ conns[e].stream = o
        BY <2>1, <2>6, <4>1, <4>2, <4>3
      <4> QED BY <4>1, <4>3, <4>4, OneHolder
    <3> QED BY <3>1, <3>2
  <2> QED BY <1>1, <1>4, <2>3, <2>4, <2>5, <2>6, CarriersStep
<1> QED BY <1>1, <1>2, <1>3, <1>5, <1>6

LEMMA DialFailsStep == \A c \in Conn : Parts /\ DialFails(c) => Parts'
<1> SUFFICES ASSUME NEW c \in Conn, Parts, DialFails(c) PROVE Parts'
  OBVIOUS
<1>0. PICK o : o = conns[c].stream
  OBVIOUS
<1> DEFINE r == [objects[o] EXCEPT !.flow = "failed"]
           v == [at |-> "closed", stream |-> 0]
<1>1. /\ objects \in Seq(Object) /\ ConnsOK /\ CarriersOK /\ TableOK /\ StreamsOK
      /\ conns[c].at = "dial" /\ o \in DOMAIN objects
  BY <1>0, ConnFields DEF Parts, DialFails, Unbound
<1>2. /\ objects' = [objects EXCEPT ![o] = r] /\ streams' = Without(objects[o].id)
      /\ RememberClosed(objects[o].id) /\ Return(c, "closed") /\ UNCHANGED <<now, control>>
  BY <1>0 DEF DialFails
<1>3. objects[o] \in Object /\ ObjectOK(objects[o]) /\ objects[o].flow = "dialing"
  BY <1>0, <1>1 DEF TableOK, CarriersOK
<1>4. /\ r \in Object /\ r.id = objects[o].id /\ r.mu = objects[o].mu /\ r.flow = "failed"
      /\ r.started = objects[o].started /\ r.expired = objects[o].expired
      /\ r.removed = objects[o].removed /\ r.timer = objects[o].timer
  BY <1>3 DEF Object
<1> HIDE DEF r
<1>5. ObjectOK(r) /\ Held(objects[o]) /\ ~Held(r)
  BY <1>3, <1>4 DEF ObjectOK, Held
<1>6. Changed(o, r)
  BY <1>1, <1>2, <1>4, ObjectChanged
<1>7. TableOK' /\ StreamsOK'
  BY <1>1, <1>2, <1>4, <1>5, <1>6, TableDrops
<1>8. Memory' /\ Served'
  BY <1>1, <1>2, <1>4, <1>6, ServedGrows
<1>9. Moved(c, v) /\ \E f : conns' = [conns EXCEPT ![c] = f]
  BY <1>1, <1>2, Moving DEF Return
<1>10. Placed(v, Len(objects)) /\ v.at = "closed"
  BY DEF Placed, At, Unbound
<1> HIDE DEF v
<1>11. ConnsOK' /\ PendingOK' /\ CarriersOK' /\ DoomedOK' /\ objects' \in Seq(Object)
  <2>1. conns[c].at \in Counted /\ conns[c].stream = o /\ doomed' \subseteq doomed
    BY <1>0, <1>1, <1>2 DEF Counted, control
  <2>2. v.at # "dial" /\ v.at \notin Bound /\ v.at \notin Holding /\ v.at # "attached"
    BY <1>10 DEF Bound, Holding
  <2>3. PICK f : conns' = [conns EXCEPT ![c] = f]
    BY <1>9
  <2> QED BY <1>1, <1>3, <1>4, <1>6, <1>9, <1>10, <2>1, <2>2, <2>3, BothStep
<1>12. ControlOK'
  BY <1>2 DEF Parts, ControlOK, control
<1> QED BY <1>7, <1>8, <1>11, <1>12 DEF Parts

LEMMA DialAbandonedStep == \A c \in Conn : Parts /\ DialSucceeds(c) /\ DialAbandoned => Parts'
<1> SUFFICES ASSUME NEW c \in Conn, Parts, DialSucceeds(c), DialAbandoned PROVE Parts'
  OBVIOUS
<1>0. PICK o : o = conns[c].stream
  OBVIOUS
<1> DEFINE r == [objects[o] EXCEPT !.flow = "failed"]
           v == [at |-> "closed", stream |-> 0]
<1>1. /\ objects \in Seq(Object) /\ ConnsOK /\ CarriersOK /\ TableOK /\ StreamsOK /\ Memory
      /\ conns[c].at = "dial" /\ o \in DOMAIN objects /\ now \in Nat
  BY <1>0, ConnFields DEF Parts, DialSucceeds, Unbound, Memory
<1>2. /\ objects' = [objects EXCEPT ![o] = r] /\ streams' = Without(objects[o].id)
      /\ Return(c, "closed") /\ UNCHANGED <<now, control, closed, order, ended>>
  BY <1>0 DEF DialSucceeds
<1>3. objects[o] \in Object /\ ObjectOK(objects[o]) /\ objects[o].flow = "dialing"
  BY <1>0, <1>1 DEF TableOK, CarriersOK
<1>4. /\ r \in Object /\ r.id = objects[o].id /\ r.mu = objects[o].mu /\ r.flow = "failed"
      /\ r.started = objects[o].started /\ r.expired = objects[o].expired
      /\ r.removed = objects[o].removed /\ r.timer = objects[o].timer
  BY <1>3 DEF Object
<1> HIDE DEF r
<1>5. ObjectOK(r) /\ Held(objects[o]) /\ ~Held(r)
  BY <1>3, <1>4 DEF ObjectOK, Held
<1>6. Changed(o, r)
  BY <1>1, <1>2, <1>4, ObjectChanged
<1>7. TableOK' /\ StreamsOK'
  BY <1>1, <1>2, <1>4, <1>5, <1>6, TableDrops
<1>8. Memory' /\ Served'
  <2>1. Stopping /\ Stopping'
    BY <1>2 DEF DialAbandoned, Stopping, control
  <2> QED BY <1>1, <1>2, <2>1, MemoryUnchanged DEF Served
<1>9. Moved(c, v) /\ \E f : conns' = [conns EXCEPT ![c] = f]
  BY <1>1, <1>2, Moving DEF Return
<1>10. Placed(v, Len(objects)) /\ v.at = "closed"
  BY DEF Placed, At, Unbound
<1> HIDE DEF v
<1>11. ConnsOK' /\ PendingOK' /\ CarriersOK' /\ DoomedOK' /\ objects' \in Seq(Object)
  <2>1. conns[c].at \in Counted /\ conns[c].stream = o /\ doomed' \subseteq doomed
    BY <1>0, <1>1, <1>2 DEF Counted, control
  <2>2. v.at # "dial" /\ v.at \notin Bound /\ v.at \notin Holding /\ v.at # "attached"
    BY <1>10 DEF Bound, Holding
  <2>3. PICK f : conns' = [conns EXCEPT ![c] = f]
    BY <1>9
  <2> QED BY <1>1, <1>3, <1>4, <1>6, <1>9, <1>10, <2>1, <2>2, <2>3, BothStep
<1>12. ControlOK'
  BY <1>2 DEF Parts, ControlOK, control
<1> QED BY <1>7, <1>8, <1>11, <1>12 DEF Parts

\* BothStep, when the table does not change.
LEMMA StreamStep ==
  ASSUME Parts, NEW c \in Conn, NEW o \in DOMAIN objects, conns[c].stream = o,
         conns[c].at \in Counted, NEW v, Moved(c, v), \E f : conns' = [conns EXCEPT ![c] = f],
         Placed(v, Len(objects)), v.at # "dial",
         NEW r \in Object, objects' = [objects EXCEPT ![o] = r],
         objects[o].flow = "dialing" => conns[c].at = "dial",
         objects[o].flow \in {"live", "done"} => r.flow \in {"live", "done"},
         v.at \in Bound => v.stream = o /\ r.flow \in {"live", "done"},
         v.at \in Holding => r.mu = c /\ (conns[c].at \in Holding \/ ~Full(o)),
         \/ r.mu = objects[o].mu /\ v.at # "attached"
         \/ objects[o].mu = Nobody \/ conns[c].at \in Holding,
         r.id = objects[o].id, ObjectOK(r), Held(r) <=> Held(objects[o]),
         UNCHANGED <<table, now, control>>
  PROVE  Parts'
<1>1. objects \in Seq(Object) /\ TableOK /\ StreamsOK
  BY DEF Parts
<1>2. Changed(o, r)
  BY <1>1, ObjectChanged
<1>3. Still /\ UNCHANGED doomed /\ Memory'
  BY RestStill
<1>4. PICK f : conns' = [conns EXCEPT ![c] = f]
  OBVIOUS
<1>5. doomed' \subseteq doomed
  BY <1>3
<1>6. ConnsOK' /\ PendingOK' /\ CarriersOK' /\ DoomedOK' /\ objects' \in Seq(Object)
  BY ZenonT(30), <1>2, <1>4, <1>5, BothStep
<1>7. TableOK'
  BY <1>1, <1>2, <1>3, TableKept DEF Still
<1>8. StreamsOK' /\ ControlOK'
  BY <1>2, <1>3, StillKept DEF Parts, Still, Changed
<1>9. Served'
  <2>1. \A p \in DOMAIN objects :
          (Held(objects'[p]) <=> Held(objects[p])) /\ objects'[p].id = objects[p].id
    BY <1>2 DEF Changed
  <2>2. DOMAIN objects' = DOMAIN objects
    BY <1>2 DEF Changed
  <2> QED BY <1>3, <2>1, <2>2, ServedKept DEF Parts, Still, Stopping
<1> QED BY <1>3, <1>6, <1>7, <1>8, <1>9 DEF Parts

LEMMA DialSucceedsStep == \A c \in Conn : Parts /\ DialSucceeds(c) => Parts'
<1> SUFFICES ASSUME NEW c \in Conn, Parts, DialSucceeds(c), ~DialAbandoned PROVE Parts'
  BY DialAbandonedStep
<1>0. PICK o : o = conns[c].stream
  OBVIOUS
<1> DEFINE r == [objects[o] EXCEPT !.flow = "live", !.timer = "armed"]
           v == [at |-> "lock", stream |-> o]
<1>1. /\ objects \in Seq(Object) /\ ConnsOK /\ CarriersOK /\ TableOK
      /\ conns[c].at = "dial" /\ o \in DOMAIN objects /\ Placed(conns[c], Len(objects))
  BY <1>0, ConnFields DEF Parts, DialSucceeds, Unbound
<1>2. /\ objects' = [objects EXCEPT ![o] = r] /\ Move(c, "lock")
      /\ UNCHANGED <<table, now, control>>
  BY <1>0 DEF DialSucceeds, table
<1>3. objects[o] \in Object /\ ObjectOK(objects[o]) /\ objects[o].flow = "dialing"
  BY <1>0, <1>1 DEF TableOK, CarriersOK
<1>4. /\ r \in Object /\ r.id = objects[o].id /\ r.mu = objects[o].mu /\ r.flow = "live"
      /\ r.started = objects[o].started /\ r.expired = objects[o].expired
      /\ r.removed = objects[o].removed /\ r.timer = "armed"
  BY <1>3 DEF Object
<1> HIDE DEF r
<1>5. ObjectOK(r) /\ (Held(r) <=> Held(objects[o]))
  <2>1. objects[o].removed = "no"
    BY <1>3, ObjectFields DEF ObjectOK
  <2> QED BY <1>3, <1>4, <2>1 DEF ObjectOK, Held
<1>6. Moved(c, v) /\ \E f : conns' = [conns EXCEPT ![c] = f]
  BY <1>0, <1>1, <1>2, Moving DEF Move
<1>7. Placed(v, Len(objects))
  BY <1>0, <1>1 DEF Placed, At, Unbound
<1>8. v.at = "lock" /\ v.stream = o /\ v.at \notin Holding
  BY DEF Holding
<1> HIDE DEF v
<1>9. conns[c].stream = o /\ conns[c].at \in Counted
  BY <1>0, <1>1 DEF Counted
<1> QED BY <1>1, <1>2, <1>3, <1>4, <1>5, <1>6, <1>7, <1>8, <1>9, StreamStep

LEMMA AttachBeginsStep == \A c \in Conn : Parts /\ AttachBegins(c) => Parts'
<1> SUFFICES ASSUME NEW c \in Conn, Parts, AttachBegins(c) PROVE Parts'
  OBVIOUS
<1>0. PICK o : o = conns[c].stream
  OBVIOUS
<1>1. /\ objects \in Seq(Object) /\ ConnsOK /\ CarriersOK /\ TableOK
      /\ conns[c].at = "lock" /\ o \in DOMAIN objects /\ Placed(conns[c], Len(objects))
      /\ objects[o].mu = Nobody /\ UNCHANGED <<table, now, control>>
  BY <1>0, ConnFields DEF Parts, AttachBegins, MuFree, Unbound
<1>2. CASE Return(c, "closed") /\ UNCHANGED objects
  BY <1>1, <1>2, RestStill, ReturnStep
<1>3. CASE /\ ~Full(o) /\ Move(c, "write")
           /\ objects' = [objects EXCEPT ![o].mu = c]
  <2> DEFINE r == [objects[o] EXCEPT !.mu = c]
             v == [at |-> "write", stream |-> o]
  <2>1. objects[o] \in Object /\ ObjectOK(objects[o]) /\ objects[o].flow \in {"live", "done"}
    BY <1>0, <1>1 DEF TableOK, CarriersOK
  <2>2. /\ r \in Object /\ r.id = objects[o].id /\ r.mu = c /\ r.flow = objects[o].flow
        /\ r.started = objects[o].started /\ r.expired = objects[o].expired
        /\ r.removed = objects[o].removed /\ r.timer = objects[o].timer
    BY <2>1 DEF Object
  <2>3. objects' = [objects EXCEPT ![o] = r]
    BY <1>3
  <2> HIDE DEF r
  <2>4. ObjectOK(r) /\ (Held(r) <=> Held(objects[o]))
    BY <2>1, <2>2 DEF ObjectOK, Held
  <2>5. Moved(c, v) /\ \E f : conns' = [conns EXCEPT ![c] = f]
    BY <1>0, <1>1, <1>3, Moving DEF Move
  <2>6. Placed(v, Len(objects))
    BY <1>0, <1>1 DEF Placed, At, Unbound
  <2>7. v.at = "write" /\ v.stream = o
    OBVIOUS
  <2> HIDE DEF v
  <2>8. conns[c].stream = o /\ conns[c].at \in Counted
    BY <1>0, <1>1 DEF Counted
  <2>9. /\ v.at # "dial" /\ r.mu = c /\ ~Full(o)
        /\ v.at \in Bound => v.stream = o /\ r.flow \in {"live", "done"}
        /\ objects[o].flow = "dialing" => conns[c].at = "dial"
        /\ objects[o].flow \in {"live", "done"} => r.flow \in {"live", "done"}
    BY <1>3, <2>1, <2>2, <2>7
  <2> QED BY <1>1, <2>2, <2>3, <2>4, <2>5, <2>6, <2>8, <2>9, StreamStep
<1> QED BY <1>0, <1>2, <1>3 DEF AttachBegins

LEMMA WriteResultStep == \A c \in Conn : Parts /\ WriteResult(c) => Parts'
<1> SUFFICES ASSUME NEW c \in Conn, Parts, WriteResult(c) PROVE Parts'
  OBVIOUS
<1>0. PICK o : o = conns[c].stream
  OBVIOUS
<1>1. /\ objects \in Seq(Object) /\ ConnsOK /\ CarriersOK /\ TableOK
      /\ conns[c].at = "write" /\ o \in DOMAIN objects /\ Placed(conns[c], Len(objects))
      /\ UNCHANGED <<table, now, control>>
  BY <1>0, ConnFields DEF Parts, WriteResult, Unbound
<1>2. /\ objects[o] \in Object /\ ObjectOK(objects[o]) /\ objects[o].flow \in {"live", "done"}
      /\ objects[o].mu = c
  BY <1>0, <1>1 DEF TableOK, CarriersOK
<1>3. /\ conns[c].stream = o /\ conns[c].at \in Counted /\ conns[c].at \in Holding
  BY <1>0, <1>1 DEF Counted, Holding
<1>4. CASE Move(c, "attach") /\ UNCHANGED objects
  <2> DEFINE r == objects[o]
             v == [at |-> "attach", stream |-> o]
  <2>1. objects' = [objects EXCEPT ![o] = r]
    BY <1>1, <1>4
  <2>2. Moved(c, v) /\ \E f : conns' = [conns EXCEPT ![c] = f]
    BY <1>0, <1>1, <1>4, Moving DEF Move
  <2>3. Placed(v, Len(objects))
    BY <1>0, <1>1 DEF Placed, At, Unbound
  <2>4. v.at = "attach" /\ v.stream = o
    OBVIOUS
  <2> HIDE DEF v
  <2> QED BY <1>1, <1>2, <1>3, <2>1, <2>2, <2>3, <2>4, StreamStep
<1>5. CASE /\ Return(c, "closed")
           /\ objects' = [objects EXCEPT ![o].mu = Nobody]
  <2> DEFINE r == [objects[o] EXCEPT !.mu = Nobody]
             v == [at |-> "closed", stream |-> 0]
  <2>1. /\ r \in Object /\ r.id = objects[o].id /\ r.flow = objects[o].flow
        /\ r.started = objects[o].started /\ r.expired = objects[o].expired
        /\ r.removed = objects[o].removed /\ r.timer = objects[o].timer
    BY <1>2 DEF Object
  <2>2. objects' = [objects EXCEPT ![o] = r]
    BY <1>5
  <2> HIDE DEF r
  <2>3. ObjectOK(r) /\ (Held(r) <=> Held(objects[o]))
    BY <1>2, <2>1 DEF ObjectOK, Held
  <2>4. Moved(c, v) /\ \E f : conns' = [conns EXCEPT ![c] = f]
    BY <1>1, <1>5, Moving DEF Return
  <2>5. Placed(v, Len(objects))
    BY DEF Placed, At, Unbound
  <2>6. v.at = "closed" /\ v.at \notin Bound /\ v.at \notin Holding
    BY DEF Bound, Holding
  <2> HIDE DEF v
  <2> QED BY <1>1, <1>2, <1>3, <2>1, <2>2, <2>3, <2>4, <2>5, <2>6, StreamStep
<1> QED BY <1>0, <1>4, <1>5 DEF WriteResult

LEMMA AttachStep == \A c \in Conn : Parts /\ Attach(c) => Parts'
<1> SUFFICES ASSUME NEW c \in Conn, Parts, Attach(c) PROVE Parts'
  OBVIOUS
<1>0. PICK o : o = conns[c].stream
  OBVIOUS
<1>1. /\ objects \in Seq(Object) /\ ConnsOK /\ CarriersOK /\ TableOK
      /\ conns[c].at = "attach" /\ o \in DOMAIN objects /\ Placed(conns[c], Len(objects))
      /\ UNCHANGED <<table, now, control>>
  BY <1>0, ConnFields DEF Parts, Attach, Unbound
<1>2. /\ objects[o] \in Object /\ ObjectOK(objects[o]) /\ objects[o].flow \in {"live", "done"}
      /\ objects[o].mu = c
  BY <1>0, <1>1 DEF TableOK, CarriersOK
<1>3. /\ conns[c].stream = o /\ conns[c].at \in Counted /\ conns[c].at \in Holding
  BY <1>0, <1>1 DEF Counted, Holding
<1>4. CASE /\ Return(c, "closed")
           /\ objects' = [objects EXCEPT ![o].mu = Nobody]
  <2> DEFINE r == [objects[o] EXCEPT !.mu = Nobody]
             v == [at |-> "closed", stream |-> 0]
  <2>1. /\ r \in Object /\ r.id = objects[o].id /\ r.flow = objects[o].flow
        /\ r.started = objects[o].started /\ r.expired = objects[o].expired
        /\ r.removed = objects[o].removed /\ r.timer = objects[o].timer
    BY <1>2 DEF Object
  <2>2. objects' = [objects EXCEPT ![o] = r]
    BY <1>4
  <2> HIDE DEF r
  <2>3. ObjectOK(r) /\ (Held(r) <=> Held(objects[o]))
    BY <1>2, <2>1 DEF ObjectOK, Held
  <2>4. Moved(c, v) /\ \E f : conns' = [conns EXCEPT ![c] = f]
    BY <1>1, <1>4, Moving DEF Return
  <2>5. Placed(v, Len(objects))
    BY DEF Placed, At, Unbound
  <2>6. v.at = "closed" /\ v.at \notin Bound /\ v.at \notin Holding
    BY DEF Bound, Holding
  <2> HIDE DEF v
  <2> QED BY <1>1, <1>2, <1>3, <2>1, <2>2, <2>3, <2>4, <2>5, <2>6, StreamStep
<1>5. CASE /\ objects[o].flow # "done" /\ Move(c, "attached")
           /\ objects' = [objects EXCEPT ![o].mu = Nobody, ![o].started = TRUE,
                                         ![o].timer = Stopped(@)]
  <2> DEFINE timer == Stopped(objects[o].timer)
             r == [objects[o] EXCEPT !.mu = Nobody, !.started = TRUE, !.timer = timer]
             v == [at |-> "attached", stream |-> o]
  <2>0. timer \in {"off", "fired"}
    BY <1>2, ObjectFields DEF Stopped
  <2>1. /\ r \in Object /\ r.id = objects[o].id /\ r.flow = objects[o].flow
        /\ r.started = TRUE /\ r.expired = objects[o].expired
        /\ r.removed = objects[o].removed /\ r.timer = timer
    BY <1>2, <2>0 DEF Object
  <2>2. objects' = [objects EXCEPT ![o] = r]
    BY <1>5
  <2> HIDE DEF r, timer
  <2>3. ObjectOK(r) /\ (Held(r) <=> Held(objects[o]))
    BY <1>2, <1>5, <2>0, <2>1 DEF ObjectOK, Held
  <2>4. Moved(c, v) /\ \E f : conns' = [conns EXCEPT ![c] = f]
    BY <1>0, <1>1, <1>5, Moving DEF Move
  <2>5. Placed(v, Len(objects))
    BY <1>0, <1>1 DEF Placed, At, Unbound
  <2>6. v.at = "attached" /\ v.stream = o /\ v.at \notin Holding
    BY DEF Holding
  <2> HIDE DEF v
  <2> QED BY <1>1, <1>2, <1>3, <2>1, <2>2, <2>3, <2>4, <2>5, <2>6, StreamStep
<1> QED BY <1>0, <1>4, <1>5 DEF Attach

-----------------------------------------------------------------------------
(* The end of a flow, and its beginning.                                   *)

LEMMA EndsStep ==
  ASSUME Parts, NEW o \in DOMAIN objects, objects[o].flow \in {"live", "done"},
         objects' = [objects EXCEPT ![o].flow = "done"], DropCarriers(o),
         Still, doomed' \subseteq doomed, Memory'
  PROVE  Parts'
<1> DEFINE r == [objects[o] EXCEPT !.flow = "done"]
<1>1. /\ objects \in Seq(Object) /\ ConnsOK /\ CarriersOK /\ TableOK /\ StreamsOK
      /\ objects[o] \in Object /\ ObjectOK(objects[o])
  BY DEF Parts, TableOK
<1>2. objects' = [objects EXCEPT ![o] = r]
  OBVIOUS
<1>3. /\ r \in Object /\ r.id = objects[o].id /\ r.mu = objects[o].mu /\ r.flow = "done"
      /\ r.started = objects[o].started /\ r.expired = objects[o].expired
      /\ r.removed = objects[o].removed /\ r.timer = objects[o].timer
  BY <1>1 DEF Object
<1> HIDE DEF r
<1>4. Changed(o, r)
  BY <1>1, <1>2, <1>3, ObjectChanged
<1>5. ObjectOK(r) /\ (Held(r) <=> Held(objects[o]))
  BY <1>1, <1>3 DEF ObjectOK, Held
<1>6. TableOK'
  BY <1>1, <1>3, <1>4, <1>5, TableKept DEF Still
<1>7. /\ objects' \in Seq(Object) /\ DOMAIN objects' = DOMAIN objects
      /\ \A p \in DOMAIN objects :
           /\ objects'[p].mu = objects[p].mu /\ objects'[p].id = objects[p].id
           /\ objects[p].flow = "dialing" => objects'[p].flow = "dialing"
           /\ objects[p].flow \in {"live", "done"} => objects'[p].flow \in {"live", "done"}
           /\ Held(objects'[p]) <=> Held(objects[p])
  BY <1>3, <1>4, <1>5 DEF Changed
<1>8. StreamsOK' /\ ControlOK'
  BY <1>7, StillKept DEF Parts, Still
<1>9. DoomedOK'
  BY <1>7, DoomedKept DEF Parts
<1>10. Served'
  BY <1>7, ServedKept DEF Parts, Still, Stopping
<1>11. ASSUME NEW d \in Conn
       PROVE  \/ conns'[d] = conns[d]
              \/ conns[d].at = "attached" /\ conns'[d] = [at |-> "closed", stream |-> 0]
  BY DEF DropCarriers
<1>12. ConnsOK'
  <2>1. \A d \in Conn : /\ conns'[d] \in [at : At, stream : Nat]
                        /\ IF conns'[d].at \in Unbound THEN conns'[d].stream = 0
                                                       ELSE conns'[d].stream \in DOMAIN objects
    <3> SUFFICES ASSUME NEW d \in Conn
                 PROVE  /\ conns'[d] \in [at : At, stream : Nat]
                        /\ IF conns'[d].at \in Unbound THEN conns'[d].stream = 0
                                                       ELSE conns'[d].stream \in DOMAIN objects
      OBVIOUS
    <3>1. /\ conns[d] \in [at : At, stream : Nat]
          /\ IF conns[d].at \in Unbound THEN conns[d].stream = 0
                                        ELSE conns[d].stream \in DOMAIN objects
      BY <1>1 DEF ConnsOK, At, Unbound
    <3> QED BY <1>11, <3>1 DEF At, Unbound
  <2>2. conns' \in [Conn -> [at : At, stream : Nat]]
    <3>1. conns' \in [Conn -> [at : At, stream : Nat]] <=>
            \A d \in Conn : conns'[d] \in [at : At, stream : Nat]
      BY DEF DropCarriers
    <3> QED BY <2>1, <3>1
  <2> QED BY <1>7, <2>1, <2>2 DEF ConnsOK, At, Unbound
<1>13. PendingOK'
  <2>1. Pending' = Pending
    BY <1>11 DEF Pending
  <2> QED BY <2>1 DEF Parts, PendingOK
<1>14. CarriersOK'
  <2>1. \A d \in Conn : conns'[d].at # "closed" => conns'[d] = conns[d]
    BY <1>11
  <2>2. \A d \in Conn : conns[d].at \in Holding \cup {"dial"} => conns[d].stream \in DOMAIN objects
    BY <1>1, ConnFields DEF Holding, Unbound
  <2>3. \A d \in Conn : conns'[d].at = "dial" =>
           conns'[d] = conns[d] /\ objects'[conns[d].stream].flow = "dialing"
    BY <1>1, <1>7, <2>1, <2>2 DEF CarriersOK
  <2>4. \A d \in Conn : conns'[d].at \in Holding =>
           /\ objects'[conns'[d].stream].mu = d /\ conns'[d].stream = conns[d].stream
           /\ conns[d].at \in Holding \/ ~Full(conns[d].stream)
    BY <1>1, <1>7, <2>1, <2>2 DEF CarriersOK, Holding
  <2>5. \A d \in Conn : conns'[d].at \in Bound =>
           conns'[d].stream = conns[d].stream /\ conns[d].at \in Bound
    BY <2>1 DEF Bound
  <2>6. \A d \in Conn : \A s : conns'[d] = [at |-> "attached", stream |-> s] => conns'[d] = conns[d]
    BY <2>1
  <2> QED BY <1>1, <1>7, <2>3, <2>4, <2>5, <2>6, CarriersStep
<1> QED BY <1>6, <1>7, <1>8, <1>9, <1>10, <1>12, <1>13, <1>14 DEF Parts

LEMMA FlowEndsStep == \A o \in DOMAIN objects : Parts /\ FlowEnds(o) => Parts'
<1> SUFFICES ASSUME NEW o \in DOMAIN objects, Parts, FlowEnds(o) PROVE Parts'
  OBVIOUS
<1>1. /\ objects[o].flow \in {"live", "done"} /\ DropCarriers(o)
      /\ objects' = [objects EXCEPT ![o].flow = "done"]
      /\ Still /\ doomed' \subseteq doomed /\ Memory'
  BY RestStill DEF FlowEnds
<1> QED BY <1>1, EndsStep

LEMMA CloseFlowStep == \A o \in doomed : Parts /\ CloseFlow(o) => Parts'
<1> SUFFICES ASSUME NEW o \in doomed, Parts, CloseFlow(o) PROVE Parts'
  OBVIOUS
<1>1. o \in DOMAIN objects /\ objects[o].flow \in {"live", "done"}
  BY DEF Parts, DoomedOK
<1>2. /\ DropCarriers(o) /\ objects' = [objects EXCEPT ![o].flow = "done"]
      /\ Still /\ doomed' \subseteq doomed /\ UNCHANGED <<closed, order, ended>>
      /\ Memory /\ now \in Nat
  BY DEF CloseFlow, Still, table, Parts, Memory
<1>3. Memory'
  BY <1>2, MemoryUnchanged DEF Still, Stopping
<1> QED BY <1>1, <1>2, <1>3, EndsStep

LEMMA OpenCreatesStep ==
  \A c \in Conn, id \in StreamId, destination \in Destination :
    Parts /\ OpenCreates(c, id, destination) => Parts'
<1> SUFFICES ASSUME NEW c \in Conn, NEW id \in StreamId, NEW destination \in Destination,
                    Parts, OpenCreates(c, id, destination)
             PROVE  Parts'
  OBVIOUS
<1> DEFINE r == [id |-> id, destination |-> destination, flow |-> "dialing",
                 started |-> FALSE, timer |-> "off", mu |-> Nobody, removed |-> "no",
                 expired |-> FALSE, born |-> [at |-> now, after |-> Len(ended)]]
           n == Len(objects) + 1
           v == [at |-> "dial", stream |-> n]
<1>1. /\ objects \in Seq(Object) /\ ConnsOK /\ CarriersOK /\ TableOK /\ StreamsOK /\ DoomedOK
      /\ Len(objects) \in Nat /\ DOMAIN objects = 1 .. Len(objects) /\ Memory
      /\ conns[c].at = "open" /\ id \notin DOMAIN streams /\ ~Refuses(id, destination)
  BY ConnFields DEF Parts, OpenCreates
<1>2. /\ objects' = Append(objects, r) /\ ForgetExpired(id)
      /\ UNCHANGED <<now, control, ended>>
      /\ conns' = [conns EXCEPT ![c] = [at |-> "dial", stream |-> Len(objects')]]
      /\ streams' = [i \in DOMAIN streams \cup {id} |->
                       IF i = id THEN Len(objects') ELSE streams[i]]
  BY DEF OpenCreates
<1>3. r \in Object
  <2>1. now \in Nat /\ Len(ended) \in Nat
    BY <1>1 DEF Memory
  <2> QED BY <2>1 DEF Object
<1>4. /\ objects' \in Seq(Object) /\ Len(objects') = n /\ DOMAIN objects' = 1 .. n
      /\ objects'[n] = r /\ \A o \in DOMAIN objects : objects'[o] = objects[o]
  BY <1>1, <1>2, <1>3
<1>5. /\ r.id = id /\ r.flow = "dialing" /\ ObjectOK(r) /\ Held(r)
  BY DEF ObjectOK, Held
<1> HIDE DEF r
<1>6. n \in Nat /\ n \notin DOMAIN objects /\ DOMAIN objects \subseteq 1 .. n /\ n \in 1 .. n
  BY <1>1
<1>7. \A o \in 1 .. n : o = n \/ o \in DOMAIN objects
  BY <1>1, UpTo
<1> HIDE DEF n
<1>8. Moved(c, v) /\ conns' = [conns EXCEPT ![c] = v]
  BY <1>1, <1>2, <1>4 DEF Moved, ConnsOK
<1>9. Placed(v, n) /\ v.at = "dial" /\ v.stream = n
  BY <1>6 DEF Placed, At, Unbound
<1>10. streams' = [i \in DOMAIN streams \cup {id} |-> IF i = id THEN n ELSE streams[i]]
  BY <1>2, <1>4
<1> HIDE DEF v
<1>11. ConnsOK'
  <2>1. Len(objects') >= Len(objects)
    BY <1>1, <1>4 DEF n
  <2> QED BY <1>1, <1>4, <1>8, <1>9, <2>1, ConnsMoved
<1>12. PendingOK'
  BY <1>1, <1>8, PendingKept DEF Parts, Counted
<1>13. ControlOK'
  BY <1>2 DEF Parts, ControlOK, control
<1>14. DoomedOK'
  <2>1. doomed' \subseteq doomed
    BY <1>2 DEF control
  <2> QED BY <1>1, <1>4, <1>6, <2>1, DoomedKept
<1>15. Memory'
  BY <1>1, <1>2, MemoryExpires
<1>16. Served'
  <2>1. UNCHANGED ended /\ (Stopping => Stopping')
    BY <1>2 DEF Stopping, control
  <2>2. \A o \in DOMAIN objects' :
           \/ Held(objects'[o])
           \/ o \in DOMAIN objects /\ ~Held(objects[o]) /\ objects'[o].id = objects[o].id
    BY <1>4, <1>5, <1>7
  <2> QED BY <2>1, <2>2, ServedKept DEF Parts
<1>17. TableOK'
  <2>1. ASSUME NEW o \in 1 .. n
        PROVE  /\ ObjectOK(objects'[o])
               /\ Held(objects'[o]) <=>
                    (objects'[o].id \in DOMAIN streams' /\ streams'[objects'[o].id] = o)
    <3>1. CASE o = n
      BY <1>4, <1>5, <1>10, <3>1
    <3>2. CASE o \in DOMAIN objects
      <4>1. objects'[o] = objects[o] /\ o # n
        BY <1>4, <1>6, <3>2
      <4>2. ObjectOK(objects[o]) /\ (Held(objects[o]) <=>
              (objects[o].id \in DOMAIN streams /\ streams[objects[o].id] = o))
        BY <1>1, <3>2 DEF TableOK
      <4>3. CASE objects[o].id = id
        BY <1>1, <1>10, <4>1, <4>2, <4>3
      <4>4. CASE objects[o].id # id
        BY <1>10, <4>1, <4>2, <4>4
      <4> QED BY <4>3, <4>4
    <3> QED BY <1>7, <3>1, <3>2
  <2>2. \A i \in DOMAIN streams' : objects'[streams'[i]].id = i
    BY <1>1, <1>4, <1>5, <1>10 DEF TableOK, StreamsOK
  <2> QED BY <1>4, <2>1, <2>2 DEF TableOK
<1>18. StreamsOK'
  <2>1. streams' \in [DOMAIN streams' -> DOMAIN objects'] /\ DOMAIN streams' \subseteq StreamId
    BY <1>1, <1>4, <1>6, <1>10 DEF StreamsOK
  <2>2. PICK before : before = DOMAIN streams
    OBVIOUS
  <2>3. DOMAIN streams' = before \cup {id} /\ id \notin before /\ IsFiniteSet(before)
    BY <1>1, <1>10, <2>2 DEF StreamsOK
  <2>4. /\ IsFiniteSet(before \cup {id}) /\ Cardinality(before \cup {id}) = Cardinality(before) + 1
        /\ Cardinality(before) \in Nat
    BY <2>3, FS_AddElement, FS_CardinalityType
  <2>5. MaxStreams > 0 => ~(Cardinality(before) >= MaxStreams)
    BY <1>1, <2>2 DEF Refuses
  <2>6. MaxStreams > 0 => Cardinality(before \cup {id}) <= MaxStreams
    BY <2>4, <2>5, TTLs
  <2> QED BY <2>1, <2>3, <2>4, <2>6 DEF StreamsOK
<1>19. CarriersOK'
  <2>1. \A d \in Conn : d # c => conns'[d] = conns[d]
    BY <1>8 DEF Moved
  <2>2. conns'[c] = v
    BY <1>8 DEF Moved
  <2>3. \A d \in Conn : conns[d].at \in Bound \cup {"dial"} => conns[d].stream \in DOMAIN objects
    BY <1>1, ConnFields DEF Bound, Unbound
  <2>4. ASSUME NEW d \in Conn, conns'[d].at = "dial"
        PROVE  /\ objects'[conns'[d].stream].flow = "dialing"
               /\ \A e \in Conn : (conns'[e].at = "dial" /\ conns'[e].stream = conns'[d].stream) => e = d
    <3>1. CASE d = c
      BY <1>4, <1>5, <1>6, <1>9, <2>1, <2>2, <2>3, <3>1
    <3>2. CASE d # c
      <4>1. conns'[d] = conns[d] /\ conns[d].stream \in DOMAIN objects
        BY <2>1, <2>3, <2>4, <3>2
      <4>2. objects'[conns[d].stream].flow = "dialing"
        BY <1>1, <1>4, <2>4, <4>1 DEF CarriersOK
      <4>3. \A e \in Conn : (conns'[e].at = "dial" /\ conns'[e].stream = conns'[d].stream) => e = d
        BY <1>1, <1>6, <1>9, <2>1, <2>2, <2>4, <4>1 DEF CarriersOK
      <4> QED BY <4>1, <4>2, <4>3
    <3> QED BY <3>1, <3>2
  <2>5. ASSUME NEW d \in Conn, conns'[d].at \in Bound
        PROVE  /\ objects'[conns'[d].stream].flow \in {"live", "done"}
               /\ conns'[d].at \in Holding =>
                    objects'[conns'[d].stream].mu = d /\ ~FullIn(conns', conns'[d].stream)
    <3>1. d # c /\ conns'[d] = conns[d] /\ conns[d].stream \in DOMAIN objects
      BY <1>9, <2>1, <2>2, <2>3, <2>5 DEF Bound
    <3>2. objects[conns[d].stream].flow \in {"live", "done"}
      BY <1>1, <2>5, <3>1 DEF CarriersOK, Bound
    <3>3. conns[d].at \in Holding =>
            objects[conns[d].stream].mu = d /\ ~FullIn(conns, conns[d].stream)
      BY <1>1 DEF CarriersOK, Holding, Full, Carriers, FullIn
    <3>4. PICK o : o = conns[d].stream
      OBVIOUS
    <3>5. \A e \in Conn : conns'[e] = [at |-> "attached", stream |-> o] => conns'[e] = conns[e]
      BY <1>9, <2>1, <2>2
    <3>6. ~FullIn(conns, o) => ~FullIn(conns', o)
      BY <3>5, RoomKept
    <3> QED BY <1>4, <3>1, <3>2, <3>3, <3>4, <3>6
  <2> QED BY <2>4, <2>5 DEF CarriersOK, Bound, Holding, Full, Carriers, FullIn
<1> QED BY <1>4, <1>11, <1>12, <1>13, <1>14, <1>15, <1>16, <1>17, <1>18, <1>19 DEF Parts

-----------------------------------------------------------------------------
(* Shutdown, maintenance and the clock.                                    *)

\* A step that touches neither streams nor virtual streams.
LEMMA QuietStep ==
  ASSUME Parts, UNCHANGED <<conns, objects, streams, ended>>, ControlOK', DoomedOK', Memory',
         Stopping => Stopping'
  PROVE  Parts'
<1>1. ConnsOK' /\ objects' \in Seq(Object) /\ StreamsOK' /\ PendingOK'
  BY DEF Parts, ConnsOK, StreamsOK, PendingOK, Pending
<1>2. TableOK' /\ Served'
  BY DEF Parts, TableOK, Served
<1>3. CarriersOK'
  BY DEF Parts, CarriersOK, Full, Carriers
<1> QED BY <1>1, <1>2, <1>3 DEF Parts

LEMMA PruneStep == Parts /\ PruneClosed => Parts'
<1> SUFFICES ASSUME Parts, PruneClosed PROVE Parts'
  OBVIOUS
<1>1. Memory'
  BY MemoryPruned DEF Parts
<1>2. ControlOK' /\ DoomedOK' /\ (Stopping => Stopping')
  BY DEF PruneClosed, control, Parts, ControlOK, DoomedOK, Stopping
<1> QED BY <1>1, <1>2, QuietStep DEF PruneClosed

LEMMA CancelStep == Parts /\ Cancel => Parts'
<1> SUFFICES ASSUME Parts, Cancel PROVE Parts'
  OBVIOUS
<1>1. ControlOK' /\ DoomedOK' /\ (Stopping => Stopping')
  BY DEF Cancel, Parts, ControlOK, DoomedOK, Stopping
<1>2. Memory'
  BY <1>1, MemoryUnchanged DEF Cancel, table, Parts, Memory
<1> QED BY <1>1, <1>2, QuietStep DEF Cancel, table

LEMMA ShutdownBeginsStep == Parts /\ ShutdownBegins => Parts'
<1> SUFFICES ASSUME Parts, ShutdownBegins PROVE Parts'
  OBVIOUS
<1>1. ControlOK' /\ (Stopping => Stopping')
  BY DEF ShutdownBegins, Parts, ControlOK, Stopping
<1>2. DoomedOK'
  <2> SUFFICES ASSUME NEW o \in doomed'
               PROVE  o \in DOMAIN objects /\ objects[o].flow \in {"live", "done"}
    BY DEF DoomedOK, ShutdownBegins
  <2>1. o \in Range(streams) /\ objects[o].flow # "dialing"
    BY DEF ShutdownBegins
  <2>2. PICK i \in DOMAIN streams : o = streams[i]
    BY <2>1 DEF Range
  <2>3. o \in DOMAIN objects /\ objects[o].id = i
    BY <2>2 DEF Parts, StreamsOK, TableOK
  <2>4. Held(objects[o]) /\ objects[o] \in Object
    BY <2>2, <2>3 DEF Parts, TableOK
  <2> QED BY <2>1, <2>3, <2>4, ObjectFields DEF Held
<1>3. Memory'
  BY <1>1, MemoryUnchanged DEF ShutdownBegins, table, Parts, Memory
<1> QED BY <1>1, <1>2, <1>3, QuietStep DEF ShutdownBegins, table

LEMMA TickStep == Parts /\ Tick => Parts'
<1> SUFFICES ASSUME Parts, Tick PROVE Parts'
  OBVIOUS
<1>1. now \in Nat /\ now' \in Nat /\ now' >= now /\ now' \in 0 .. MaxTime
  BY ServerAssumption DEF Tick, Parts, ControlOK, ServerAssumption
<1>2. ControlOK' /\ DoomedOK' /\ (Stopping => Stopping')
  BY <1>1 DEF Tick, control, Parts, ControlOK, DoomedOK, Stopping
<1>3. Memory'
  BY <1>1, <1>2, MemoryUnchanged DEF Tick, table, Parts
<1> QED BY <1>2, <1>3, QuietStep DEF Tick, table

LEMMA NothingRemembered ==
  ASSUME NEW h \in Seq(Entry)
  PROVE  Remembered(<<>>, <<>>, h)
<1>1. <<>> \in Seq(StreamId) /\ Len(<<>>) = 0 /\ DOMAIN <<>> = {}
  OBVIOUS
<1>2. Range(<<>>) = {}
  BY <1>1 DEF Range
<1>3. Len(<<>>) <= Limit
  BY <1>1, TTLs
<1>4. Rising(<<>>, Latest(h))
  BY <1>1 DEF Rising
<1>5. <<>> \in [DOMAIN <<>> -> Nat]
  OBVIOUS
<1> QED BY <1>1, <1>2, <1>3, <1>4, <1>5 DEF Remembered

LEMMA ShutdownReturnsStep == Parts /\ ShutdownReturns => Parts'
<1> SUFFICES ASSUME Parts, ShutdownReturns PROVE Parts'
  OBVIOUS
<1>1. /\ closing /\ UNCHANGED <<conns, objects, now, closing, cancelled, doomed, ended>>
      /\ finished' = TRUE /\ streams' = <<>> /\ closed' = <<>> /\ order' = <<>>
      /\ \A o \in DOMAIN objects : ~Held(objects[o])
  BY DEF ShutdownReturns, Held
<1>2. ConnsOK' /\ objects' \in Seq(Object) /\ PendingOK'
  BY <1>1 DEF Parts, ConnsOK, PendingOK, Pending
<1>3. ControlOK' /\ DoomedOK' /\ Served'
  BY <1>1 DEF Parts, ControlOK, DoomedOK, Served, Stopping
<1>4. CarriersOK'
  BY <1>1 DEF Parts, CarriersOK, Full, Carriers
<1>5. DOMAIN streams' = {} /\ streams' \in [DOMAIN streams' -> DOMAIN objects]
  BY <1>1
<1>6. TableOK'
  BY <1>1, <1>5 DEF Parts, TableOK
<1>7. StreamsOK'
  <2>1. IsFiniteSet({}) /\ Cardinality({}) = 0
    BY FS_EmptySet
  <2> QED BY <1>1, <1>5, <2>1, TTLs DEF StreamsOK
<1>8. Memory'
  BY <1>1, NothingRemembered DEF Parts, Memory, Stopping
<1> QED BY <1>2, <1>3, <1>4, <1>6, <1>7, <1>8 DEF Parts

LEMMA PartsInit == Init => Parts
<1> SUFFICES ASSUME Init PROVE Parts
  OBVIOUS
<1>0. IsFiniteSet({}) /\ Cardinality({}) = 0
  BY FS_EmptySet
<1>1. /\ objects = <<>> /\ objects \in Seq(Object) /\ DOMAIN objects = {}
      /\ streams = <<>> /\ DOMAIN streams = {} /\ streams \in [DOMAIN streams -> DOMAIN objects]
      /\ ended = <<>> /\ ended \in Seq(Entry) /\ Len(ended) = 0 /\ DOMAIN closed = {}
  BY DEF Init
<1>2. ConnsOK
  BY DEF Init, ConnsOK
<1>3. StreamsOK
  BY <1>0, <1>1, TTLs DEF StreamsOK
<1>4. PendingOK
  <2>1. Pending = {}
    BY DEF Init, Pending
  <2> QED BY <1>0, <2>1, ServerAssumption DEF PendingOK, ServerAssumption
<1>5. ControlOK
  <2>1. MaxTime \in Nat /\ now = 0 /\ closing = FALSE /\ cancelled = FALSE /\ finished = FALSE
    BY ServerAssumption DEF Init, ServerAssumption
  <2>2. now \in 0 .. MaxTime
    BY <2>1
  <2> QED BY <2>1, <2>2 DEF ControlOK
<1>6. DoomedOK /\ TableOK /\ Served
  BY <1>1 DEF Init, DoomedOK, TableOK, Served
<1>7. CarriersOK
  BY DEF Init, CarriersOK
<1>8. Memory
  <2>1. Remembered(order, closed, ended)
    BY <1>1, NothingRemembered DEF Init
  <2>2. Dated(ended, now)
    BY <1>1 DEF Dated
  <2>3. Known(closed, ended, now)
    BY <1>1 DEF Known, LastEnded
  <2> QED BY <1>1, <2>1, <2>2, <2>3 DEF Init, Memory
<1> QED BY <1>1, <1>2, <1>3, <1>4, <1>5, <1>6, <1>7, <1>8 DEF Parts

LEMMA PartsStep == Parts /\ [Next]_vars => Parts'
<1> SUFFICES ASSUME Parts, [Next]_vars PROVE Parts'
  OBVIOUS
<1>1. ASSUME NEW c \in Conn, Arrive(c) \/ AcceptStream(c) \/ CarrierGone(c)
      PROVE  Parts'
  <2>1. CASE NoOpen(c) \/ CarrierGone(c)
    BY <2>1, RestStill, ReturnStep DEF NoOpen, CarrierGone
  <2>2. CASE Open(c)
    BY <2>2, OpenRefusedStep, OpenJoinsStep, OpenCreatesStep DEF Open
  <2> QED BY <1>1, <2>1, <2>2, ArriveStep, DialFailsStep, DialSucceedsStep, WaitEndsStep,
             AttachBeginsStep, WriteResultStep, AttachStep
          DEF AcceptStream
<1>2. ASSUME NEW o \in DOMAIN objects, OpenTimer(o) \/ FlowEnds(o) \/ Remover(o)
      PROVE  Parts'
  BY <1>2, TimerFiresStep, ExpireStep, FlowEndsStep, RemoveBeginsStep, RemoveStep
     DEF OpenTimer, Remover
<1>3. CASE Cancel \/ ShutdownBegins \/ Shutdown \/ PruneClosed \/ Tick
  BY <1>3, CancelStep, ShutdownBeginsStep, CloseFlowStep, ShutdownReturnsStep, PruneStep, TickStep
     DEF Shutdown
<1>4. CASE UNCHANGED vars
  <2>1. UNCHANGED <<conns, objects, table, now, control>>
    BY <1>4 DEF vars
  <2>2. UNCHANGED <<conns, objects, streams, ended>> /\ Memory'
    BY <2>1, RestStill DEF table
  <2>3. ControlOK' /\ DoomedOK' /\ (Stopping => Stopping')
    BY <2>1 DEF Parts, ControlOK, DoomedOK, control, Stopping
  <2> QED BY <2>2, <2>3, QuietStep
<1> QED BY <1>1, <1>2, <1>3, <1>4 DEF Next

\* The table is well-formed in every reachable state: the streams it holds are
\* those that are not over, closedOrder lists what the map holds, oldest first
\* and within the limit, and what was served is still known (getOrCreate,
\* rememberClosedLocked, pruneClosedLocked).
THEOREM TableInvariant == Spec => []TableInv
<1>1. Init => TableInv
  BY PartsInit, PartsEnoughNow
<1>2. TableInv /\ [Next]_vars => TableInv'
  BY PartsHold, PartsStep, PartsEnough
<1> QED BY <1>1, <1>2, PTL DEF Spec

\* The open timer never resets a stream that a carrier has started, and never
\* fires for one that was removed (expireUnstartedStream).
THEOREM TimerSafe == Spec => []TimerSparesStarted
<1>1. TableInv => TimerSparesStarted
  BY DEF TableInv, ObjectsOK, ObjectOK, TimerSparesStarted
<1> QED BY <1>1, TableInvariant, PTL

\* A carrier whose OPEN was answered with success is not turned away for the
\* carrier limit: attachMu spans the check, the answer and AttachLimited.
THEOREM PromiseSafe == Spec => []OpenPromiseKept
<1>1. TableInv => OpenPromiseKept
  BY DEF TableInv, CarriersOK, OpenPromiseKept
<1> QED BY <1>1, TableInvariant, PTL

-----------------------------------------------------------------------------
(* One stream, one connection to the destination.                          *)

\* Why a stream could be created although its identifier had been served.
Excused(r, h) ==
  \E k \in LastEnded(h, r.id, r.born.after) :
    \/ r.born.at >= h[k].at + TTL
    \/ Cardinality(EndedAfter(h, k, r.born.after)) >= Limit

Over(s) == s.flow \in {"failed", "done"}

\* NoSecondDial is inductive once what a stream knew at its creation is a part
\* of the history that exists.
Dials ==
  /\ \A p \in DOMAIN objects : objects[p].born.after \in 0 .. Len(ended)
  /\ \A o, p \in DOMAIN objects :
       (o < p /\ objects[o].id = objects[p].id) => Over(objects[o]) /\ Excused(objects[p], ended)

LEMMA ExcusedStays ==
  ASSUME NEW h \in Seq(Entry), NEW e, NEW longer, Grown(h, e, longer), NEW r,
         r.born.after \in 0 .. Len(h), Excused(r, h)
  PROVE  Excused(r, longer) /\ r.born.after \in 0 .. Len(longer)
<1>0. Len(h) \in Nat /\ Len(longer) = Len(h) + 1 /\ r.born.after \in Nat
  BY DEF Grown
<1>1. PICK k \in LastEnded(h, r.id, r.born.after) :
        \/ r.born.at >= h[k].at + TTL
        \/ Cardinality(EndedAfter(h, k, r.born.after)) >= Limit
  BY DEF Excused
<1>2. k \in 1 .. r.born.after
  BY <1>0, LastEndedIs
<1>3. k \in 1 .. Len(h) /\ k \in Nat
  BY <1>0, <1>2
<1>4. /\ longer[k] = h[k] /\ k \in LastEnded(longer, r.id, r.born.after)
      /\ EndedAfter(longer, k, r.born.after) = EndedAfter(h, k, r.born.after)
  BY <1>1, <1>3 DEF Grown
<1>5. Excused(r, longer)
  BY <1>1, <1>4 DEF Excused
<1> QED BY <1>0, <1>5

\* Every step but the creation of a stream.
Advances ==
  /\ DOMAIN objects' = DOMAIN objects
  /\ \A o \in DOMAIN objects :
       /\ objects'[o].id = objects[o].id /\ objects'[o].born = objects[o].born
       /\ Over(objects[o]) => Over(objects'[o])
  /\ UNCHANGED ended \/ \E e : Grown(ended, e, ended')

LEMMA DialsKept ==
  ASSUME Dials, ended \in Seq(Entry), Advances
  PROVE  Dials'
<1>1. ASSUME NEW r, r.born.after \in 0 .. Len(ended)
      PROVE  /\ r.born.after \in 0 .. Len(ended')
             /\ Excused(r, ended) => Excused(r, ended')
  <2>1. CASE UNCHANGED ended
    BY <1>1, <2>1
  <2>2. CASE \E e : Grown(ended, e, ended')
    <3>1. PICK e : Grown(ended, e, ended')
      BY <2>2
    <3>2. Len(ended) \in Nat /\ Len(ended') = Len(ended) + 1
      BY <3>1 DEF Grown
    <3>3. r.born.after \in 0 .. Len(ended')
      BY <1>1, <3>2
    <3> QED BY <1>1, <3>1, <3>3, ExcusedStays
  <2> QED BY <2>1, <2>2 DEF Advances
<1>2. \A p \in DOMAIN objects :
        /\ objects[p].born.after \in 0 .. Len(ended')
        /\ Excused(objects[p], ended) => Excused(objects[p], ended')
  BY <1>1 DEF Dials
<1>3. \A p \in DOMAIN objects : Excused(objects[p], ended') => Excused(objects'[p], ended')
  BY DEF Advances, Excused
<1> QED BY <1>2, <1>3 DEF Dials, Advances

\* The step of one stream.
LEMMA StreamAdvances ==
  ASSUME Parts, NEW o \in DOMAIN objects, NEW r, objects' = [objects EXCEPT ![o] = r],
         r.id = objects[o].id, r.born = objects[o].born, Over(objects[o]) => Over(r),
         UNCHANGED ended \/ \E e : Grown(ended, e, ended')
  PROVE  Advances
<1>1. DOMAIN objects' = DOMAIN objects
  BY DEF Parts
<1>2. \A p \in DOMAIN objects : objects'[p] = IF p = o THEN r ELSE objects[p]
  BY DEF Parts
<1> QED BY <1>1, <1>2 DEF Advances

LEMMA OthersAdvance == UNCHANGED <<objects, ended>> => Advances
BY DEF Advances

LEMMA ConnAdvances ==
  \A c \in Conn : Parts /\ (Arrive(c) \/ NoOpen(c) \/ WaitEnds(c) \/ CarrierGone(c)) => Advances
BY OthersAdvance DEF Arrive, NoOpen, WaitEnds, CarrierGone, table

LEMMA DialAdvances == \A c \in Conn : Parts /\ (DialFails(c) \/ DialSucceeds(c)) => Advances
<1> SUFFICES ASSUME NEW c \in Conn, Parts, DialFails(c) \/ DialSucceeds(c) PROVE Advances
  OBVIOUS
<1>1. PICK o : o = conns[c].stream
  OBVIOUS
<1>2. conns[c].at = "dial" /\ ConnsOK /\ objects \in Seq(Object) /\ CarriersOK /\ Memory
  BY DEF Parts, DialFails, DialSucceeds
<1>3. o \in DOMAIN objects /\ objects[o].flow = "dialing" /\ objects[o] \in Object
  <2>1. conns[c].at \notin Unbound
    BY <1>2 DEF Unbound
  <2>2. o \in DOMAIN objects
    BY <1>1, <1>2, <2>1, ConnFields
  <2>3. objects[o].flow = "dialing"
    BY <1>1, <1>2 DEF CarriersOK
  <2> QED BY <1>2, <2>2, <2>3
<1>4. objects[o].id \in StreamId /\ ~Over(objects[o])
  BY <1>3 DEF Object, Over
<1>5. CASE DialFails(c)
  <2> DEFINE r == [objects[o] EXCEPT !.flow = "failed"]
  <2>1. objects' = [objects EXCEPT ![o] = r] /\ r.id = objects[o].id /\ r.born = objects[o].born
    BY <1>1, <1>3, <1>5 DEF DialFails, Object
  <2>2. RememberClosed(objects[o].id) /\ UNCHANGED <<now, control>>
    BY <1>1, <1>5 DEF DialFails
  <2>3. UNCHANGED ended \/ \E e : Grown(ended, e, ended')
    BY <1>2, <1>4, <2>2, MemoryGrows
  <2> HIDE DEF r
  <2> QED BY <1>3, <1>4, <2>1, <2>3, StreamAdvances
<1>6. CASE DialSucceeds(c) /\ DialAbandoned
  <2> DEFINE r == [objects[o] EXCEPT !.flow = "failed"]
  <2>1. objects' = [objects EXCEPT ![o] = r] /\ r.id = objects[o].id /\ r.born = objects[o].born
    BY <1>1, <1>3, <1>6 DEF DialSucceeds, Object
  <2>2. UNCHANGED ended
    BY <1>6 DEF DialSucceeds
  <2> HIDE DEF r
  <2> QED BY <1>3, <1>4, <2>1, <2>2, StreamAdvances
<1>7. CASE DialSucceeds(c) /\ ~DialAbandoned
  <2> DEFINE r == [objects[o] EXCEPT !.flow = "live", !.timer = "armed"]
  <2>1. objects' = [objects EXCEPT ![o] = r] /\ r.id = objects[o].id /\ r.born = objects[o].born
    BY <1>1, <1>2, <1>3, <1>7 DEF DialSucceeds, Object
  <2>2. UNCHANGED ended
    BY <1>7 DEF DialSucceeds
  <2> HIDE DEF r
  <2> QED BY <1>3, <1>4, <2>1, <2>2, StreamAdvances
<1> QED BY <1>5, <1>6, <1>7

LEMMA AttachAdvances ==
  \A c \in Conn : Parts /\ (AttachBegins(c) \/ WriteResult(c) \/ Attach(c)) => Advances
<1> SUFFICES ASSUME NEW c \in Conn, Parts, AttachBegins(c) \/ WriteResult(c) \/ Attach(c)
             PROVE  Advances
  OBVIOUS
<1>1. PICK o : o = conns[c].stream
  OBVIOUS
<1>2. conns[c].at \in {"lock", "write", "attach"} /\ ConnsOK /\ objects \in Seq(Object)
  BY DEF Parts, AttachBegins, WriteResult, Attach
<1>3. o \in DOMAIN objects /\ objects[o] \in Object
  <2>1. conns[c].at \notin Unbound
    BY <1>2 DEF Unbound
  <2>2. o \in DOMAIN objects
    BY <1>1, <1>2, <2>1, ConnFields
  <2> QED BY <1>2, <2>2
<1>4. UNCHANGED ended
  BY DEF AttachBegins, WriteResult, Attach, table
<1>5. \/ UNCHANGED objects
      \/ \E m \in Conn \cup {Nobody} : objects' = [objects EXCEPT ![o].mu = m]
      \/ objects' = [objects EXCEPT ![o].mu = Nobody, ![o].started = TRUE, ![o].timer = Stopped(@)]
  BY <1>1 DEF AttachBegins, WriteResult, Attach
<1>6. CASE UNCHANGED objects
  BY <1>4, <1>6, OthersAdvance
<1>7. ASSUME NEW m \in Conn \cup {Nobody}, objects' = [objects EXCEPT ![o].mu = m]
      PROVE  Advances
  <2> DEFINE r == [objects[o] EXCEPT !.mu = m]
  <2>1. /\ objects' = [objects EXCEPT ![o] = r] /\ r.id = objects[o].id /\ r.born = objects[o].born
        /\ r.flow = objects[o].flow
    BY <1>3, <1>7 DEF Object
  <2> HIDE DEF r
  <2> QED BY <1>3, <1>4, <2>1, StreamAdvances DEF Over
<1>8. CASE objects' = [objects EXCEPT ![o].mu = Nobody, ![o].started = TRUE, ![o].timer = Stopped(@)]
  <2> DEFINE r == [objects[o] EXCEPT !.mu = Nobody, !.started = TRUE,
                                     !.timer = Stopped(objects[o].timer)]
  <2>1. /\ objects' = [objects EXCEPT ![o] = r] /\ r.id = objects[o].id /\ r.born = objects[o].born
        /\ r.flow = objects[o].flow
    BY <1>2, <1>3, <1>8 DEF Object
  <2> HIDE DEF r
  <2> QED BY <1>3, <1>4, <2>1, StreamAdvances DEF Over
<1> QED BY <1>5, <1>6, <1>7, <1>8

LEMMA StreamsAdvance ==
  \A o \in DOMAIN objects :
    Parts /\ (OpenTimer(o) \/ FlowEnds(o) \/ Remover(o) \/ (o \in doomed /\ CloseFlow(o))) => Advances
<1> SUFFICES ASSUME NEW o \in DOMAIN objects, Parts,
                    OpenTimer(o) \/ FlowEnds(o) \/ Remover(o) \/ (o \in doomed /\ CloseFlow(o))
             PROVE  Advances
  OBVIOUS
<1>1. objects \in Seq(Object) /\ objects[o] \in Object /\ Memory
  BY DEF Parts
<1>2. /\ objects[o].id \in StreamId
      /\ o \in doomed => objects[o].flow \in {"live", "done"}
  BY <1>1 DEF Object, Parts, DoomedOK
<1>3. CASE TimerFires(o)
  <2> DEFINE r == [objects[o] EXCEPT !.timer = "fired"]
  <2>1. /\ objects' = [objects EXCEPT ![o] = r] /\ r.id = objects[o].id /\ r.born = objects[o].born
        /\ r.flow = objects[o].flow /\ UNCHANGED ended
    BY <1>1, <1>3 DEF TimerFires, Object, table
  <2> HIDE DEF r
  <2> QED BY <2>1, StreamAdvances DEF Over
<1>4. CASE Expire(o)
  <2> DEFINE r == [objects[o] EXCEPT !.timer = "off",
                     !.flow = IF MayExpire(o) THEN "done" ELSE objects[o].flow,
                     !.expired = MayExpire(o)]
  <2>1. objects' = [objects EXCEPT ![o] = r] /\ UNCHANGED ended
    BY <1>1, <1>4 DEF Expire, table
  <2>2. /\ r.id = objects[o].id /\ r.born = objects[o].born
        /\ r.flow = "done" \/ r.flow = objects[o].flow
    BY <1>1 DEF Object
  <2> HIDE DEF r
  <2> QED BY <2>1, <2>2, StreamAdvances DEF Over
<1>5. CASE FlowEnds(o) \/ (o \in doomed /\ CloseFlow(o))
  <2> DEFINE r == [objects[o] EXCEPT !.flow = "done"]
  <2>1. /\ objects' = [objects EXCEPT ![o] = r] /\ r.id = objects[o].id /\ r.born = objects[o].born
        /\ r.flow = "done" /\ UNCHANGED ended
    BY <1>1, <1>5 DEF FlowEnds, CloseFlow, Object, table
  <2> HIDE DEF r
  <2> QED BY <2>1, StreamAdvances DEF Over
<1>6. CASE RemoveBegins(o)
  <2> DEFINE r == [objects[o] EXCEPT !.timer = Stopped(objects[o].timer), !.removed = "timer"]
  <2>1. /\ objects' = [objects EXCEPT ![o] = r] /\ r.id = objects[o].id /\ r.born = objects[o].born
        /\ r.flow = objects[o].flow /\ UNCHANGED ended
    BY <1>1, <1>6 DEF RemoveBegins, Object, table
  <2> HIDE DEF r
  <2> QED BY <2>1, StreamAdvances DEF Over
<1>7. CASE Remove(o)
  <2> DEFINE r == [objects[o] EXCEPT !.removed = "yes"]
  <2>1. /\ objects' = [objects EXCEPT ![o] = r] /\ r.id = objects[o].id /\ r.born = objects[o].born
        /\ r.flow = objects[o].flow
    BY <1>1, <1>7 DEF Remove, Object
  <2>2. RememberClosed(objects[o].id) /\ UNCHANGED <<now, control>>
    BY <1>7 DEF Remove
  <2>3. UNCHANGED ended \/ \E e : Grown(ended, e, ended')
    BY <1>1, <1>2, <2>2, MemoryGrows
  <2> HIDE DEF r
  <2> QED BY <2>1, <2>3, StreamAdvances DEF Over
<1> QED BY <1>3, <1>4, <1>5, <1>6, <1>7 DEF OpenTimer, Remover

\* getOrCreate: an identifier that is not in the table was never served, or
\* the earlier stream is over and is remembered no longer.
LEMMA CreationExcused ==
  ASSUME Parts, NEW id \in StreamId, NEW destination, ~Refuses(id, destination),
         id \notin DOMAIN streams, NEW o \in DOMAIN objects, objects[o].id = id
  PROVE  /\ Over(objects[o])
         /\ \E k \in LastEnded(ended, id, Len(ended)) :
              \/ now >= ended[k].at + TTL
              \/ Cardinality(EndedAfter(ended, k, Len(ended))) >= Limit
<1>1. ~Stopping /\ (id \in DOMAIN closed => Expired(id))
  BY DEF Refuses
<1>2. ~Held(objects[o]) /\ ObjectOK(objects[o])
  BY DEF Parts, TableOK
<1>3. Over(objects[o])
  BY <1>2 DEF Held, ObjectOK, Over
<1>4. LastEnded(ended, id, Len(ended)) # {}
  BY <1>1, <1>2 DEF Parts, Served
<1>5. PICK k : k \in LastEnded(ended, id, Len(ended))
  BY <1>4
<1>6. Known(closed, ended, now)
  BY <1>1 DEF Parts, Memory
<1>7. \/ id \in DOMAIN closed /\ closed[id] = ended[k].at + TTL
      \/ now >= ended[k].at + TTL
      \/ Cardinality(EndedAfter(ended, k, Len(ended))) >= Limit
  BY <1>5, <1>6 DEF Known
<1>8. CASE id \in DOMAIN closed /\ closed[id] = ended[k].at + TTL
  <2>1. closed[id] <= now /\ closed[id] \in Nat /\ now \in Nat
    BY <1>1, <1>8 DEF Expired, Parts, Memory, Remembered
  <2>2. now >= ended[k].at + TTL
    BY <1>8, <2>1
  <2> QED BY <1>3, <1>5, <2>2
<1> QED BY <1>3, <1>5, <1>7, <1>8

LEMMA CreationKept ==
  \A c \in Conn, id \in StreamId, destination \in Destination :
    Parts /\ Dials /\ OpenCreates(c, id, destination) => Dials'
<1> SUFFICES ASSUME NEW c \in Conn, NEW id \in StreamId, NEW destination \in Destination,
                    Parts, Dials, OpenCreates(c, id, destination)
             PROVE  Dials'
  OBVIOUS
<1> DEFINE r == [id |-> id, destination |-> destination, flow |-> "dialing",
                 started |-> FALSE, timer |-> "off", mu |-> Nobody, removed |-> "no",
                 expired |-> FALSE, born |-> [at |-> now, after |-> Len(ended)]]
           n == Len(objects) + 1
<1>1. /\ objects \in Seq(Object) /\ ended \in Seq(Entry) /\ now \in Nat
      /\ Len(objects) \in Nat /\ DOMAIN objects = 1 .. Len(objects) /\ Len(ended) \in Nat
  BY DEF Parts, Memory
<1>2. objects' = Append(objects, r) /\ UNCHANGED ended
  BY DEF OpenCreates
<1>3. r \in Object
  BY <1>1 DEF Object
<1>4. /\ DOMAIN objects' = 1 .. n
      /\ objects'[n] = r /\ \A o \in DOMAIN objects : objects'[o] = objects[o]
  BY <1>1, <1>2, <1>3
<1>5. r.id = id /\ r.born.at = now /\ r.born.after = Len(ended)
  OBVIOUS
<1> HIDE DEF r
<1>6. \A o \in 1 .. n : o = n \/ (o \in DOMAIN objects /\ o < n)
  BY <1>1
<1>7. \A o, p \in 1 .. n : o < p => o \in DOMAIN objects
  BY <1>1
<1> HIDE DEF n
<1>8. \A p \in DOMAIN objects' : objects'[p].born.after \in 0 .. Len(ended')
  BY <1>1, <1>2, <1>4, <1>5, <1>6 DEF Dials
<1>9. ASSUME NEW o \in DOMAIN objects', NEW p \in DOMAIN objects', o < p,
             objects'[o].id = objects'[p].id
      PROVE  Over(objects'[o]) /\ Excused(objects'[p], ended')
  <2>1. o \in DOMAIN objects /\ objects'[o] = objects[o]
    BY <1>4, <1>7, <1>9
  <2>2. CASE p = n
    <3>1. objects[o].id = id
      BY <1>4, <1>5, <1>9, <2>1, <2>2
    <3>2. ~Refuses(id, destination) /\ id \notin DOMAIN streams
      BY DEF OpenCreates
    <3>3. /\ Over(objects[o])
          /\ \E k \in LastEnded(ended, id, Len(ended)) :
               \/ now >= ended[k].at + TTL
               \/ Cardinality(EndedAfter(ended, k, Len(ended))) >= Limit
      BY <2>1, <3>1, <3>2, CreationExcused
    <3>4. Excused(r, ended)
      BY <1>5, <3>3 DEF Excused
    <3> QED BY <1>2, <1>4, <2>1, <2>2, <3>3, <3>4
  <2>3. CASE p \in DOMAIN objects
    <3>1. objects'[p] = objects[p]
      BY <1>4, <2>3
    <3>2. Over(objects[o]) /\ Excused(objects[p], ended)
      BY <1>9, <2>1, <2>3, <3>1 DEF Dials
    <3> QED BY <1>2, <2>1, <3>1, <3>2
  <2> QED BY <1>4, <1>6, <2>2, <2>3
<1> QED BY <1>8, <1>9 DEF Dials

LEMMA DialsStep == Parts /\ Dials /\ [Next]_vars => Dials'
<1> SUFFICES ASSUME Parts, Dials, [Next]_vars PROVE Dials'
  OBVIOUS
<1>0. ended \in Seq(Entry)
  BY DEF Parts, Memory
<1>1. ASSUME NEW c \in Conn, Open(c)
      PROVE  Dials'
  <2>1. PICK id \in StreamId, destination \in Destination :
           \/ OpenRefused(c, id, destination)
           \/ OpenJoins(c, id, destination)
           \/ OpenCreates(c, id, destination)
    BY <1>1 DEF Open
  <2>2. CASE OpenRefused(c, id, destination) \/ OpenJoins(c, id, destination)
    <3>1. Advances
      BY <2>2, OthersAdvance DEF OpenRefused, OpenJoins
    <3> QED BY <1>0, <3>1, DialsKept
  <2>3. CASE OpenCreates(c, id, destination)
    BY <2>3, CreationKept
  <2> QED BY <2>1, <2>2, <2>3
<1>2. ASSUME NEW c \in Conn, Arrive(c) \/ (AcceptStream(c) /\ ~Open(c)) \/ CarrierGone(c)
      PROVE  Dials'
  <2>1. Advances
    BY <1>2, ConnAdvances, DialAdvances, AttachAdvances DEF AcceptStream
  <2> QED BY <1>0, <2>1, DialsKept
<1>3. ASSUME NEW o \in DOMAIN objects, OpenTimer(o) \/ FlowEnds(o) \/ Remover(o)
      PROVE  Dials'
  BY <1>0, <1>3, StreamsAdvance, DialsKept
<1>4. ASSUME NEW o \in doomed, CloseFlow(o)
      PROVE  Dials'
  <2>1. o \in DOMAIN objects
    BY DEF Parts, DoomedOK
  <2> QED BY <1>0, <1>4, <2>1, StreamsAdvance, DialsKept
<1>5. CASE Cancel \/ ShutdownBegins \/ ShutdownReturns \/ PruneClosed \/ Tick \/ UNCHANGED vars
  <2>1. Advances
    BY <1>5, OthersAdvance
       DEF Cancel, ShutdownBegins, ShutdownReturns, PruneClosed, Tick, table, vars
  <2> QED BY <1>0, <2>1, DialsKept
<1> QED BY <1>1, <1>2, <1>3, <1>4, <1>5 DEF Next, Shutdown

\* The server creates a stream for an identifier that it has served before
\* only when the earlier stream is over and its TTL has passed or Limit others
\* closed since: a delayed OPEN never connects twice (getOrCreate).
THEOREM OneConnection == Spec => []NoSecondDial
<1>1. Init => TableInv /\ Dials
  <2>1. Init => Dials
    BY DEF Init, Dials
  <2> QED BY <2>1, PartsInit, PartsEnoughNow
<1>2. TableInv /\ Dials /\ [Next]_vars => TableInv' /\ Dials'
  BY PartsHold, PartsStep, PartsEnough, DialsStep
<1>3. Dials => NoSecondDial
  BY DEF Dials, NoSecondDial, Over, Excused
<1> QED BY <1>1, <1>2, <1>3, PTL DEF Spec
=============================================================================
