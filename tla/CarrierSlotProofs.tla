------------------------- MODULE CarrierSlotProofs -------------------------
(***************************************************************************)
(* Proofs about module CarrierSlot, for any paths and any number of        *)
(* sessions, path changes and failures: a slot and its carrier name each   *)
(* other, and the flags that keep other attempts away have an owner.       *)
(***************************************************************************)
EXTENDS CarrierSlot, TLAPS

\* Attempt w was started for slot s.
For(s, w) == s.path = w.path /\ s.session = w.session

\* What a slot says of the attempts ws, where the sessions lv are live.
SlotGood(s, ws, lv) ==
  /\ s.carrier # 0 =>
       /\ s.carrier \in DOMAIN ws /\ For(s, ws[s.carrier])
       /\ ws[s.carrier].at = "monitor" /\ ~s.inFlight
  /\ s.retrying => s.carrier = 0 /\ ~s.inFlight
  /\ s.session \in lv =>
       /\ s.inFlight => \E n \in DOMAIN ws : For(s, ws[n]) /\ ws[n].at \in Busy
       /\ s.retrying => \E n \in DOMAIN ws : For(s, ws[n]) /\ ws[n].at = "wait"

\* Every carrier that works is named by a slot.
Named(sl, ws) ==
  \A n \in DOMAIN ws : ws[n].at = "monitor" /\ ws[n].up => \E s \in sl : s.carrier = n

SlotsOK(sl, ws, lv) ==
  /\ \A s, t \in sl : s = t
  /\ \A s \in sl : SlotGood(s, ws, lv)
  /\ Named(sl, ws)

SessionsOK ==
  /\ path \in Path \cup {NoPath} /\ copied \in Path
  /\ created \in Nat /\ session \in 0 .. created /\ live \subseteq 1 .. created

CallsOK(cs, n) ==
  cs \subseteq PendingCall(n) /\ \A call \in cs : call.at = "commit" => call.session # 0

\* The invariant, in the form in which every step preserves it.
Parts ==
  /\ SessionsOK /\ CallsOK(calls, created)
  /\ slot \subseteq Slot(created, Len(workers)) /\ workers \in Seq(Attempt(created))
  /\ SlotsOK(slot, workers, live)

LEMMA PartsEnough == Parts => SlotInv
<1> SUFFICES ASSUME Parts PROVE SlotInv
  OBVIOUS
<1>1. TypeOK
  BY DEF Parts, TypeOK, SessionsOK, CallsOK, SlotsOK
<1>2. OneCarrier
  BY DEF Parts, SlotsOK, SlotGood, For, OneCarrier
<1>3. NoOrphanCarrier
  BY <1>2 DEF Parts, SlotsOK, Named, NoOrphanCarrier, OneCarrier, Slot
<1>4. FlagsAreOwned
  <2> SUFFICES ASSUME NEW s \in slot, s.session \in live
               PROVE  /\ s.inFlight => \E n \in DOMAIN workers :
                                         Mine(n) # {} /\ workers[n].at \in Busy
                      /\ s.retrying => \E n \in DOMAIN workers :
                                         Mine(n) # {} /\ workers[n].at = "wait"
    BY DEF FlagsAreOwned
  <2>1. \A n \in DOMAIN workers : For(s, workers[n]) => Mine(n) # {}
    BY DEF For, Mine
  <2> QED BY <2>1 DEF Parts, SlotsOK, SlotGood
<1> QED BY <1>1, <1>2, <1>3, <1>4 DEF SlotInv

-----------------------------------------------------------------------------
(* Attempts.                                                               *)

LEMMA AttemptIs ==
  ASSUME NEW n, NEW w \in Attempt(n)
  PROVE  /\ w.path \in Path /\ w.session \in 1 .. n /\ w.up \in BOOLEAN
         /\ w.at \in Busy \cup {"monitor", "retry", "wait", "exited"}
BY DEF Attempt

LEMMA SlotIs ==
  ASSUME NEW n \in Nat, NEW m \in Nat, NEW s \in Slot(n, m)
  PROVE  /\ s.path \in Path /\ s.session \in 0 .. n /\ s.carrier \in 0 .. m
         /\ s.inFlight \in BOOLEAN /\ s.retrying \in BOOLEAN /\ s.openRejected \in BOOLEAN
BY DEF Slot

\* The attempts after some carriers closed.
Lowered(ws, S, ds) ==
  /\ DOMAIN ds = DOMAIN ws
  /\ \A n \in DOMAIN ws : /\ ds[n].path = ws[n].path /\ ds[n].session = ws[n].session
                          /\ ds[n].at = ws[n].at
                          /\ ds[n].up => ws[n].up /\ n \notin S

LEMMA DownIs ==
  ASSUME NEW k, NEW ws \in Seq(Attempt(k)), NEW S
  PROVE  /\ Down(ws, S) \in Seq(Attempt(k)) /\ Len(Down(ws, S)) = Len(ws)
         /\ Lowered(ws, S, Down(ws, S))
<1>1. DOMAIN ws = 1 .. Len(ws) /\ Len(ws) \in Nat /\ \A n \in 1 .. Len(ws) : ws[n] \in Attempt(k)
  OBVIOUS
<1> DEFINE ds == Down(ws, S)
<1>2. /\ DOMAIN ds = 1 .. Len(ws)
      /\ \A n \in 1 .. Len(ws) : ds[n] = IF n \in S THEN [ws[n] EXCEPT !.up = FALSE] ELSE ws[n]
  BY <1>1 DEF Down
<1>3. ASSUME NEW n \in 1 .. Len(ws)
      PROVE  /\ ds[n] \in Attempt(k) /\ ds[n].path = ws[n].path /\ ds[n].session = ws[n].session
             /\ ds[n].at = ws[n].at
             /\ ds[n].up => ws[n].up /\ n \notin S
  <2>1. ws[n] \in Attempt(k)
    BY <1>1
  <2> QED BY <1>2, <2>1 DEF Attempt
<1>4. ds = [n \in 1 .. Len(ws) |-> ds[n]]
  BY <1>1 DEF Down
<1>5. ds \in Seq(Attempt(k)) /\ Len(ds) = Len(ws)
  <2>1. \A n \in 1 .. Len(ws) : ds[n] \in Attempt(k)
    BY <1>3
  <2>2. DOMAIN ds = 1 .. Len(ws)
    BY <1>2
  <2> HIDE DEF ds
  <2>3. ds \in [1 .. Len(ws) -> Attempt(k)]
    BY <1>4, <2>1
  <2>4. ds \in Seq(Attempt(k))
    BY <1>1, <2>3
  <2>5. DOMAIN ds = 1 .. Len(ds) /\ Len(ds) \in Nat
    BY <2>4
  <2>6. Len(ds) = Len(ws)
    BY <1>1, <2>2, <2>5
  <2> QED BY <2>4, <2>6
<1>6. Lowered(ws, S, ds)
  <2> HIDE DEF ds
  <2> QED BY <1>1, <1>2, <1>3 DEF Lowered
<1> QED BY <1>5, <1>6

LEMMA MoreSessions ==
  ASSUME NEW n \in Nat, NEW k \in Nat, n <= k
  PROVE  /\ Attempt(n) \subseteq Attempt(k) /\ PendingCall(n) \subseteq PendingCall(k)
         /\ \A m \in Nat : Slot(n, m) \subseteq Slot(k, m)
         /\ \A ws \in Seq(Attempt(n)) : ws \in Seq(Attempt(k))
<1>1. Attempt(n) \subseteq Attempt(k)
  BY DEF Attempt
<1>2. PendingCall(n) \subseteq PendingCall(k) /\ \A m \in Nat : Slot(n, m) \subseteq Slot(k, m)
  BY DEF PendingCall, Slot
<1> QED BY <1>1, <1>2

\* A slot stays good while attempts go on and carriers close.
LEMMA GoodStays ==
  ASSUME NEW s, NEW ws, NEW lv, SlotGood(s, ws, lv), NEW S, NEW ds, Lowered(ws, S, ds),
         NEW lw, s.session \in lw => s.session \in lv
  PROVE  SlotGood(s, ds, lw)
<1>1. \A n \in DOMAIN ws : n \in DOMAIN ds /\ ds[n].at = ws[n].at /\ (For(s, ws[n]) => For(s, ds[n]))
  BY DEF Lowered, For
<1> QED BY <1>1 DEF SlotGood

LEMMA SlotsStay ==
  ASSUME NEW sl, NEW ws, NEW lv, SlotsOK(sl, ws, lv), NEW S, NEW ds, Lowered(ws, S, ds),
         NEW lw, \A s \in sl : s.session \in lw => s.session \in lv
  PROVE  SlotsOK(sl, ds, lw)
<1>1. \A s \in sl : SlotGood(s, ds, lw)
  BY GoodStays DEF SlotsOK
<1>2. Named(sl, ds)
  BY DEF SlotsOK, Named, Lowered
<1> QED BY <1>1, <1>2 DEF SlotsOK

\* A step that leaves the slot, and lets carriers close and sessions end or one
\* begin.
LEMMA QuietStep ==
  ASSUME Parts, UNCHANGED slot, SessionsOK', CallsOK(calls', created'),
         created' \in {created, created + 1}, \A x \in 0 .. created : x \in live' => x \in live,
         UNCHANGED workers \/ \E S : workers' = Down(workers, S)
  PROVE  Parts'
<1>1. created \in Nat /\ Len(workers) \in Nat /\ workers \in Seq(Attempt(created))
  BY DEF Parts, SessionsOK
<1>2. PICK S : workers' \in Seq(Attempt(created)) /\ Len(workers') = Len(workers)
                /\ Lowered(workers, S, workers')
  <2>1. CASE UNCHANGED workers
    <3>1. Lowered(workers, {}, workers')
      BY <2>1 DEF Lowered
    <3> QED BY <1>1, <2>1, <3>1
  <2>2. CASE \E S : workers' = Down(workers, S)
    BY <1>1, <2>2, DownIs
  <2> QED BY <2>1, <2>2
<1>3. workers' \in Seq(Attempt(created'))
  BY <1>1, <1>2, MoreSessions
<1>4. slot' \subseteq Slot(created', Len(workers'))
  BY <1>1, <1>2, MoreSessions DEF Parts
<1>5. \A s \in slot : s.session \in live' => s.session \in live
  BY <1>1, SlotIs DEF Parts
<1>6. SlotsOK(slot', workers', live')
  BY <1>2, <1>5, SlotsStay DEF Parts
<1> QED BY <1>3, <1>4, <1>6 DEF Parts

-----------------------------------------------------------------------------
(* Sessions and paths.                                                     *)

LEMMA CallIs ==
  ASSUME NEW n \in Nat, NEW who \in Caller
  PROVE  Call(who) \in PendingCall(n) /\ Call(who).at = "slot"
BY DEF Call, PendingCall

LEMMA CallAdded ==
  ASSUME CallsOK(calls, created), created \in Nat, NEW who \in Caller,
         NEW n, n \in {created, created + 1}
  PROVE  CallsOK(calls \cup {Call(who)}, n) /\ CallsOK(calls, n)
<1>1. n \in Nat /\ PendingCall(created) \subseteq PendingCall(n)
  BY MoreSessions
<1>2. Call(who) \in PendingCall(n) /\ Call(who).at # "commit"
  BY <1>1, CallIs
<1> QED BY <1>1, <1>2 DEF CallsOK

LEMMA EstablishStep == Parts /\ Establish => Parts'
<1> SUFFICES ASSUME Parts, Establish PROVE Parts'
  OBVIOUS
<1>1. /\ created \in Nat /\ created' = created + 1 /\ session' = created'
      /\ live' = live \cup {created'} /\ calls' = calls \cup {Call(<<"session", created'>>)}
      /\ UNCHANGED <<path, copied, slot, workers>>
  BY DEF Establish, callerVars, Parts, SessionsOK
<1>2. SessionsOK'
  BY <1>1 DEF Parts, SessionsOK
<1>3. CallsOK(calls', created')
  <2>1. <<"session", created'>> \in Caller
    BY <1>1 DEF Caller
  <2> QED BY <1>1, <2>1, CallAdded DEF Parts
<1>4. \A x \in 0 .. created : x \in live' => x \in live
  BY <1>1
<1> QED BY <1>1, <1>2, <1>3, <1>4, QuietStep

LEMMA SessionEndsStep == \A s \in 1 .. MaxSessions : Parts /\ SessionEnds(s) => Parts'
<1> SUFFICES ASSUME NEW s \in 1 .. MaxSessions, Parts, SessionEnds(s) PROVE Parts'
  OBVIOUS
<1>1. /\ live' = live \ {s} /\ workers' = Down(workers, OnSession(s))
      /\ UNCHANGED <<path, session, created, copied, slot, calls>>
  BY DEF SessionEnds, callerVars
<1>2. SessionsOK' /\ CallsOK(calls', created')
  BY <1>1 DEF Parts, SessionsOK
<1> QED BY <1>1, <1>2, QuietStep

LEMMA SessionClearedStep == Parts /\ SessionCleared => Parts'
<1> SUFFICES ASSUME Parts, SessionCleared PROVE Parts'
  OBVIOUS
<1>1. session' = 0 /\ UNCHANGED <<path, live, created, copied, slot, calls, workers>>
  BY DEF SessionCleared, callerVars
<1>2. SessionsOK' /\ CallsOK(calls', created')
  BY <1>1 DEF Parts, SessionsOK
<1> QED BY <1>1, <1>2, QuietStep

LEMMA RefreshStarts == \A p \in Path \cup {NoPath} : Parts /\ Refresh(p) => Parts'
<1> SUFFICES ASSUME NEW p \in Path \cup {NoPath}, Parts, Refresh(p) PROVE Parts'
  OBVIOUS
<1>1. /\ path' = p /\ session' = 0 /\ live' = live \ {session}
      /\ \E S : workers' = Down(workers, S)
      /\ UNCHANGED <<created, copied, slot, calls>>
  BY DEF Refresh
<1>2. SessionsOK' /\ CallsOK(calls', created')
  BY <1>1 DEF Parts, SessionsOK
<1> QED BY <1>1, <1>2, QuietStep

LEMMA RefreshDoneStep == Parts /\ RefreshDone => Parts'
<1> SUFFICES ASSUME Parts, RefreshDone PROVE Parts'
  OBVIOUS
<1>1. UNCHANGED <<path, session, live, created, copied, slot, calls, workers>>
  BY DEF RefreshDone
<1>2. SessionsOK' /\ CallsOK(calls', created')
  BY <1>1 DEF Parts, SessionsOK
<1> QED BY <1>1, <1>2, QuietStep

LEMMA AssignFlowStep == Parts /\ AssignFlow => Parts'
<1> SUFFICES ASSUME Parts, AssignFlow PROVE Parts'
  OBVIOUS
<1>1. /\ calls' = calls \cup {Call(<<"assign">>)}
      /\ UNCHANGED <<path, session, live, created, copied, slot, workers>>
  BY DEF AssignFlow, sessionVars
<1>2. SessionsOK' /\ created \in Nat /\ CallsOK(calls, created)
  BY <1>1 DEF Parts, SessionsOK
<1>3. <<"assign">> \in Caller
  BY DEF Caller
<1>4. CallsOK(calls', created')
  BY <1>1, <1>2, <1>3, CallAdded
<1> QED BY <1>1, <1>2, <1>4, QuietStep

\* syncPaths.
LEMMA SyncKeeps ==
  ASSUME Parts, NEW p \in Path \cup {NoPath}, SyncPaths(p),
         UNCHANGED <<path, session, live, created, copied>>, CallsOK(calls', created)
  PROVE  Parts'
<1>1. created \in Nat /\ Len(workers) \in Nat /\ workers \in Seq(Attempt(created)) /\ SessionsOK'
  BY DEF Parts, SessionsOK
<1>2. /\ workers' \in Seq(Attempt(created)) /\ Len(workers') = Len(workers)
      /\ Lowered(workers, Stale(p), workers')
  BY <1>1, DownIs DEF SyncPaths
<1>3. CASE slot' = slot
  <2>1. \E S : workers' = Down(workers, S)
    BY DEF SyncPaths
  <2> QED BY <1>1, <1>3, <2>1, QuietStep
<1>4. CASE slot' # slot
  <2>1. /\ \A s \in slot : s.path # p
        /\ slot' = {} \/ (p \in Path /\ slot' = {FreshSlot(p)})
    BY <1>4 DEF SyncPaths, Synced
  <2>2. slot' \subseteq Slot(created, Len(workers'))
    <3>1. 0 \in 0 .. created /\ 0 \in 0 .. Len(workers')
      BY <1>1, <1>2
    <3>2. p \in Path => FreshSlot(p) \in Slot(created, Len(workers'))
      BY <3>1 DEF FreshSlot, Slot
    <3> QED BY <2>1, <3>2
  <2>3. Named(slot', workers')
    <3> SUFFICES ASSUME NEW n \in DOMAIN workers', workers'[n].at = "monitor", workers'[n].up
                 PROVE  FALSE
      BY DEF Named
    <3>1. n \in DOMAIN workers /\ workers[n].at = "monitor" /\ workers[n].up /\ n \notin Stale(p)
      BY <1>2 DEF Lowered
    <3>2. PICK s \in slot : s.carrier = n
      BY <3>1 DEF Parts, SlotsOK, Named
    <3> QED BY <2>1, <3>1, <3>2 DEF Stale
  <2>4. \A s \in slot' : SlotGood(s, workers', live')
    <3>1. \A s \in slot' : s.carrier = 0 /\ s.inFlight = FALSE /\ s.retrying = FALSE
      BY <2>1 DEF FreshSlot
    <3> QED BY <3>1 DEF SlotGood
  <2>5. \A s, t \in slot' : s = t
    BY <2>1
  <2>6. SlotsOK(slot', workers', live')
    BY <2>3, <2>4, <2>5 DEF SlotsOK
  <2> QED BY <1>1, <1>2, <2>2, <2>6 DEF Parts
<1> QED BY <1>3, <1>4

LEMMA RefreshSyncStep == Parts /\ RefreshSync => Parts'
<1> SUFFICES ASSUME Parts, RefreshSync PROVE Parts'
  OBVIOUS
<1>1. /\ SyncPaths(path) /\ calls' = calls \cup {Call(<<"refresh">>)}
      /\ UNCHANGED <<path, session, live, created, copied>>
  BY DEF RefreshSync, sessionVars
<1>2. <<"refresh">> \in Caller
  BY DEF Caller
<1>3. CallsOK(calls', created) /\ path \in Path \cup {NoPath}
  BY <1>1, <1>2, CallAdded DEF Parts, SessionsOK
<1> QED BY <1>1, <1>3, SyncKeeps

LEMMA AssignSyncStep == Parts /\ AssignSync => Parts'
<1> SUFFICES ASSUME Parts, AssignSync PROVE Parts'
  OBVIOUS
<1>1. SyncPaths(copied) /\ UNCHANGED <<path, session, live, created, copied, calls>>
  BY DEF AssignSync, sessionVars
<1>2. CallsOK(calls', created) /\ copied \in Path \cup {NoPath}
  BY <1>1 DEF Parts, SessionsOK
<1> QED BY <1>1, <1>2, SyncKeeps

-----------------------------------------------------------------------------
(* reconcile.                                                              *)

LEMMA MovedCalls ==
  ASSUME CallsOK(calls, created), NEW call \in calls, NEW moved, CallsOK(moved, created),
         Move(call, moved)
  PROVE  CallsOK(calls', created)
BY DEF CallsOK, Move

LEMMA ReadSlotStep == \A call \in calls : Parts /\ ReadSlot(call) => Parts'
<1> SUFFICES ASSUME NEW call \in calls, Parts, ReadSlot(call) PROVE Parts'
  OBVIOUS
<1> DEFINE moved == {[call EXCEPT !.at = "session", !.path = s.path] :
                       s \in {t \in slot : assign = "assigned"}}
<1>1. /\ Move(call, moved) /\ UNCHANGED <<path, session, live, created, copied, slot, workers>>
  BY DEF ReadSlot, sessionVars, callerVars
<1>2. SessionsOK' /\ CallsOK(calls, created) /\ call \in PendingCall(created)
      /\ created \in Nat
  BY <1>1 DEF Parts, SessionsOK, CallsOK
<1>3. Len(workers) \in Nat
  BY DEF Parts
<1>4. \A s \in slot : s.path \in Path
  BY <1>2, <1>3, SlotIs DEF Parts
<1>5. CallsOK(moved, created)
  <2>1. ASSUME NEW s \in slot
        PROVE  [call EXCEPT !.at = "session", !.path = s.path] \in PendingCall(created)
    BY <1>2, <1>4 DEF PendingCall
  <2>2. \A m \in moved : m.at = "session"
    BY <1>2 DEF PendingCall
  <2> QED BY <2>1, <2>2 DEF CallsOK
<1> HIDE DEF moved
<1>6. CallsOK(calls', created')
  BY <1>1, <1>2, <1>5, MovedCalls
<1> QED BY <1>1, <1>2, <1>6, QuietStep

LEMMA ReadSessionStep == \A call \in calls : Parts /\ ReadSession(call) => Parts'
<1> SUFFICES ASSUME NEW call \in calls, Parts, ReadSession(call) PROVE Parts'
  OBVIOUS
<1> DEFINE moved == {[call EXCEPT !.at = "commit", !.session = s] :
                       s \in {t \in live : t = session /\ call.path = path}}
<1>1. /\ Move(call, moved) /\ UNCHANGED <<path, session, live, created, copied, slot, workers>>
  BY DEF ReadSession, sessionVars, callerVars
<1>2. SessionsOK' /\ CallsOK(calls, created) /\ call \in PendingCall(created)
      /\ created \in Nat /\ live \subseteq 1 .. created
  BY <1>1 DEF Parts, SessionsOK, CallsOK
<1>3. CallsOK(moved, created)
  <2>1. ASSUME NEW s \in live
        PROVE  /\ [call EXCEPT !.at = "commit", !.session = s] \in PendingCall(created)
               /\ [call EXCEPT !.at = "commit", !.session = s].session # 0
    <3>1. s \in 0 .. created /\ s # 0
      BY <1>2
    <3> QED BY <1>2, <3>1 DEF PendingCall
  <2> QED BY <2>1 DEF CallsOK
<1> HIDE DEF moved
<1>4. CallsOK(calls', created')
  BY <1>1, <1>2, <1>3, MovedCalls
<1> QED BY <1>1, <1>2, <1>4, QuietStep

LEMMA CommitSlotStep == \A call \in calls : Parts /\ CommitSlot(call) => Parts'
<1> SUFFICES ASSUME NEW call \in calls, Parts, CommitSlot(call) PROVE Parts'
  OBVIOUS
<1> DEFINE idle == {s \in slot : s.path = call.path /\ ~AlreadyServed(s, call)}
           w == [path |-> call.path, session |-> call.session, at |-> "open", up |-> FALSE]
<1>1. /\ call.at = "commit" /\ Move(call, {})
      /\ UNCHANGED <<path, session, live, created, copied>>
      /\ IF idle = {} THEN UNCHANGED <<slot, workers>>
         ELSE /\ slot' = {Pointed(s, call) : s \in idle}
              /\ workers' = Append(Down(workers, Replaced(idle)), w)
  BY DEF CommitSlot, sessionVars, callerVars
<1>2. /\ SessionsOK' /\ CallsOK(calls, created) /\ call \in PendingCall(created)
      /\ created \in Nat /\ Len(workers) \in Nat /\ workers \in Seq(Attempt(created))
  BY <1>1 DEF Parts, SessionsOK, CallsOK
<1>3. CallsOK(calls', created')
  <2>1. CallsOK({}, created)
    BY DEF CallsOK
  <2> QED BY <1>1, <1>2, <2>1, MovedCalls
<1>4. CASE idle = {}
  BY <1>1, <1>2, <1>3, <1>4, QuietStep
<1>5. CASE idle # {}
  <2>1. PICK s \in slot : s \in idle
    BY <1>5
  <2>2. idle = {s} /\ slot = {s}
    BY <2>1 DEF Parts, SlotsOK
  <2>3. s.path = call.path /\ ~AlreadyServed(s, call) /\ s \in Slot(created, Len(workers))
    BY <2>1 DEF Parts
  <2> DEFINE r == Pointed(s, call)
             ds == Down(workers, {s.carrier})
  <2>4. /\ s.path \in Path /\ s.session \in 0 .. created /\ s.carrier \in 0 .. Len(workers)
        /\ s.retrying \in BOOLEAN /\ s.openRejected \in BOOLEAN
        /\ call.session \in 1 .. created
    BY <1>1, <1>2, <2>3, SlotIs DEF PendingCall, CallsOK
  <2>5. /\ ds \in Seq(Attempt(created)) /\ Len(ds) = Len(workers)
        /\ Lowered(workers, {s.carrier}, ds)
    BY <1>2, DownIs
  <2>6. w \in Attempt(created)
    BY <2>3, <2>4 DEF Attempt, Busy
  <2>7. workers' = Append(ds, w) /\ slot' = {r}
    BY <1>1, <1>5, <2>2 DEF Replaced
  <2> HIDE DEF ds
  <2>8. /\ workers' \in Seq(Attempt(created)) /\ Len(workers') = Len(workers) + 1
        /\ workers'[Len(workers) + 1] = w /\ DOMAIN workers' = 1 .. Len(workers) + 1
        /\ \A n \in 1 .. Len(workers) : workers'[n] = ds[n]
    BY <2>5, <2>6, <2>7
  <2>9. /\ r \in Slot(created, Len(workers')) /\ r.path = s.path /\ r.session = call.session
        /\ r.carrier = 0 /\ r.inFlight = TRUE /\ r.retrying = FALSE
    <3>1. ~(s.retrying /\ s.session = call.session)
      BY <2>3 DEF AlreadyServed
    <3>2. r.retrying = (s.retrying /\ s.session = call.session)
      BY <2>3 DEF Pointed, Slot
    <3>3. /\ r.path = s.path /\ r.session = call.session /\ r.carrier = 0 /\ r.inFlight = TRUE
          /\ r.openRejected \in BOOLEAN
      BY <2>3, <2>4 DEF Pointed, Slot
    <3>4. r \in Slot(created, Len(workers))
      <4>1. r = [s EXCEPT !.carrier = 0, !.session = call.session, !.inFlight = TRUE,
                          !.retrying = FALSE,
                          !.openRejected = s.openRejected /\ s.session = call.session]
        BY <2>3, <3>1, <2>4 DEF Pointed, Slot
      <4>2. 0 \in 0 .. Len(workers) /\ call.session \in 0 .. created
        BY <1>2, <2>4
      <4>3. (s.openRejected /\ s.session = call.session) \in BOOLEAN
        OBVIOUS
      <4> HIDE DEF r
      <4> QED BY <2>3, <4>1, <4>2, <4>3 DEF Slot
    <3>5. Slot(created, Len(workers)) \subseteq Slot(created, Len(workers'))
      <4>1. 0 .. Len(workers) \subseteq 0 .. Len(workers')
        BY <1>2, <2>8
      <4> QED BY <4>1 DEF Slot
    <3> QED BY <3>1, <3>2, <3>3, <3>4, <3>5
  <2> HIDE DEF r
  <2>10. SlotGood(r, workers', live')
    <3>1. Len(workers) + 1 \in DOMAIN workers' /\ For(r, w) /\ w.at \in Busy
      BY <1>2, <2>3, <2>8, <2>9 DEF For, Busy
    <3> QED BY <2>8, <2>9, <3>1 DEF SlotGood
  <2>11. Named(slot', workers')
    <3> SUFFICES ASSUME NEW n \in DOMAIN workers', workers'[n].at = "monitor", workers'[n].up
                 PROVE  FALSE
      BY DEF Named
    <3>1. n \in 1 .. Len(workers)
      BY <1>2, <2>8
    <3>2. n \in DOMAIN workers /\ workers[n].at = "monitor" /\ workers[n].up /\ n # s.carrier
      BY <1>2, <2>5, <2>8, <3>1 DEF Lowered
    <3> QED BY <2>2, <3>2 DEF Parts, SlotsOK, Named
  <2>12. SlotsOK(slot', workers', live')
    BY <2>7, <2>10, <2>11 DEF SlotsOK
  <2> QED BY <1>1, <1>2, <1>3, <2>7, <2>8, <2>9, <2>12 DEF Parts
<1> QED BY <1>4, <1>5

-----------------------------------------------------------------------------
(* The goroutines of an attempt.                                           *)

\* One attempt goes on.
Changed(n, w) ==
  /\ workers' \in Seq(Attempt(created)) /\ Len(workers') = Len(workers)
  /\ DOMAIN workers' = DOMAIN workers
  /\ workers'[n] = w /\ \A m \in DOMAIN workers : m # n => workers'[m] = workers[m]

LEMMA AttemptChanged ==
  ASSUME workers \in Seq(Attempt(created)), NEW n \in DOMAIN workers,
         NEW w \in Attempt(created), workers' = [workers EXCEPT ![n] = w]
  PROVE  Changed(n, w)
BY DEF Changed

\* What a step of attempt n, which becomes w, may do to its slot s: r is s after it.
Turned(n, w, s, r) ==
  /\ r.path = s.path /\ r.session = s.session
  /\ \/ r.carrier = s.carrier
     \/ s.carrier = 0 /\ r.carrier = n /\ w.at = "monitor"
     \/ s.carrier = n /\ r.carrier = 0
  /\ r.carrier = n => w.at = "monitor" \/ workers[n].at # "monitor"
  /\ w.at = "monitor" /\ w.up => r.carrier = n
  /\ r.carrier # 0 => ~r.inFlight
  /\ r.retrying => r.carrier = 0 /\ ~r.inFlight
  /\ s.session \in live /\ r.inFlight =>
       s.inFlight /\ (w.at \in Busy \/ workers[n].at \notin Busy)
  /\ s.session \in live /\ r.retrying =>
       w.at = "wait" \/ (s.retrying /\ workers[n].at # "wait")

\* The slot of the attempt is changed, or kept as it is.
LEMMA OwnSlotKeeps ==
  ASSUME SlotsOK(slot, workers, live), NEW n \in DOMAIN workers, NEW w, Changed(n, w),
         w.path = workers[n].path, w.session = workers[n].session,
         NEW s, slot = {s}, For(s, workers[n]), NEW r, slot' = {r},
         Turned(n, w, s, r),
         UNCHANGED live
  PROVE  SlotsOK(slot', workers', live')
<1>0. r.path = s.path /\ r.session = s.session
  BY DEF Turned
<1>1. SlotGood(s, workers, live) /\ Named(slot, workers)
  BY DEF SlotsOK
<1>2. /\ DOMAIN workers' = DOMAIN workers /\ workers'[n] = w
      /\ \A m \in DOMAIN workers : m # n => workers'[m] = workers[m]
  BY DEF Changed
<1>3. \A m \in DOMAIN workers : For(s, workers[m]) => For(r, workers'[m])
  BY <1>0, <1>2 DEF For
<1>4. r.carrier # 0 =>
        /\ r.carrier \in DOMAIN workers' /\ For(r, workers'[r.carrier])
        /\ workers'[r.carrier].at = "monitor"
  <2> SUFFICES ASSUME r.carrier # 0
               PROVE  /\ r.carrier \in DOMAIN workers' /\ For(r, workers'[r.carrier])
                      /\ workers'[r.carrier].at = "monitor"
    OBVIOUS
  <2>1. CASE r.carrier = n
    <3>1. w.at = "monitor"
      BY <1>1, <2>1 DEF SlotGood, Turned
    <3> QED BY <1>2, <1>3, <2>1, <3>1
  <2>2. CASE r.carrier # n
    <3>1. r.carrier = s.carrier
      BY <2>2 DEF Turned
    <3> QED BY <1>1, <1>2, <1>3, <2>2, <3>1 DEF SlotGood
  <2> QED BY <2>1, <2>2
<1>5. ASSUME r.session \in live, r.inFlight
      PROVE  \E m \in DOMAIN workers' : For(r, workers'[m]) /\ workers'[m].at \in Busy
  <2>1. PICK m \in DOMAIN workers : For(s, workers[m]) /\ workers[m].at \in Busy
    BY <1>0, <1>1, <1>5 DEF SlotGood, Turned
  <2>2. CASE m = n
    BY <1>0, <1>2, <1>3, <1>5, <2>1, <2>2 DEF Turned
  <2>3. CASE m # n
    BY <1>2, <1>3, <2>1, <2>3
  <2> QED BY <2>2, <2>3
<1>6. ASSUME r.session \in live, r.retrying
      PROVE  \E m \in DOMAIN workers' : For(r, workers'[m]) /\ workers'[m].at = "wait"
  <2>1. CASE w.at = "wait"
    BY <1>2, <1>3, <2>1 DEF For
  <2>2. CASE s.retrying /\ workers[n].at # "wait"
    <3>1. PICK m \in DOMAIN workers : For(s, workers[m]) /\ workers[m].at = "wait"
      BY <1>0, <1>1, <1>6, <2>2 DEF SlotGood
    <3> QED BY <1>2, <1>3, <2>2, <3>1
  <2> QED BY <1>0, <1>6, <2>1, <2>2 DEF Turned
<1>7. SlotGood(r, workers', live')
  <2>1. /\ r.carrier # 0 => ~r.inFlight
        /\ r.retrying => r.carrier = 0 /\ ~r.inFlight
    BY DEF Turned
  <2> QED BY <1>4, <1>5, <1>6, <2>1 DEF SlotGood
<1>8. Named(slot', workers')
  <2> SUFFICES ASSUME NEW m \in DOMAIN workers', workers'[m].at = "monitor", workers'[m].up
               PROVE  r.carrier = m
    BY DEF Named
  <2>1. CASE m = n
    BY <1>2, <2>1 DEF Turned
  <2>2. CASE m # n
    <3>1. s.carrier = m /\ workers[m].at = "monitor"
      BY <1>1, <1>2, <2>2 DEF Named
    <3>2. m # 0
      BY DEF Changed
    <3> QED BY <2>2, <3>1, <3>2 DEF Turned
  <2> QED BY <2>1, <2>2
<1> QED BY <1>7, <1>8 DEF SlotsOK

\* The attempt has no slot any more.
LEMMA NoSlotKeeps ==
  ASSUME SlotsOK(slot, workers, live), NEW n \in DOMAIN workers, NEW w, Changed(n, w),
         w.path = workers[n].path, w.session = workers[n].session, Mine(n) = {},
         ~(w.at = "monitor" /\ w.up), UNCHANGED <<slot, live>>
  PROVE  SlotsOK(slot', workers', live')
<1>1. /\ DOMAIN workers' = DOMAIN workers /\ workers'[n] = w
      /\ \A m \in DOMAIN workers : m # n => workers'[m] = workers[m]
  BY DEF Changed
<1>2. ASSUME NEW s \in slot
      PROVE  SlotGood(s, workers', live')
  <2>1. SlotGood(s, workers, live) /\ ~For(s, workers[n])
    BY DEF SlotsOK, Mine, For
  <2>2. \A m \in DOMAIN workers : For(s, workers[m]) => workers'[m] = workers[m]
    BY <1>1, <2>1
  <2> QED BY <1>1, <2>1, <2>2 DEF SlotGood
<1>3. Named(slot', workers')
  BY <1>1 DEF SlotsOK, Named
<1> QED BY <1>2, <1>3 DEF SlotsOK

LEMMA MineIs ==
  ASSUME SlotsOK(slot, workers, live), NEW n
  PROVE  /\ Mine(n) = {} \/ \E s \in slot : slot = {s} /\ Mine(n) = {s} /\ For(s, workers[n])
         /\ \A s \in Mine(n) : s \in slot /\ For(s, workers[n])
         /\ \A s \in slot : For(s, workers[n]) => s \in Mine(n)
BY DEF SlotsOK, Mine, For

\* A step of an attempt, once it is known what becomes of its slot.
LEMMA WorkerStepKeeps ==
  ASSUME Parts, NEW n \in DOMAIN workers, NEW w, Changed(n, w),
         UNCHANGED <<path, session, live, created, copied>>, CallsOK(calls', created),
         slot' \subseteq Slot(created, Len(workers)), SlotsOK(slot', workers', live')
  PROVE  Parts'
<1>1. SessionsOK'
  BY DEF Parts, SessionsOK
<1> QED BY <1>1 DEF Parts, Changed

\* An attempt goes on and leaves its slot as it is.
LEMMA SlotLeft ==
  ASSUME Parts, NEW n \in DOMAIN workers, NEW w \in Attempt(created),
         workers' = [workers EXCEPT ![n] = w], w.path = workers[n].path,
         w.session = workers[n].session, w.at # "monitor",
         \A s \in Mine(n) :
           /\ workers[n].at = "monitor" => s.carrier # n
           /\ s.session \in live /\ s.inFlight => w.at \in Busy \/ workers[n].at \notin Busy
           /\ s.session \in live /\ s.retrying => w.at = "wait" \/ workers[n].at # "wait",
         UNCHANGED <<path, session, live, created, copied, calls, slot>>
  PROVE  Parts'
<1>1. Changed(n, w)
  BY AttemptChanged DEF Parts
<1>2. SlotsOK(slot, workers, live) /\ CallsOK(calls', created) /\ slot' \subseteq Slot(created, Len(workers))
  BY DEF Parts
<1>3. SlotsOK(slot', workers', live')
  <2>1. CASE Mine(n) = {}
    BY <1>1, <1>2, <2>1, NoSlotKeeps
  <2>2. CASE \E s \in slot : slot = {s} /\ Mine(n) = {s} /\ For(s, workers[n])
    <3>1. PICK s \in slot : slot = {s} /\ Mine(n) = {s} /\ For(s, workers[n])
      BY <2>2
    <3>2. slot' = {s} /\ SlotGood(s, workers, live)
      BY <1>2, <3>1 DEF SlotsOK
    <3>3. Turned(n, w, s, s)
      <4>1. /\ s.carrier = n => workers[n].at # "monitor"
            /\ s.session \in live /\ s.inFlight => w.at \in Busy \/ workers[n].at \notin Busy
            /\ s.session \in live /\ s.retrying => w.at = "wait" \/ workers[n].at # "wait"
        BY <3>1
      <4>2. /\ s.carrier # 0 => ~s.inFlight
            /\ s.retrying => s.carrier = 0 /\ ~s.inFlight
        BY <3>2 DEF SlotGood
      <4> QED BY <4>1, <4>2 DEF Turned
    <3> QED BY <1>1, <1>2, <3>1, <3>2, <3>3, OwnSlotKeeps
  <2> QED BY <1>2, <2>1, <2>2, MineIs
<1> QED BY <1>1, <1>2, <1>3, WorkerStepKeeps

\* An attempt goes on and changes its slot s to r.
LEMMA SlotTurned ==
  ASSUME Parts, NEW n \in DOMAIN workers, NEW w \in Attempt(created),
         workers' = [workers EXCEPT ![n] = w], w.path = workers[n].path,
         w.session = workers[n].session,
         NEW s \in Mine(n), NEW r \in Slot(created, Len(workers)), slot' = {r},
         Turned(n, w, s, r),
         UNCHANGED <<path, session, live, created, copied>>, CallsOK(calls', created)
  PROVE  Parts'
<1>1. Changed(n, w)
  BY AttemptChanged DEF Parts
<1>2. SlotsOK(slot, workers, live) /\ slot' \subseteq Slot(created, Len(workers))
  BY DEF Parts
<1>3. slot = {s} /\ For(s, workers[n])
  BY <1>2, MineIs
<1>4. SlotsOK(slot', workers', live')
  BY <1>1, <1>2, <1>3, OwnSlotKeeps
<1> QED BY <1>1, <1>2, <1>4, WorkerStepKeeps

\* What a slot and an attempt are, at a step of the attempt.
LEMMA StepFacts ==
  ASSUME Parts, NEW n \in DOMAIN workers
  PROVE  /\ workers \in Seq(Attempt(created)) /\ workers[n] \in Attempt(created)
         /\ created \in Nat /\ Len(workers) \in Nat /\ n \in 1 .. Len(workers)
         /\ CallsOK(calls, created)
         /\ \A s \in Mine(n) : /\ slot = {s} /\ Mine(n) = {s} /\ For(s, workers[n])
                               /\ s \in Slot(created, Len(workers)) /\ SlotGood(s, workers, live)
         /\ \A where \in Busy \cup {"monitor", "retry", "wait", "exited"}, up \in BOOLEAN :
              LET w == [workers[n] EXCEPT !.at = where, !.up = up] IN
              /\ w \in Attempt(created) /\ w.path = workers[n].path
              /\ w.session = workers[n].session /\ w.at = where /\ w.up = up
<1>1. /\ workers \in Seq(Attempt(created)) /\ workers[n] \in Attempt(created)
      /\ created \in Nat /\ Len(workers) \in Nat /\ n \in 1 .. Len(workers)
      /\ CallsOK(calls, created)
  BY DEF Parts, SessionsOK
<1>2. SlotsOK(slot, workers, live) /\ slot \subseteq Slot(created, Len(workers))
  BY DEF Parts
<1>3. \A s \in Mine(n) : /\ slot = {s} /\ Mine(n) = {s} /\ For(s, workers[n])
                         /\ s \in Slot(created, Len(workers)) /\ SlotGood(s, workers, live)
  BY <1>2, MineIs DEF SlotsOK
<1>4. ASSUME NEW where \in Busy \cup {"monitor", "retry", "wait", "exited"}, NEW up \in BOOLEAN
      PROVE  LET w == [workers[n] EXCEPT !.at = where, !.up = up] IN
              /\ w \in Attempt(created) /\ w.path = workers[n].path
              /\ w.session = workers[n].session /\ w.at = where /\ w.up = up
  BY <1>1 DEF Attempt
<1> QED BY <1>1, <1>3, <1>4

LEMMA AttemptNumber ==
  ASSUME Parts, NEW n \in DOMAIN workers
  PROVE  n \in Nat /\ n # 0 /\ n \in 0 .. Len(workers) /\ 0 \in 0 .. Len(workers)
<1>1. Len(workers) \in Nat /\ n \in 1 .. Len(workers)
  BY DEF Parts
<1> QED BY <1>1

\* What follows of an attempt leaves sessions, paths and calls alone.
Still == UNCHANGED <<path, session, live, created, copied>>

LEMMA OpenAbandonedStep == \A n \in DOMAIN workers : Parts /\ OpenAbandoned(n) => Parts'
<1> SUFFICES ASSUME NEW n \in DOMAIN workers, Parts, OpenAbandoned(n) PROVE Parts'
  OBVIOUS
<1> DEFINE w == [workers[n] EXCEPT !.at = "exited"]
<1>1. /\ workers[n].at = "open" /\ ~Valid(n) /\ workers' = [workers EXCEPT ![n] = w]
      /\ Still /\ UNCHANGED calls
      /\ slot' = IF Mine(n) = {} THEN slot ELSE {[s EXCEPT !.inFlight = FALSE] : s \in Mine(n)}
  BY DEF OpenAbandoned, At, SetMine, sessionVars, callerVars, Still
<1>2. /\ w \in Attempt(created) /\ w.path = workers[n].path /\ w.session = workers[n].session
      /\ w.at = "exited"
  BY StepFacts DEF Attempt
<1> HIDE DEF w
<1>3. CASE Mine(n) = {}
  BY <1>1, <1>2, <1>3, SlotLeft DEF Still
<1>4. ASSUME NEW s \in Mine(n)
      PROVE  Parts'
  <2> DEFINE r == [s EXCEPT !.inFlight = FALSE]
  <2>0. Mine(n) = {s} /\ s \in Slot(created, Len(workers)) /\ SlotGood(s, workers, live)
    BY <1>4, StepFacts
  <2>1. slot' = {r}
    BY <1>1, <2>0
  <2>2. /\ r \in Slot(created, Len(workers)) /\ r.path = s.path /\ r.session = s.session
        /\ r.carrier = s.carrier /\ r.inFlight = FALSE /\ r.retrying = s.retrying
    BY <2>0 DEF Slot
  <2> HIDE DEF r
  <2>3. Turned(n, w, s, r)
    BY <1>1, <1>2, <2>0, <2>2 DEF Turned, SlotGood
  <2>4. CallsOK(calls', created) /\ UNCHANGED <<path, session, live, created, copied>>
    BY <1>1, StepFacts DEF Still
  <2> QED BY <1>1, <1>2, <1>4, <2>1, <2>2, <2>3, <2>4, SlotTurned
<1> QED BY <1>3, <1>4

LEMMA OpenSendsStep == \A n \in DOMAIN workers : Parts /\ OpenSends(n) => Parts'
<1> SUFFICES ASSUME NEW n \in DOMAIN workers, Parts, OpenSends(n) PROVE Parts'
  OBVIOUS
<1> DEFINE w == [workers[n] EXCEPT !.at = "opening"]
<1>1. /\ workers[n].at = "open" /\ workers' = [workers EXCEPT ![n] = w]
      /\ Still /\ UNCHANGED <<calls, slot>>
  BY DEF OpenSends, At, sessionVars, callerVars, Still
<1>2. /\ w \in Attempt(created) /\ w.path = workers[n].path /\ w.session = workers[n].session
      /\ w.at = "opening"
  BY StepFacts DEF Attempt, Busy
<1> HIDE DEF w
<1> QED BY <1>1, <1>2, SlotLeft DEF Still, Busy

LEMMA OpenRejectedStep == \A n \in DOMAIN workers : Parts /\ OpenRejected(n) => Parts'
<1> SUFFICES ASSUME NEW n \in DOMAIN workers, Parts, OpenRejected(n) PROVE Parts'
  OBVIOUS
<1> DEFINE w == [workers[n] EXCEPT !.at = "exited"]
<1>1. /\ workers[n].at = "opening" /\ workers' = [workers EXCEPT ![n] = w]
      /\ Still /\ UNCHANGED calls
      /\ slot' = IF Mine(n) = {} THEN slot
                 ELSE {[s EXCEPT !.inFlight = FALSE, !.openRejected = TRUE] : s \in Mine(n)}
  BY DEF OpenRejected, At, SetMine, sessionVars, callerVars, Still
<1>2. /\ w \in Attempt(created) /\ w.path = workers[n].path /\ w.session = workers[n].session
      /\ w.at = "exited"
  BY StepFacts DEF Attempt
<1> HIDE DEF w
<1>3. CASE Mine(n) = {}
  BY <1>1, <1>2, <1>3, SlotLeft DEF Still
<1>4. ASSUME NEW s \in Mine(n)
      PROVE  Parts'
  <2> DEFINE r == [s EXCEPT !.inFlight = FALSE, !.openRejected = TRUE]
  <2>0. Mine(n) = {s} /\ s \in Slot(created, Len(workers)) /\ SlotGood(s, workers, live)
    BY <1>4, StepFacts
  <2>1. slot' = {r}
    BY <1>1, <2>0
  <2>2. /\ r \in Slot(created, Len(workers)) /\ r.path = s.path /\ r.session = s.session
        /\ r.carrier = s.carrier /\ r.inFlight = FALSE /\ r.retrying = s.retrying
    BY <2>0 DEF Slot
  <2> HIDE DEF r
  <2>3. Turned(n, w, s, r)
    BY <1>1, <1>2, <2>0, <2>2 DEF Turned, SlotGood
  <2>4. CallsOK(calls', created) /\ UNCHANGED <<path, session, live, created, copied>>
    BY <1>1, StepFacts DEF Still
  <2> QED BY <1>1, <1>2, <1>4, <2>1, <2>2, <2>3, <2>4, SlotTurned
<1> QED BY <1>3, <1>4

\* retry, by an attempt that is in flight or whose carrier is gone.
LEMMA RetryStep ==
  ASSUME Parts, NEW n \in DOMAIN workers, Retry(n), Still, UNCHANGED calls,
         workers[n].at \in {"opening", "attached", "retry"},
         \A s \in Mine(n) : s.session \in live => s.carrier = 0 \/ workers[n].at = "retry"
  PROVE  Parts'
<1> DEFINE again == {s \in Mine(n) : s.carrier = 0 /\ workers[n].session \in live}
           waits == again # {} /\ \A s \in again : ~s.retrying
           where == IF waits THEN "wait" ELSE "exited"
           w == [workers[n] EXCEPT !.at = where]
<1>1. /\ workers' = [workers EXCEPT ![n] = w]
      /\ slot' = IF again = {} THEN slot
                 ELSE {[s EXCEPT !.inFlight = FALSE, !.retrying = TRUE] : s \in again}
  BY DEF Retry, At
<1>2. /\ w \in Attempt(created) /\ w.path = workers[n].path /\ w.session = workers[n].session
      /\ w.at = where /\ w.at \in {"wait", "exited"}
  BY StepFacts DEF Attempt
<1> HIDE DEF w
<1>3. CASE again = {}
  <2>1. slot' = slot /\ w.at = "exited"
    BY <1>1, <1>2, <1>3
  <2>2. \A s \in Mine(n) : s.session = workers[n].session
    BY DEF Mine
  <2>3. \A s \in Mine(n) : s.session \in live => workers[n].at = "retry"
    BY <1>3, <2>2
  <2>4. \A s \in Mine(n) :
          /\ workers[n].at = "monitor" => s.carrier # n
          /\ s.session \in live /\ s.inFlight => w.at \in Busy \/ workers[n].at \notin Busy
          /\ s.session \in live /\ s.retrying => w.at = "wait" \/ workers[n].at # "wait"
    BY <2>3 DEF Busy
  <2> HIDE DEF again, waits, where
  <2> QED BY <1>1, <1>2, <2>1, <2>4, SlotLeft DEF Still
<1>4. ASSUME NEW s \in again
      PROVE  Parts'
  <2> DEFINE r == [s EXCEPT !.inFlight = FALSE, !.retrying = TRUE]
  <2>0. s \in Mine(n) /\ s.carrier = 0 /\ Mine(n) = {s} /\ s \in Slot(created, Len(workers))
    BY <1>4, StepFacts
  <2>1. again = {s}
    BY <1>4, <2>0
  <2>2. /\ r \in Slot(created, Len(workers)) /\ r.path = s.path /\ r.session = s.session
        /\ r.carrier = 0 /\ r.inFlight = FALSE /\ r.retrying = TRUE
    BY <2>0 DEF Slot
  <2>3. w.at = "wait" \/ (s.retrying /\ workers[n].at # "wait")
    <3>1. CASE s.retrying
      BY <3>1
    <3>2. CASE ~s.retrying
      <4>1. waits
        BY <2>1, <3>2
      <4> QED BY <1>2, <4>1
    <3> QED BY <3>1, <3>2
  <2> HIDE DEF waits, where
  <2>4. slot' = {r}
    <3> HIDE DEF again
    <3> QED BY <1>1, <2>1
  <2> HIDE DEF r, again
  <2>5. w.at # "monitor" /\ workers[n].at # "monitor"
    BY <1>2
  <2>6. Turned(n, w, s, r)
    BY <2>0, <2>2, <2>3, <2>5 DEF Turned
  <2>7. CallsOK(calls', created) /\ UNCHANGED <<path, session, live, created, copied>>
    BY StepFacts DEF Still
  <2> QED BY <1>1, <1>2, <2>0, <2>2, <2>4, <2>6, <2>7, SlotTurned
<1> QED BY <1>3, <1>4

\* The OPEN fails once its session is dead, so retry gives up.
LEMMA OpenFailsStep == \A n \in DOMAIN workers : Parts /\ OpenFails(n) => Parts'
<1> SUFFICES ASSUME NEW n \in DOMAIN workers, Parts, OpenFails(n) PROVE Parts'
  OBVIOUS
<1>1. /\ workers[n].at = "opening" /\ workers[n].session \notin live
      /\ Retry(n) /\ Still /\ UNCHANGED calls
  BY DEF OpenFails, sessionVars, callerVars, Still
<1>2. \A s \in Mine(n) : s.session \notin live
  BY <1>1 DEF Mine
<1> QED BY <1>1, <1>2, RetryStep

LEMMA AttachStep == \A n \in DOMAIN workers : Parts /\ Attach(n) => Parts'
<1> SUFFICES ASSUME NEW n \in DOMAIN workers, Parts, Attach(n) PROVE Parts'
  OBVIOUS
<1>1. /\ workers[n].at = "opening" /\ Still /\ UNCHANGED <<calls, slot>>
      /\ IF Valid(n) THEN workers' = [workers EXCEPT ![n].at = "attached", ![n].up = TRUE]
                     ELSE At(n, "exited")
  BY DEF Attach, sessionVars, callerVars, Still
<1>2. CASE Valid(n)
  <2> DEFINE w == [workers[n] EXCEPT !.at = "attached", !.up = TRUE]
  <2>1. workers' = [workers EXCEPT ![n] = w]
    BY <1>1, <1>2
  <2>2. /\ w \in Attempt(created) /\ w.path = workers[n].path
        /\ w.session = workers[n].session /\ w.at = "attached"
    BY StepFacts DEF Attempt, Busy
  <2> HIDE DEF w
  <2> QED BY <1>1, <2>1, <2>2, SlotLeft DEF Still, Busy
<1>3. CASE ~Valid(n)
  <2> DEFINE w == [workers[n] EXCEPT !.at = "exited"]
  <2>1. workers' = [workers EXCEPT ![n] = w]
    BY <1>1, <1>3 DEF At
  <2>2. /\ w \in Attempt(created) /\ w.path = workers[n].path
        /\ w.session = workers[n].session /\ w.at = "exited"
    BY StepFacts DEF Attempt
  <2> HIDE DEF w
  <2>3. \A s \in Mine(n) : ~s.inFlight
    BY <1>3 DEF Valid
  <2> QED BY <1>1, <2>1, <2>2, <2>3, SlotLeft DEF Still
<1> QED BY <1>2, <1>3

\* The slot that takes a carrier was in flight, and so had none.
LEMMA AttachedStep == \A n \in DOMAIN workers : Parts /\ Attached(n) => Parts'
<1> SUFFICES ASSUME NEW n \in DOMAIN workers, Parts, Attached(n) PROVE Parts'
  OBVIOUS
<1>1. workers[n].at = "attached" /\ Still /\ UNCHANGED calls
  BY DEF Attached, sessionVars, callerVars, Still
<1>2. CASE ~Valid(n) /\ workers' = [workers EXCEPT ![n].at = "exited", ![n].up = FALSE]
           /\ UNCHANGED slot
  <2> DEFINE w == [workers[n] EXCEPT !.at = "exited", !.up = FALSE]
  <2>1. workers' = [workers EXCEPT ![n] = w]
    BY <1>2
  <2>2. /\ w \in Attempt(created) /\ w.path = workers[n].path
        /\ w.session = workers[n].session /\ w.at = "exited"
    BY StepFacts DEF Attempt
  <2> HIDE DEF w
  <2>3. \A s \in Mine(n) : ~s.inFlight
    BY <1>2 DEF Valid
  <2> QED BY <1>1, <1>2, <2>1, <2>2, <2>3, SlotLeft DEF Still
<1>3. ASSUME Valid(n)
      PROVE  \E s \in Mine(n) : /\ Mine(n) = {s} /\ s \in Slot(created, Len(workers))
                                /\ s.inFlight /\ s.carrier = 0 /\ ~s.retrying
  <2>1. PICK s \in Mine(n) : s.inFlight
    BY <1>3 DEF Valid
  <2>2. Mine(n) = {s} /\ s \in Slot(created, Len(workers)) /\ SlotGood(s, workers, live)
    BY StepFacts
  <2> QED BY <2>1, <2>2 DEF SlotGood
<1>4. CASE Valid(n) /\ ~workers[n].up /\ Retry(n)
  <2>1. \A s \in Mine(n) : s.carrier = 0
    BY <1>3, <1>4
  <2> QED BY <1>1, <1>4, <2>1, RetryStep
<1>5. CASE /\ Valid(n) /\ workers[n].up /\ At(n, "monitor")
           /\ slot' = {[s EXCEPT !.carrier = n, !.inFlight = FALSE,
                                 !.openRejected = FALSE] : s \in Mine(n)}
  <2>1. PICK s \in Mine(n) : /\ Mine(n) = {s} /\ s \in Slot(created, Len(workers))
                             /\ s.inFlight /\ s.carrier = 0 /\ ~s.retrying
    BY <1>3, <1>5
  <2> DEFINE w == [workers[n] EXCEPT !.at = "monitor"]
             r == [s EXCEPT !.carrier = n, !.inFlight = FALSE, !.openRejected = FALSE]
  <2>2. workers' = [workers EXCEPT ![n] = w] /\ slot' = {r}
    <3>1. workers' = [workers EXCEPT ![n] = w]
      BY <1>5 DEF At
    <3>2. slot' = {r}
      BY <1>5, <2>1
    <3> QED BY <3>1, <3>2
  <2>3. /\ w \in Attempt(created) /\ w.path = workers[n].path
        /\ w.session = workers[n].session /\ w.at = "monitor"
    BY StepFacts DEF Attempt
  <2>4. n \in 0 .. Len(workers)
    BY AttemptNumber
  <2>5. /\ r \in Slot(created, Len(workers)) /\ r.path = s.path /\ r.session = s.session
        /\ r.carrier = n /\ r.inFlight = FALSE /\ r.retrying = s.retrying
    BY <2>1, <2>4 DEF Slot
  <2> HIDE DEF w, r
  <2>6. Turned(n, w, s, r)
    BY <2>1, <2>3, <2>5 DEF Turned
  <2>7. CallsOK(calls', created) /\ UNCHANGED <<path, session, live, created, copied>>
    BY <1>1, StepFacts DEF Still
  <2> QED BY <2>2, <2>3, <2>5, <2>6, <2>7, SlotTurned
<1> QED BY <1>2, <1>4, <1>5 DEF Attached

LEMMA CarrierEndsStep == \A n \in DOMAIN workers : Parts /\ CarrierEnds(n) => Parts'
<1> SUFFICES ASSUME NEW n \in DOMAIN workers, Parts, CarrierEnds(n) PROVE Parts'
  OBVIOUS
<1>1. /\ workers' = Down(workers, {n})
      /\ UNCHANGED <<path, session, live, created, copied, slot, calls>>
  BY DEF CarrierEnds, sessionVars, callerVars
<1>2. SessionsOK' /\ CallsOK(calls', created')
  BY <1>1 DEF Parts, SessionsOK
<1> QED BY <1>1, <1>2, QuietStep

\* A carrier ended: its slot is emptied, if it still has that carrier.
LEMMA MonitorStep == \A n \in DOMAIN workers : Parts /\ Monitor(n) => Parts'
<1> SUFFICES ASSUME NEW n \in DOMAIN workers, Parts, Monitor(n) PROVE Parts'
  OBVIOUS
<1>1. workers[n].at = "monitor" /\ Still /\ UNCHANGED calls
  BY DEF Monitor, sessionVars, callerVars, Still
<1>2. CASE \A s \in Mine(n) : s.carrier # n
  <2> DEFINE w == [workers[n] EXCEPT !.at = "exited"]
  <2>1. workers' = [workers EXCEPT ![n] = w] /\ UNCHANGED slot
    BY <1>2 DEF Monitor, At
  <2>2. /\ w \in Attempt(created) /\ w.path = workers[n].path
        /\ w.session = workers[n].session /\ w.at = "exited"
    BY StepFacts DEF Attempt
  <2> HIDE DEF w
  <2> QED BY <1>1, <1>2, <2>1, <2>2, SlotLeft DEF Still, Busy
<1>3. ASSUME NEW s \in Mine(n), s.carrier = n
      PROVE  Parts'
  <2> DEFINE w == [workers[n] EXCEPT !.at = "retry"]
             r == [s EXCEPT !.carrier = 0]
  <2>1. /\ Mine(n) = {s} /\ s \in Slot(created, Len(workers)) /\ SlotGood(s, workers, live)
        /\ n # 0 /\ 0 \in 0 .. Len(workers)
    BY <1>3, StepFacts, AttemptNumber
  <2>2. At(n, "retry") /\ slot' = {[t EXCEPT !.carrier = 0] : t \in Mine(n)}
    BY <1>3 DEF Monitor
  <2>3. workers' = [workers EXCEPT ![n] = w]
    BY <2>2 DEF At
  <2>4. slot' = {r}
    BY <2>1, <2>2
  <2>5. /\ w \in Attempt(created) /\ w.path = workers[n].path
        /\ w.session = workers[n].session /\ w.at = "retry"
    BY StepFacts DEF Attempt
  <2>6. /\ r \in Slot(created, Len(workers)) /\ r.path = s.path /\ r.session = s.session
        /\ r.carrier = 0 /\ r.inFlight = s.inFlight /\ r.retrying = s.retrying
    BY <2>1 DEF Slot
  <2> HIDE DEF w, r
  <2>7. ~s.inFlight /\ ~s.retrying
    BY <1>3, <2>1 DEF SlotGood
  <2>8. Turned(n, w, s, r)
    BY <1>3, <2>1, <2>5, <2>6, <2>7 DEF Turned
  <2>9. CallsOK(calls', created) /\ UNCHANGED <<path, session, live, created, copied>>
    BY <1>1, StepFacts DEF Still
  <2> QED BY <1>3, <2>3, <2>4, <2>5, <2>6, <2>8, <2>9, SlotTurned
<1> QED BY <1>2, <1>3

LEMMA MonitorRetriesStep == \A n \in DOMAIN workers : Parts /\ MonitorRetries(n) => Parts'
<1> SUFFICES ASSUME NEW n \in DOMAIN workers, Parts, MonitorRetries(n) PROVE Parts'
  OBVIOUS
<1>1. workers[n].at = "retry" /\ Retry(n) /\ Still /\ UNCHANGED calls
  BY DEF MonitorRetries, sessionVars, callerVars, Still
<1> QED BY <1>1, RetryStep

\* The timer of a retry fires, and reconcile is called for the slot.
LEMMA WaitToRetryStep == \A n \in DOMAIN workers : Parts /\ WaitToRetry(n) => Parts'
<1> SUFFICES ASSUME NEW n \in DOMAIN workers, Parts, WaitToRetry(n) PROVE Parts'
  OBVIOUS
<1> DEFINE again == {s \in Mine(n) : s.retrying /\ s.carrier = 0
                                     /\ workers[n].session \in live}
           w == [workers[n] EXCEPT !.at = "exited"]
<1>1. /\ workers[n].at = "wait" /\ workers' = [workers EXCEPT ![n] = w] /\ Still
      /\ slot' = IF again = {} THEN slot ELSE {[s EXCEPT !.retrying = FALSE] : s \in again}
      /\ calls' = IF again = {} THEN calls ELSE calls \cup {Call(<<"worker", n>>)}
  BY DEF WaitToRetry, At, sessionVars, callerVars, Still
<1>2. /\ w \in Attempt(created) /\ w.path = workers[n].path
      /\ w.session = workers[n].session /\ w.at = "exited"
  BY StepFacts DEF Attempt
<1> HIDE DEF w
<1>3. CASE again = {}
  <2>1. \A s \in Mine(n) : s.session \in live => ~s.retrying
    <3> SUFFICES ASSUME NEW s \in Mine(n), s.session \in live, s.retrying
                 PROVE  FALSE
      OBVIOUS
    <3>1. s.carrier = 0
      BY StepFacts DEF SlotGood
    <3>2. s.session = workers[n].session
      BY DEF Mine
    <3> QED BY <1>3, <3>1, <3>2
  <2>2. UNCHANGED <<slot, calls>>
    BY <1>1, <1>3
  <2> HIDE DEF again
  <2> QED BY <1>1, <1>2, <2>1, <2>2, SlotLeft DEF Still, Busy
<1>4. ASSUME NEW s \in again
      PROVE  Parts'
  <2> DEFINE r == [s EXCEPT !.retrying = FALSE]
  <2>1. /\ s \in Mine(n) /\ Mine(n) = {s} /\ s \in Slot(created, Len(workers))
        /\ SlotGood(s, workers, live) /\ s.retrying /\ s.carrier = 0
    BY <1>4, StepFacts
  <2>2. again = {s}
    BY <1>4, <2>1
  <2>3. slot' = {r} /\ calls' = calls \cup {Call(<<"worker", n>>)}
    <3> HIDE DEF again
    <3> QED BY <1>1, <2>2
  <2>4. /\ r \in Slot(created, Len(workers)) /\ r.path = s.path /\ r.session = s.session
        /\ r.carrier = 0 /\ r.inFlight = s.inFlight /\ r.retrying = FALSE
    BY <2>1 DEF Slot
  <2> HIDE DEF r, again
  <2>5. ~s.inFlight /\ n # 0
    BY <2>1, AttemptNumber DEF SlotGood
  <2>6. Turned(n, w, s, r)
    BY <1>1, <1>2, <2>1, <2>4, <2>5 DEF Turned
  <2>7. CallsOK(calls', created) /\ UNCHANGED <<path, session, live, created, copied>>
    <3>1. <<"worker", n>> \in Caller
      BY AttemptNumber DEF Caller
    <3>2. CallsOK(calls, created) /\ created \in Nat
      BY StepFacts
    <3> QED BY <1>1, <2>3, <3>1, <3>2, CallAdded DEF Still
  <2> QED BY <1>1, <1>2, <2>1, <2>3, <2>4, <2>6, <2>7, SlotTurned
<1> QED BY <1>3, <1>4

-----------------------------------------------------------------------------
(* The invariant.                                                          *)

LEMMA PartsInit == Init => Parts
<1> SUFFICES ASSUME Init PROVE Parts
  OBVIOUS
<1>1. SessionsOK /\ CallsOK(calls, created)
  BY DEF Init, SessionsOK, CallsOK
<1>2. /\ slot \subseteq Slot(created, Len(workers)) /\ workers \in Seq(Attempt(created))
      /\ DOMAIN workers = {}
  BY DEF Init
<1>3. SlotsOK(slot, workers, live)
  BY <1>2 DEF Init, SlotsOK, Named
<1> QED BY <1>1, <1>2, <1>3 DEF Parts

LEMMA PartsStep == Parts /\ [Next]_vars => Parts'
<1> SUFFICES ASSUME Parts, [Next]_vars PROVE Parts'
  OBVIOUS
<1>1. CASE UNCHANGED vars
  <2>1. UNCHANGED <<path, session, live, created, copied, slot, calls, workers>>
    BY <1>1 DEF vars
  <2> QED BY <2>1 DEF Parts, SessionsOK
<1>2. CASE Establish \/ SessionCleared
  BY <1>2, EstablishStep, SessionClearedStep
<1>3. CASE Reconcile
  BY <1>3, ReadSlotStep, ReadSessionStep, CommitSlotStep DEF Reconcile
<1>4. CASE Assign \/ RefreshStep
  BY <1>4, AssignSyncStep, AssignFlowStep, RefreshSyncStep, RefreshDoneStep
     DEF Assign, RefreshStep
<1>5. CASE \E s \in 1 .. MaxSessions : SessionEnds(s)
  BY <1>5, SessionEndsStep
<1>6. CASE \E p \in Path \cup {NoPath} : Refresh(p)
  BY <1>6, RefreshStarts
<1>7. CASE \E n \in DOMAIN workers : WorkerStep(n) \/ CarrierEnds(n)
  BY <1>7, OpenAbandonedStep, OpenSendsStep, OpenRejectedStep, OpenFailsStep, AttachStep,
     AttachedStep, MonitorStep, MonitorRetriesStep, WaitToRetryStep, CarrierEndsStep
     DEF WorkerStep
<1> QED BY <1>1, <1>2, <1>3, <1>4, <1>5, <1>6, <1>7 DEF Next

\* In every state of every behaviour of the specification: a carrier that works
\* and is past attach's checks is the one its slot names; a slot names a carrier
\* of its own path and session, with no attempt in flight or waiting beside it;
\* and on a live session the flags inFlight and retrying, which turn later calls
\* of reconcile away, belong to a goroutine that still runs
\* (reconcile, attach, retry, waitToRetry, syncPaths).
THEOREM SlotInvariance == Spec => []SlotInv
<1>1. Spec => []Parts
  BY PartsInit, PartsStep, PTL DEF Spec
<1> QED BY <1>1, PartsEnough, PTL
=============================================================================
