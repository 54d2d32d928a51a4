------------------------- MODULE PathSessionProofs -------------------------
(***************************************************************************)
(* Proofs about module PathSession, for any paths and delays and any       *)
(* number of changes and failures: one goroutine drives each path session, *)
(* the flags that keep others away say where it is, and every physical     *)
(* session belongs to an open path session or to the goroutine that has    *)
(* just established it.                                                    *)
(***************************************************************************)
EXTENDS PathSession, FiniteSetTheorems, TLAPS

\* What the flags of the open path session r say of the goroutine w behind it.
FlagsOK(w, r) ==
  r.closed \/
    /\ r.retrying <=> w.at \in {"spawnWait", "wait", "woken"}
    /\ w.at \in {"spawnDial", "dial", "commit"} => r.inFlight
    /\ r.session # 0 <=> w.at = "serve"
    /\ w.at \in {"serve", "spawnWait", "wait", "woken", "reconcile"} => ~r.inFlight

\* The fields of one path session by themselves.
SessionOK(r) ==
  /\ r.session \in {0, r.generation}
  /\ r.closed => r.session = 0
  /\ r.retryCount > 0 => RetryDelay[r.retryCount - 1] < MaxDelay

\* The path sessions, their goroutines and the refresh, in the form in which
\* every step preserves them.
SessionsDriven == objects \in Seq(Session) /\ \A o \in DOMAIN objects : SessionOK(objects[o])
WorkersDriving ==
  /\ \A w \in workers :
       /\ w = Worker(w.of, w.generation, w.at) /\ w.generation \in Nat \ {0}
       /\ w.of \in DOMAIN objects /\ w.generation = objects[w.of].generation
       /\ FlagsOK(w, objects[w.of])
  /\ \A w, v \in workers : w.of = v.of => w = v
  /\ ~Refused => \A o \in DOMAIN objects :
       ~objects[o].closed /\ objects[o].generation > 0 => \E w \in workers : w.of = o
TableOK ==
  /\ {path, seen, available} \subseteq Path \cup {NoPath} /\ held = (path # NoPath)
  /\ held => objects # <<>>
  /\ held /\ refresh \in {"stale", "start"} => objects[Len(objects)].generation = 0
LiveOK == live \subseteq (DOMAIN objects) \X (Nat \ {0})

-----------------------------------------------------------------------------
LEMMA SessionTypes ==
  ASSUME NEW r \in Session
  PROVE  /\ r.session \in Nat /\ r.generation \in Nat /\ r.retryCount \in Nat
         /\ r.closed \in BOOLEAN /\ r.inFlight \in BOOLEAN /\ r.retrying \in BOOLEAN
         /\ r.path \in Path
BY DEF Session

LEMMA ObjectTypes ==
  ASSUME SessionsDriven, NEW o \in DOMAIN objects
  PROVE  objects[o] \in Session /\ o \in Nat /\ o \in 1 .. Len(objects)
BY DEF SessionsDriven

\* At most one element that satisfies a condition.
LEMMA AtMostOne ==
  ASSUME NEW S, \A x, y \in S : x = y
  PROVE  /\ Cardinality(S) <= 1
         /\ S # {} => Cardinality(S) = 1
<1>1. CASE S = {}
  BY <1>1, FS_EmptySet
<1>2. CASE S # {}
  <2>1. PICK x : x \in S
    BY <1>2
  <2>2. S = {x}
    BY <2>1
  <2> QED BY <2>2, FS_Singleton
<1> QED BY <1>1, <1>2

\* The two forms of the invariant.
LEMMA InvForms ==
  DrivenInv => SessionsDriven /\ WorkersDriving /\ TableOK /\ LiveOK
<1> SUFFICES ASSUME DrivenInv PROVE SessionsDriven /\ WorkersDriving /\ TableOK /\ LiveOK
  OBVIOUS
<1>1. SessionsDriven /\ TableOK /\ LiveOK
  BY DEF DrivenInv, TypeOK, DriverOK, SessionsDriven, SessionOK, TableOK, LiveOK
<1>2. ASSUME NEW w \in workers
      PROVE  FlagsOK(w, objects[w.of])
  <2>1. /\ w.of \in DOMAIN objects /\ w.generation \in Nat \ {0}
        /\ w.generation = objects[w.of].generation
    BY DEF DrivenInv, TypeOK, DriverOK
  <2>2. w \in {v \in workers : v.of = w.of} /\ objects[w.of].generation > 0
    BY <2>1
  <2>3. objects[w.of].closed \in BOOLEAN /\ objects[w.of].retrying \in BOOLEAN
        /\ objects[w.of].inFlight \in BOOLEAN
    BY <1>1, <2>1, ObjectTypes, SessionTypes
  <2> QED BY <2>1, <2>2, <2>3 DEF DrivenInv, OneDriver, DriverOK, FlagsOK
<1>3. ASSUME ~Refused, NEW o \in DOMAIN objects, ~objects[o].closed, objects[o].generation > 0
      PROVE  \E w \in workers : w.of = o
  <2>1. Cardinality({w \in workers : w.of = o}) = 1
    BY <1>3 DEF DrivenInv, OneDriver
  <2>2. {w \in workers : w.of = o} # {}
    BY <2>1, FS_EmptySet
  <2> QED BY <2>2
<1> QED BY <1>1, <1>2, <1>3 DEF DrivenInv, TypeOK, DriverOK, WorkersDriving

LEMMA FormsInv ==
  SessionsDriven /\ WorkersDriving /\ TableOK /\ LiveOK => DrivenInv
<1> SUFFICES ASSUME SessionsDriven, WorkersDriving, TableOK, LiveOK PROVE DrivenInv
  OBVIOUS
<1>1. TypeOK
  BY DEF SessionsDriven, SessionOK, WorkersDriving, TableOK, LiveOK, TypeOK
<1>2. DriverOK
  BY DEF SessionsDriven, SessionOK, WorkersDriving, TableOK, DriverOK, FlagsOK
<1>3. OneDriver
  <2> SUFFICES ASSUME NEW o \in DOMAIN objects, ~objects[o].closed, objects[o].generation > 0
               PROVE  LET mine == {w \in workers : w.of = o} IN
                        /\ Cardinality(mine) <= 1
                        /\ ~Refused => Cardinality(mine) = 1
                        /\ \A w \in mine :
                             /\ w.generation = objects[o].generation
                             /\ objects[o].retrying = (w.at \in {"spawnWait", "wait", "woken"})
                             /\ w.at \in {"spawnDial", "dial", "commit"} => objects[o].inFlight
                             /\ (objects[o].session # 0) = (w.at = "serve")
    BY DEF OneDriver
  <2> DEFINE mine == {w \in workers : w.of = o}
  <2>1. \A w, v \in mine : w = v
    BY DEF WorkersDriving
  <2>2. ~Refused => mine # {}
    BY DEF WorkersDriving
  <2>3. Cardinality(mine) <= 1 /\ (~Refused => Cardinality(mine) = 1)
    <3> HIDE DEF mine
    <3> QED BY <2>1, <2>2, AtMostOne
  <2>4. ASSUME NEW w \in mine
        PROVE  /\ w.generation = objects[o].generation
               /\ objects[o].retrying = (w.at \in {"spawnWait", "wait", "woken"})
               /\ w.at \in {"spawnDial", "dial", "commit"} => objects[o].inFlight
               /\ (objects[o].session # 0) = (w.at = "serve")
    <3>1. w \in workers /\ w.of = o
      OBVIOUS
    <3>2. FlagsOK(w, objects[o]) /\ w.generation = objects[o].generation
      BY <3>1 DEF WorkersDriving
    <3>3. objects[o].retrying \in BOOLEAN
      BY ObjectTypes, SessionTypes
    <3> QED BY <3>2, <3>3 DEF FlagsOK
  <2> QED BY <2>3, <2>4
<1> QED BY <1>1, <1>2, <1>3 DEF DrivenInv
-----------------------------------------------------------------------------
(* A step of the goroutine w: its path session becomes r.                  *)

LEMMA ElementSet ==
  ASSUME NEW S, NEW q \in Seq(S), NEW o \in DOMAIN q, NEW r \in S
  PROVE  LET z == [q EXCEPT ![o] = r]
         IN /\ z \in Seq(S) /\ DOMAIN z = DOMAIN q /\ Len(z) = Len(q)
            /\ \A p \in DOMAIN q : z[p] = IF p = o THEN r ELSE q[p]
OBVIOUS

LEMMA GotoFacts ==
  ASSUME NEW w, w = Worker(w.of, w.generation, w.at), NEW at
  PROVE  LET v == [w EXCEPT !.at = at]
         IN v = Worker(w.of, w.generation, at) /\ v.of = w.of
            /\ v.generation = w.generation /\ v.at = at
BY DEF Worker

\* What w does to its path session and to itself.
Drives(w, r) ==
  /\ objects' = [objects EXCEPT ![w.of] = r]
  /\ objects[w.of].closed => r.closed
  /\ \/ workers' = workers \ {w} /\ (r.closed \/ Refused)
     \/ \E at : /\ workers' = (workers \ {w}) \cup {Worker(w.of, w.generation, at)}
                /\ FlagsOK(Worker(w.of, w.generation, at), r)

LEMMA DrivesStep ==
  ASSUME DrivenInv, NEW w \in workers, NEW r \in Session, SessionOK(r),
         r.generation = objects[w.of].generation, Drives(w, r),
         UNCHANGED <<table, control>>
  PROVE  SessionsDriven' /\ WorkersDriving' /\ TableOK' /\ DOMAIN objects' = DOMAIN objects
<1>1. SessionsDriven /\ WorkersDriving /\ TableOK
  BY InvForms
<1>2. /\ w = Worker(w.of, w.generation, w.at) /\ w.of \in DOMAIN objects
      /\ w.generation = objects[w.of].generation /\ w.generation \in Nat \ {0}
  BY <1>1 DEF WorkersDriving
<1>3. objects \in Seq(Session)
  BY <1>1 DEF SessionsDriven
<1>4. /\ objects' \in Seq(Session) /\ DOMAIN objects' = DOMAIN objects
      /\ Len(objects') = Len(objects)
      /\ \A p \in DOMAIN objects : objects'[p] = IF p = w.of THEN r ELSE objects[p]
  BY <1>2, <1>3, ElementSet DEF Drives
<1>5. SessionsDriven'
  BY <1>1, <1>4 DEF SessionsDriven
<1>6. \A v \in workers \ {w} : v.of # w.of
  BY <1>1 DEF WorkersDriving
<1>7. \A v \in workers \ {w} :
        /\ v = Worker(v.of, v.generation, v.at) /\ v.generation \in Nat \ {0}
        /\ v.of \in DOMAIN objects' /\ v.generation = objects'[v.of].generation
        /\ FlagsOK(v, objects'[v.of])
  BY <1>1, <1>4, <1>6 DEF WorkersDriving
<1>8. UNCHANGED <<closing, cancelled>>
  BY DEF control
<1>9. ASSUME NEW o \in DOMAIN objects, o # w.of, ~Refused,
             ~objects'[o].closed, objects'[o].generation > 0
      PROVE  \E v \in workers \ {w} : v.of = o
  <2>1. PICK v \in workers : v.of = o
    BY <1>1, <1>4, <1>9 DEF WorkersDriving
  <2> QED BY <1>9, <2>1
<1>10. ASSUME workers' = workers \ {w}, r.closed \/ Refused
       PROVE  WorkersDriving'
  <2>1. \A v, u \in workers' : v.of = u.of => v = u
    BY <1>1, <1>10 DEF WorkersDriving
  <2>2. ~Refused' => \A o \in DOMAIN objects' :
          ~objects'[o].closed /\ objects'[o].generation > 0 => \E v \in workers' : v.of = o
    BY <1>2, <1>4, <1>8, <1>9, <1>10 DEF Refused
  <2> QED BY <1>7, <1>10, <2>1, <2>2 DEF WorkersDriving
<1>11. ASSUME NEW at, workers' = (workers \ {w}) \cup {Worker(w.of, w.generation, at)},
              FlagsOK(Worker(w.of, w.generation, at), r)
       PROVE  WorkersDriving'
  <2>1. PICK n : /\ workers' = (workers \ {w}) \cup {n} /\ FlagsOK(n, r)
                 /\ n = Worker(n.of, n.generation, n.at)
                 /\ n.of = w.of /\ n.generation = w.generation
    BY <1>11 DEF Worker
  <2>2. \A v, u \in workers' : v.of = u.of => v = u
    BY <1>1, <1>6, <2>1 DEF WorkersDriving
  <2>3. ~Refused' => \A o \in DOMAIN objects' :
          ~objects'[o].closed /\ objects'[o].generation > 0 => \E v \in workers' : v.of = o
    BY <1>4, <1>8, <1>9, <2>1 DEF Refused
  <2>4. objects'[n.of] = r
    BY <1>2, <1>4, <2>1
  <2>5. \A v \in workers' :
          /\ v = Worker(v.of, v.generation, v.at) /\ v.generation \in Nat \ {0}
          /\ v.of \in DOMAIN objects' /\ v.generation = objects'[v.of].generation
          /\ FlagsOK(v, objects'[v.of])
    BY <1>2, <1>4, <1>7, <2>1, <2>4
  <2> QED BY <2>2, <2>3, <2>5 DEF WorkersDriving
<1>12. WorkersDriving'
  BY <1>10, <1>11 DEF Drives
<1>13. TableOK'
  <2>1. UNCHANGED <<path, seen, available, held, refresh>>
    BY DEF table, manager
  <2>2. objects # <<>> => objects' # <<>>
    BY <1>3, <1>4
  <2>3. held /\ refresh \in {"stale", "start"} =>
          objects'[Len(objects')].generation = objects[Len(objects)].generation
    <3>1. objects # <<>> => Len(objects) \in DOMAIN objects
      BY <1>3
    <3> QED BY <1>1, <1>4, <3>1 DEF TableOK
  <2> QED BY <1>1, <2>1, <2>2, <2>3 DEF TableOK
<1> QED BY <1>4, <1>5, <1>12, <1>13
-----------------------------------------------------------------------------
(* The steps of a goroutine.                                               *)

Driving(w) ==
  \E r \in Session : SessionOK(r) /\ r.generation = objects[w.of].generation /\ Drives(w, r)

\* What w finds.
LEMMA DriverFacts ==
  ASSUME DrivenInv, NEW w \in workers
  PROVE  /\ objects \in Seq(Session) /\ w.of \in DOMAIN objects
         /\ objects[w.of] \in Session /\ SessionOK(objects[w.of])
         /\ w = Worker(w.of, w.generation, w.at) /\ w.generation \in Nat \ {0}
         /\ w.generation = objects[w.of].generation
         /\ FlagsOK(w, objects[w.of])
         /\ objects[w.of].session \in Nat
BY InvForms, ObjectTypes, SessionTypes DEF WorkersDriving, SessionsDriven

LEMMA StaysSame ==
  ASSUME NEW S, NEW q \in Seq(S), NEW o \in DOMAIN q
  PROVE  q = [q EXCEPT ![o] = q[o]]
OBVIOUS

LEMMA GotoForm ==
  ASSUME DrivenInv, NEW w \in workers, NEW at, Goto(w, at)
  PROVE  workers' = (workers \ {w}) \cup {Worker(w.of, w.generation, at)}
BY ZenonT(30), DriverFacts, GotoFacts DEF Goto

\* A step that leaves the path session as it is.
LEMMA OnlyMoves ==
  ASSUME DrivenInv, NEW w \in workers, UNCHANGED objects,
         \/ Exit(w) /\ (objects[w.of].closed \/ Refused)
         \/ \E at : Goto(w, at) /\ FlagsOK(Worker(w.of, w.generation, at), objects[w.of])
  PROVE  Driving(w)
<1>1. objects' = [objects EXCEPT ![w.of] = objects[w.of]]
  BY DriverFacts, StaysSame
<1>2. Drives(w, objects[w.of])
  BY <1>1, GotoForm DEF Drives, Exit
<1> QED BY <1>2, DriverFacts DEF Driving

\* A step that changes it.
LEMMA Changes ==
  ASSUME DrivenInv, NEW w \in workers, NEW r \in Session, SessionOK(r),
         r.generation = objects[w.of].generation,
         objects' = [objects EXCEPT ![w.of] = r],
         objects[w.of].closed => r.closed,
         \/ Exit(w) /\ (r.closed \/ Refused)
         \/ \E at : Goto(w, at) /\ FlagsOK(Worker(w.of, w.generation, at), r)
  PROVE  Driving(w)
<1>1. Drives(w, r)
  BY GotoForm DEF Drives, Exit
<1> QED BY <1>1 DEF Driving

LEMMA SpawnDialDrives ==
  ASSUME DrivenInv, NEW w \in workers, SpawnDial(w)
  PROVE  Driving(w)
<1> DEFINE s == objects[w.of]
<1>1. w.at = "spawnDial" /\ s \in Session /\ SessionOK(s) /\ FlagsOK(w, s)
  BY DriverFacts DEF SpawnDial
<1>2. CASE Refused
  <2>1. PICK r : r = [s EXCEPT !.inFlight = s.inFlight /\ s.generation # w.generation]
    OBVIOUS
  <2>2. /\ r \in Session /\ r.closed = s.closed /\ r.generation = s.generation
        /\ r.session = s.session /\ r.retryCount = s.retryCount
    BY <1>1, <2>1 DEF Session
  <2>3. objects' = [objects EXCEPT ![w.of] = r] /\ Exit(w)
    BY <1>2, <2>1 DEF SpawnDial
  <2>4. SessionOK(r)
    BY <1>1, <2>2 DEF SessionOK
  <2> QED BY <1>2, <2>2, <2>3, <2>4, Changes
<1>3. CASE ~Refused
  <2>1. Goto(w, "dial") /\ UNCHANGED objects
    BY <1>3 DEF SpawnDial
  <2>2. FlagsOK(Worker(w.of, w.generation, "dial"), s)
    BY <1>1 DEF FlagsOK, Worker
  <2> QED BY <2>1, <2>2, OnlyMoves
<1> QED BY <1>2, <1>3

LEMMA DialDrives ==
  ASSUME DrivenInv, NEW w \in workers, DialFails(w) \/ DialSucceeds(w)
  PROVE  Driving(w)
<1>1. /\ w.at = "dial" /\ UNCHANGED objects
      /\ Goto(w, "retry") \/ Goto(w, "commit")
  BY DEF DialFails, DialSucceeds
<1>2. FlagsOK(w, objects[w.of])
  BY DriverFacts
<1>3. /\ FlagsOK(Worker(w.of, w.generation, "retry"), objects[w.of])
      /\ FlagsOK(Worker(w.of, w.generation, "commit"), objects[w.of])
  BY <1>1, <1>2 DEF FlagsOK, Worker
<1> QED BY <1>1, <1>3, OnlyMoves

LEMMA CommitDrives ==
  ASSUME DrivenInv, NEW w \in workers, Commit(w)
  PROVE  Driving(w)
<1> DEFINE s == objects[w.of]
<1>1. /\ w.at = "commit" /\ s \in Session /\ SessionOK(s) /\ FlagsOK(w, s)
      /\ w.generation = s.generation
  BY DriverFacts DEF Commit
<1>2. CASE Overtaken(w)
  <2>1. s.closed
    BY <1>1, <1>2 DEF Overtaken, FlagsOK
  <2> QED BY <1>2, <2>1, OnlyMoves DEF Commit
<1>3. CASE ~Overtaken(w)
  <2>1. ~s.closed
    BY <1>3 DEF Overtaken
  <2>2. PICK r : r = [s EXCEPT !.session = w.generation, !.inFlight = FALSE, !.retrying = FALSE]
    OBVIOUS
  <2>3. /\ r \in Session /\ r.closed = s.closed /\ r.generation = s.generation
        /\ r.session = w.generation /\ r.retryCount = s.retryCount
        /\ r.inFlight = FALSE /\ r.retrying = FALSE
    BY <1>1, <2>2 DEF Session
  <2>4. objects' = [objects EXCEPT ![w.of] = r] /\ Goto(w, "serve")
    BY <1>3, <2>2 DEF Commit, Set
  <2>5. SessionOK(r)
    BY <1>1, <2>1, <2>3 DEF SessionOK
  <2>6. FlagsOK(Worker(w.of, w.generation, "serve"), r)
    BY <2>3, DriverFacts DEF FlagsOK, Worker
  <2> QED BY <2>3, <2>4, <2>5, <2>6, Changes
<1> QED BY <1>2, <1>3

LEMMA ServedDrives ==
  ASSUME DrivenInv, NEW w \in workers, NEW stable \in BOOLEAN, Served(w, stable)
  PROVE  Driving(w)
<1> DEFINE s == objects[w.of]
<1>1. /\ w.at = "serve" /\ s \in Session /\ SessionOK(s) /\ FlagsOK(w, s)
      /\ w.generation = s.generation /\ w.generation \in Nat \ {0}
  BY DriverFacts DEF Served
<1>2. CASE s.closed
  <2>1. s.session # w.generation
    BY <1>1, <1>2 DEF SessionOK
  <2>2. UNCHANGED objects /\ Exit(w)
    BY <2>1 DEF Served
  <2> QED BY <1>2, <2>2, OnlyMoves
<1>3. CASE ~s.closed
  <2>1. s.session = w.generation
    BY <1>1, <1>3 DEF SessionOK, FlagsOK
  <2>2. PICK r : r = [s EXCEPT !.session = 0, !.retryCount = IF stable THEN 0 ELSE s.retryCount]
    OBVIOUS
  <2>3. /\ r \in Session /\ r.closed = s.closed /\ r.generation = s.generation
        /\ r.session = 0 /\ r.retryCount \in {0, s.retryCount}
        /\ r.inFlight = s.inFlight /\ r.retrying = s.retrying
    BY <1>1, <2>2 DEF Session
  <2>4. Goto(w, "retry")
    BY <1>3, <2>1 DEF Served
  <2>5. objects' = [objects EXCEPT ![w.of] = r]
    BY <2>1, <2>2 DEF Served
  <2>6. SessionOK(r)
    BY <1>1, <2>3 DEF SessionOK
  <2>7. FlagsOK(Worker(w.of, w.generation, "retry"), r)
    BY <1>1, <1>3, <2>3 DEF FlagsOK, Worker
  <2> QED BY <2>3, <2>4, <2>5, <2>6, <2>7, Changes
<1> QED BY <1>2, <1>3

LEMMA RetryDrives ==
  ASSUME DrivenInv, NEW w \in workers, Retry(w)
  PROVE  Driving(w)
<1> DEFINE s == objects[w.of]
           moved == s.closed \/ s.generation # w.generation \/ s.session # 0
<1>1. /\ w.at = "retry" /\ s \in Session /\ SessionOK(s) /\ FlagsOK(w, s)
      /\ w.generation = s.generation
  BY DriverFacts DEF Retry
<1>2. moved \/ s.retrying <=> s.closed
  BY <1>1, SessionTypes DEF FlagsOK, SessionOK
<1>3. CASE s.closed
  <2>1. PICK r : r = [s EXCEPT !.inFlight = s.inFlight /\ moved]
    OBVIOUS
  <2>2. /\ r \in Session /\ r.closed = s.closed /\ r.generation = s.generation
        /\ r.session = s.session /\ r.retryCount = s.retryCount
    BY <1>1, <2>1 DEF Session
  <2>3. objects' = [objects EXCEPT ![w.of] = r] /\ Exit(w)
    BY <1>2, <1>3, <2>1 DEF Retry
  <2>4. SessionOK(r)
    BY <1>1, <2>2 DEF SessionOK
  <2> QED BY <1>3, <2>2, <2>3, <2>4, Changes
<1>4. CASE ~s.closed
  <2>1. PICK r : r = [s EXCEPT !.inFlight = FALSE, !.retrying = TRUE,
                               !.retryCount = NextCount(s.retryCount)]
    OBVIOUS
  <2>2. NextCount(s.retryCount) \in Nat
        /\ (NextCount(s.retryCount) > 0 => RetryDelay[NextCount(s.retryCount) - 1] < MaxDelay)
    <3>1. s.retryCount \in Nat
      BY <1>1, SessionTypes
    <3>2. CASE RetryDelay[s.retryCount] < MaxDelay
      <4>1. NextCount(s.retryCount) = s.retryCount + 1 /\ (s.retryCount + 1) - 1 = s.retryCount
        BY <3>1, <3>2 DEF NextCount
      <4> QED BY <3>1, <3>2, <4>1
    <3>3. CASE ~(RetryDelay[s.retryCount] < MaxDelay)
      BY <1>1, <3>1, <3>3 DEF NextCount, SessionOK
    <3> QED BY <3>2, <3>3
  <2>3. /\ r \in Session /\ r.closed = s.closed /\ r.generation = s.generation
        /\ r.session = s.session /\ r.retryCount = NextCount(s.retryCount)
        /\ r.inFlight = FALSE /\ r.retrying = TRUE
    BY <1>1, <2>1, <2>2 DEF Session
  <2>4. objects' = [objects EXCEPT ![w.of] = r] /\ Goto(w, "spawnWait")
    BY <1>2, <1>4, <2>1 DEF Retry, Set
  <2>5. SessionOK(r)
    BY <1>1, <2>2, <2>3 DEF SessionOK
  <2>6. FlagsOK(Worker(w.of, w.generation, "spawnWait"), r)
    BY <1>1, <1>4, <2>3 DEF FlagsOK, Worker
  <2> QED BY <2>3, <2>4, <2>5, <2>6, Changes
<1> QED BY <1>3, <1>4

LEMMA SpawnWaitDrives ==
  ASSUME DrivenInv, NEW w \in workers, SpawnWait(w)
  PROVE  Driving(w)
<1> DEFINE s == objects[w.of]
<1>1. w.at = "spawnWait" /\ s \in Session /\ SessionOK(s) /\ FlagsOK(w, s)
  BY DriverFacts DEF SpawnWait
<1>2. CASE Refused
  <2>1. PICK r : r = [s EXCEPT !.retrying = s.retrying /\ s.generation # w.generation]
    OBVIOUS
  <2>2. /\ r \in Session /\ r.closed = s.closed /\ r.generation = s.generation
        /\ r.session = s.session /\ r.retryCount = s.retryCount
    BY <1>1, <2>1 DEF Session
  <2>3. objects' = [objects EXCEPT ![w.of] = r] /\ Exit(w)
    BY <1>2, <2>1 DEF SpawnWait
  <2>4. SessionOK(r)
    BY <1>1, <2>2 DEF SessionOK
  <2> QED BY <1>2, <2>2, <2>3, <2>4, Changes
<1>3. CASE ~Refused
  <2>1. Goto(w, "wait") /\ UNCHANGED objects
    BY <1>3 DEF SpawnWait
  <2>2. FlagsOK(Worker(w.of, w.generation, "wait"), s)
    BY <1>1 DEF FlagsOK, Worker
  <2> QED BY <2>1, <2>2, OnlyMoves
<1> QED BY <1>2, <1>3

LEMMA WaitEndsDrives ==
  ASSUME DrivenInv, NEW w \in workers, WaitEnds(w)
  PROVE  Driving(w)
<1>1. w.at = "wait" /\ FlagsOK(w, objects[w.of]) /\ UNCHANGED objects
  BY DriverFacts DEF WaitEnds
<1>2. FlagsOK(Worker(w.of, w.generation, "woken"), objects[w.of])
  BY <1>1 DEF FlagsOK, Worker
<1> QED BY <1>1, <1>2, OnlyMoves DEF WaitEnds, Refused

LEMMA WokenDrives ==
  ASSUME DrivenInv, NEW w \in workers, Woken(w)
  PROVE  Driving(w)
<1> DEFINE s == objects[w.of]
<1>1. /\ w.at = "woken" /\ s \in Session /\ SessionOK(s) /\ FlagsOK(w, s)
      /\ w.generation = s.generation
  BY DriverFacts DEF Woken
<1>2. s.closed \/ s.generation # w.generation \/ ~s.retrying \/ s.session # 0 <=> s.closed
  BY <1>1 DEF FlagsOK
<1>3. CASE s.closed
  BY <1>2, <1>3, OnlyMoves DEF Woken
<1>4. CASE ~s.closed
  <2>1. PICK r : r = [s EXCEPT !.retrying = FALSE]
    OBVIOUS
  <2>2. /\ r \in Session /\ r.closed = s.closed /\ r.generation = s.generation
        /\ r.session = s.session /\ r.retryCount = s.retryCount
        /\ r.inFlight = s.inFlight /\ r.retrying = FALSE
    BY <1>1, <2>1 DEF Session
  <2>3. objects' = [objects EXCEPT ![w.of] = r] /\ Goto(w, "reconcile")
    BY <1>2, <1>4, <2>1 DEF Woken, Awake, Set
  <2>4. SessionOK(r)
    BY <1>1, <2>2 DEF SessionOK
  <2>5. FlagsOK(Worker(w.of, w.generation, "reconcile"), r)
    BY <1>1, <1>4, <2>2 DEF FlagsOK, Worker
  <2> QED BY <2>2, <2>3, <2>4, <2>5, Changes
<1> QED BY <1>3, <1>4
-----------------------------------------------------------------------------
(* An attempt starts: reconcile, by the refresh or by the goroutine that   *)
(* waited.                                                                 *)

LEMMA WorkerFacts ==
  ASSUME NEW o, NEW g, NEW at
  PROVE  LET n == Worker(o, g, at)
         IN n = Worker(n.of, n.generation, n.at) /\ n.of = o /\ n.generation = g /\ n.at = at
BY DEF Worker

LEMMA DialStarts ==
  ASSUME DrivenInv, NEW o \in DOMAIN objects, MayDial(o),
         Set(o, Dialing(o)),
         workers' = {v \in workers : v.of # o} \cup
                      {Worker(o, objects'[o].generation, "spawnDial")},
         UNCHANGED <<path, seen, available, held, control>>,
         refresh' \in {refresh, "idle"},
         refresh' = "idle" \/ objects[o].generation # 0
  PROVE  SessionsDriven' /\ WorkersDriving' /\ TableOK' /\ DOMAIN objects' = DOMAIN objects
<1> DEFINE s == objects[o]
<1>1. SessionsDriven /\ WorkersDriving /\ TableOK
  BY InvForms
<1>2. objects \in Seq(Session) /\ s \in Session /\ SessionOK(s)
  BY <1>1, ObjectTypes DEF SessionsDriven
<1>3. /\ ~s.closed /\ s.session = 0 /\ ~s.inFlight /\ ~s.retrying
      /\ s.generation \in Nat
  BY <1>2, SessionTypes DEF MayDial
<1>4. PICK r : r = Dialing(o)
  OBVIOUS
<1>5. /\ r \in Session /\ r.closed = s.closed /\ r.generation = s.generation + 1
      /\ r.session = 0 /\ r.retryCount = s.retryCount
      /\ r.inFlight = TRUE /\ r.retrying = s.retrying
  <2>1. PICK f : f = [s EXCEPT !.inFlight = TRUE]
    OBVIOUS
  <2>2. /\ f \in Session /\ f.closed = s.closed /\ f.generation = s.generation
        /\ f.session = 0 /\ f.retryCount = s.retryCount
        /\ f.inFlight = TRUE /\ f.retrying = s.retrying
    BY <1>2, <1>3, <2>1 DEF Session
  <2>3. r = [f EXCEPT !.generation = s.generation + 1]
    BY <1>4, <2>1 DEF Dialing
  <2> QED BY <1>3, <2>2, <2>3 DEF Session
<1>6. objects' = [objects EXCEPT ![o] = r]
  BY <1>4 DEF Set
<1>7. /\ objects' \in Seq(Session) /\ DOMAIN objects' = DOMAIN objects
      /\ Len(objects') = Len(objects)
      /\ \A p \in DOMAIN objects : objects'[p] = IF p = o THEN r ELSE objects[p]
  BY <1>2, <1>5, <1>6, ElementSet
<1>8. SessionOK(r)
  BY <1>2, <1>5 DEF SessionOK
<1>9. SessionsDriven'
  BY <1>1, <1>7, <1>8 DEF SessionsDriven
<1>10. PICK n : /\ n = Worker(o, r.generation, "spawnDial")
                /\ n = Worker(n.of, n.generation, n.at)
                /\ n.of = o /\ n.generation = r.generation /\ n.at = "spawnDial"
  BY WorkerFacts
<1>11. workers' = {v \in workers : v.of # o} \cup {n}
  BY <1>7, <1>10
<1>12. FlagsOK(n, r)
  BY <1>3, <1>5, <1>10 DEF FlagsOK
<1>13. n.generation \in Nat \ {0}
  BY <1>3, <1>5, <1>10
<1>14. \A v \in workers' :
         /\ v = Worker(v.of, v.generation, v.at) /\ v.generation \in Nat \ {0}
         /\ v.of \in DOMAIN objects' /\ v.generation = objects'[v.of].generation
         /\ FlagsOK(v, objects'[v.of])
  <2>1. ASSUME NEW v \in workers, v.of # o
        PROVE  /\ v = Worker(v.of, v.generation, v.at) /\ v.generation \in Nat \ {0}
               /\ v.of \in DOMAIN objects' /\ v.generation = objects'[v.of].generation
               /\ FlagsOK(v, objects'[v.of])
    BY <1>1, <1>7, <2>1 DEF WorkersDriving
  <2>2. objects'[n.of] = r /\ n.of \in DOMAIN objects'
    BY <1>7, <1>10
  <2> QED BY <1>10, <1>11, <1>12, <1>13, <2>1, <2>2
<1>15. \A v, u \in workers' : v.of = u.of => v = u
  BY <1>1, <1>10, <1>11 DEF WorkersDriving
<1>16. ASSUME ~Refused', NEW p \in DOMAIN objects', ~objects'[p].closed, objects'[p].generation > 0
       PROVE  \E v \in workers' : v.of = p
  <2>1. CASE p = o
    BY <1>10, <1>11, <2>1
  <2>2. CASE p # o
    <3>1. ~Refused
      BY <1>16 DEF Refused, control
    <3>2. p \in DOMAIN objects /\ objects'[p] = objects[p]
      BY <1>7, <2>2
    <3>3. PICK v \in workers : v.of = p
      BY <1>1, <1>16, <3>1, <3>2 DEF WorkersDriving
    <3> QED BY <1>11, <2>2, <3>3
  <2> QED BY <2>1, <2>2
<1>17. WorkersDriving'
  BY <1>14, <1>15, <1>16 DEF WorkersDriving
<1>18. TableOK'
  <2>1. held => objects' # <<>>
    BY <1>2, <1>7
  <2>2. ASSUME held, refresh' \in {"stale", "start"}
        PROVE  objects'[Len(objects')].generation = 0
    <3>1. objects[Len(objects)].generation = 0 /\ s.generation # 0
      BY <1>1, <2>2 DEF TableOK
    <3>2. Len(objects) # o /\ Len(objects) \in DOMAIN objects
      BY <1>1, <1>2, <2>2, <3>1 DEF TableOK
    <3> QED BY <1>7, <3>1, <3>2
  <2> QED BY <1>1, <2>1, <2>2 DEF TableOK
<1> QED BY <1>7, <1>9, <1>17, <1>18

\* No goroutine is behind a path session that has not started.
LEMMA NotStarted ==
  ASSUME DrivenInv, NEW o, o \in DOMAIN objects => objects[o].generation = 0
  PROVE  \A v \in workers : v.of # o
BY DriverFacts

LEMMA RefreshStartsDrives ==
  ASSUME DrivenInv, RefreshStarts
  PROVE  SessionsDriven' /\ WorkersDriving' /\ TableOK' /\ DOMAIN objects' = DOMAIN objects
<1> DEFINE o == Len(objects)
<1>1. SessionsDriven /\ WorkersDriving /\ TableOK
  BY InvForms
<1>2. UNCHANGED <<path, seen, available, held, control>> /\ refresh = "start" /\ refresh' = "idle"
  BY DEF RefreshStarts, manager
<1>3. CASE held /\ MayDial(o)
  <2>1. o \in DOMAIN objects /\ objects[o].generation = 0
    BY <1>1, <1>2, <1>3 DEF TableOK, SessionsDriven
  <2>2. workers = {v \in workers : v.of # o}
    BY <2>1, NotStarted
  <2>3. /\ Set(o, Dialing(o))
        /\ workers' = workers \cup {Worker(o, objects'[o].generation, "spawnDial")}
    BY <1>3 DEF RefreshStarts
  <2> HIDE DEF o
  <2> QED BY <1>2, <1>3, <2>1, <2>2, <2>3, DialStarts
<1>4. CASE ~(held /\ MayDial(o))
  <2>1. UNCHANGED <<objects, workers>>
    BY <1>4 DEF RefreshStarts
  <2>2. Refused' = Refused
    BY <1>2 DEF Refused, control
  <2>3. SessionsDriven' /\ WorkersDriving'
    BY <1>1, <2>1, <2>2 DEF SessionsDriven, WorkersDriving
  <2> QED BY <1>1, <1>2, <2>1, <2>3 DEF TableOK
<1> QED BY <1>3, <1>4

LEMMA ReconcileDrives ==
  ASSUME DrivenInv, NEW w \in workers, Reconcile(w)
  PROVE  SessionsDriven' /\ WorkersDriving' /\ TableOK' /\ DOMAIN objects' = DOMAIN objects
<1> DEFINE s == objects[w.of]
<1>1. /\ w.at = "reconcile" /\ s \in Session /\ SessionOK(s) /\ FlagsOK(w, s)
      /\ w.generation = s.generation /\ w.generation # 0 /\ w.of \in DOMAIN objects
      /\ UNCHANGED <<path, seen, available, held, control, refresh>>
      /\ UNCHANGED <<table, control>>
  BY DriverFacts DEF Reconcile, table, manager
<1>2. CASE MayDial(w.of)
  <2>1. workers \ {w} = {v \in workers : v.of # w.of}
    BY InvForms DEF WorkersDriving
  <2>2. /\ Set(w.of, Dialing(w.of))
        /\ workers' = (workers \ {w}) \cup {Worker(w.of, objects'[w.of].generation, "spawnDial")}
    BY <1>2 DEF Reconcile
  <2> QED BY <1>1, <1>2, <2>1, <2>2, DialStarts
<1>3. CASE ~MayDial(w.of)
  <2>1. s.closed
    BY <1>1, <1>3 DEF MayDial, FlagsOK
  <2>2. Driving(w)
    BY <1>3, <2>1, OnlyMoves DEF Reconcile
  <2> QED BY <1>1, <2>2, DrivesStep DEF Driving
<1> QED BY <1>2, <1>3

\* Every step of a goroutine keeps the path sessions driven.
LEMMA StepDrives ==
  ASSUME DrivenInv, NEW w \in workers, Step(w)
  PROVE  /\ SessionsDriven' /\ WorkersDriving' /\ TableOK' /\ DOMAIN objects' = DOMAIN objects
         /\ UNCHANGED control
<1>1. CASE Reconcile(w)
  BY <1>1, ReconcileDrives DEF Reconcile
<1>2. CASE ~Reconcile(w)
  <2>1. Driving(w)
    BY <1>2, SpawnDialDrives, DialDrives, CommitDrives, ServedDrives, RetryDrives,
       SpawnWaitDrives, WaitEndsDrives, WokenDrives DEF Step
  <2>2. UNCHANGED <<table, control>>
    BY <1>2 DEF Step, SpawnDial, DialFails, DialSucceeds, Commit, Served, Retry, SpawnWait,
         WaitEnds, Woken
  <2> QED BY <2>1, <2>2, DrivesStep DEF Driving
<1> QED BY <1>1, <1>2
-----------------------------------------------------------------------------
(* The refresh and the shutdown.                                           *)

\* A path session is closed; nobody else is disturbed.
LEMMA CloseDrives ==
  ASSUME DrivenInv, NEW o \in DOMAIN objects, Set(o, Closed(o)),
         UNCHANGED <<workers, path, seen, available, held, control>>,
         refresh' \in {refresh, "start"},
         refresh' = refresh \/ refresh = "stale"
  PROVE  SessionsDriven' /\ WorkersDriving' /\ TableOK' /\ DOMAIN objects' = DOMAIN objects
<1> DEFINE s == objects[o]
<1>1. SessionsDriven /\ WorkersDriving /\ TableOK
  BY InvForms
<1>2. objects \in Seq(Session) /\ s \in Session /\ SessionOK(s)
  BY <1>1, ObjectTypes DEF SessionsDriven
<1>3. PICK r : r = Closed(o)
  OBVIOUS
<1>4. /\ r \in Session /\ r.closed = TRUE /\ r.session = 0
      /\ r.generation = s.generation /\ r.retryCount = s.retryCount
  BY <1>2, <1>3 DEF Session, Closed
<1>5. /\ objects' \in Seq(Session) /\ DOMAIN objects' = DOMAIN objects
      /\ Len(objects') = Len(objects)
      /\ \A p \in DOMAIN objects : objects'[p] = IF p = o THEN r ELSE objects[p]
  BY <1>2, <1>3, <1>4, ElementSet DEF Set
<1>6. \A p \in DOMAIN objects : objects'[p].generation = objects[p].generation
  BY <1>4, <1>5
<1>7. SessionsDriven'
  BY <1>1, <1>2, <1>4, <1>5 DEF SessionsDriven, SessionOK
<1>8. WorkersDriving'
  <2>1. ASSUME NEW w \in workers
        PROVE  /\ w = Worker(w.of, w.generation, w.at) /\ w.generation \in Nat \ {0}
               /\ w.of \in DOMAIN objects' /\ w.generation = objects'[w.of].generation
               /\ FlagsOK(w, objects'[w.of])
    <3>1. /\ w = Worker(w.of, w.generation, w.at) /\ w.generation \in Nat \ {0}
          /\ w.of \in DOMAIN objects /\ w.generation = objects[w.of].generation
          /\ FlagsOK(w, objects[w.of])
      BY <1>1 DEF WorkersDriving
    <3>2. FlagsOK(w, objects'[w.of])
      BY <1>4, <1>5, <3>1 DEF FlagsOK
    <3> QED BY <1>5, <1>6, <3>1, <3>2
  <2>2. ASSUME ~Refused', NEW p \in DOMAIN objects', ~objects'[p].closed,
               objects'[p].generation > 0
        PROVE  \E w \in workers : w.of = p
    <3>1. ~Refused /\ p # o
      BY <1>4, <1>5, <2>2 DEF Refused, control
    <3>2. p \in DOMAIN objects /\ objects'[p] = objects[p]
      BY <1>5, <3>1
    <3> QED BY <1>1, <2>2, <3>1, <3>2 DEF WorkersDriving
  <2>3. \A w, v \in workers : w.of = v.of => w = v
    BY <1>1 DEF WorkersDriving
  <2> QED BY <2>1, <2>2, <2>3 DEF WorkersDriving
<1>9. TableOK'
  <2>1. held => Len(objects) \in DOMAIN objects
    BY <1>1, <1>2 DEF TableOK
  <2>2. held => objects' # <<>>
    BY <1>5, <2>1
  <2> QED BY <1>1, <1>5, <1>6, <2>1, <2>2 DEF TableOK
<1> QED BY <1>5, <1>7, <1>8, <1>9

LEMMA AppendedElement ==
  ASSUME NEW S, NEW q \in Seq(S), NEW e \in S
  PROVE  LET z == Append(q, e)
         IN /\ z \in Seq(S) /\ z # <<>> /\ Len(z) = Len(q) + 1 /\ z[Len(z)] = e
            /\ DOMAIN z = DOMAIN q \cup {Len(q) + 1} /\ Len(q) + 1 \notin DOMAIN q
            /\ \A p \in DOMAIN q : z[p] = q[p]
OBVIOUS

\* The new path session has no goroutine yet; the refresh will start one.
LEMMA RefreshDrives ==
  ASSUME DrivenInv, Refresh
  PROVE  /\ SessionsDriven' /\ WorkersDriving' /\ TableOK'
         /\ DOMAIN objects \subseteq DOMAIN objects'
         /\ \A p \in DOMAIN objects : objects'[p] = objects[p]
<1>1. SessionsDriven /\ WorkersDriving /\ TableOK
  BY InvForms
<1>2. UNCHANGED <<seen, available, workers, closing, cancelled>> /\ refresh = "read"
  BY DEF Refresh, manager, control
<1>3. CASE Refused
  <2>1. UNCHANGED <<path, objects, held>> /\ refresh' = "idle"
    BY <1>3 DEF Refresh
  <2>2. SessionsDriven' /\ WorkersDriving'
    BY <1>1, <1>2, <2>1 DEF SessionsDriven, WorkersDriving, Refused
  <2> QED BY <1>1, <1>2, <2>1, <2>2 DEF TableOK
<1>4. CASE ~Refused /\ seen = NoPath
  <2>1. UNCHANGED objects /\ path' = seen /\ held' = FALSE
    BY <1>4 DEF Refresh
  <2>2. SessionsDriven' /\ WorkersDriving'
    BY <1>1, <1>2, <2>1 DEF SessionsDriven, WorkersDriving, Refused
  <2> QED BY <1>1, <1>2, <1>4, <2>1, <2>2 DEF TableOK
<1>5. CASE ~Refused /\ seen # NoPath
  <2>1. objects' = Append(objects, Fresh(seen)) /\ path' = seen /\ held' = TRUE
    BY <1>5 DEF Refresh
  <2>2. PICK e : e = Fresh(seen)
    OBVIOUS
  <2>3. seen \in Path
    BY <1>1, <1>5 DEF TableOK
  <2>4. /\ e \in Session /\ SessionOK(e) /\ e.generation = 0
    BY <2>2, <2>3 DEF Fresh, Session, SessionOK
  <2>5. /\ objects' \in Seq(Session) /\ objects' # <<>> /\ objects'[Len(objects')] = e
        /\ DOMAIN objects' = DOMAIN objects \cup {Len(objects) + 1}
        /\ Len(objects) + 1 \notin DOMAIN objects /\ Len(objects') = Len(objects) + 1
        /\ \A p \in DOMAIN objects : objects'[p] = objects[p]
    BY <1>1, <2>1, <2>2, <2>4, AppendedElement DEF SessionsDriven
  <2>6. \A p \in DOMAIN objects' : p \in DOMAIN objects \/ objects'[p] = e
    BY <2>5
  <2>7. SessionsDriven'
    BY <1>1, <2>4, <2>5, <2>6 DEF SessionsDriven
  <2>8. WorkersDriving'
    <3>1. \A w \in workers :
            /\ w = Worker(w.of, w.generation, w.at) /\ w.generation \in Nat \ {0}
            /\ w.of \in DOMAIN objects' /\ w.generation = objects'[w.of].generation
            /\ FlagsOK(w, objects'[w.of])
      BY <1>1, <2>5 DEF WorkersDriving
    <3>2. ASSUME ~Refused', NEW p \in DOMAIN objects', ~objects'[p].closed,
                 objects'[p].generation > 0
          PROVE  \E w \in workers : w.of = p
      <4>1. p \in DOMAIN objects /\ objects'[p] = objects[p]
        BY <2>4, <2>5, <2>6, <3>2
      <4> QED BY <1>1, <1>5, <3>2, <4>1 DEF WorkersDriving
    <3>3. \A w, v \in workers : w.of = v.of => w = v
      BY <1>1 DEF WorkersDriving
    <3> QED BY <1>2, <3>1, <3>2, <3>3 DEF WorkersDriving
  <2>9. TableOK'
    BY <1>1, <1>2, <1>5, <2>1, <2>4, <2>5 DEF TableOK
  <2> QED BY <2>5, <2>7, <2>8, <2>9
<1> QED BY <1>3, <1>4, <1>5

\* A step that changes neither the path sessions nor their goroutines.
LEMMA OthersDrive ==
  ASSUME DrivenInv, UNCHANGED <<path, held, objects, workers>>,
         {seen', available'} \subseteq Path \cup {NoPath},
         refresh' \in {refresh, "read"},
         Refused => Refused'
  PROVE  SessionsDriven' /\ WorkersDriving' /\ TableOK'
<1>1. SessionsDriven /\ WorkersDriving /\ TableOK
  BY InvForms
<1> QED BY <1>1 DEF SessionsDriven, WorkersDriving, TableOK

LEMMA RefresherDrives ==
  ASSUME DrivenInv, Refresher
  PROVE  /\ SessionsDriven' /\ WorkersDriving' /\ TableOK'
         /\ DOMAIN objects \subseteq DOMAIN objects'
<1>1. ASSUME Tick
      PROVE  SessionsDriven' /\ WorkersDriving' /\ TableOK' /\ UNCHANGED objects
  <2>1. seen' \in Path \cup {NoPath} /\ available' \in Path \cup {NoPath}
    BY <1>1, InvForms DEF Tick, Wanted, manager, TableOK
  <2> QED BY <1>1, <2>1, OthersDrive DEF Tick, Refused, control
<1>2. ASSUME NEW o \in DOMAIN objects, CloseStale(o)
      PROVE  SessionsDriven' /\ WorkersDriving' /\ TableOK' /\ DOMAIN objects' = DOMAIN objects
  <2>1. /\ Set(o, Closed(o)) /\ UNCHANGED <<workers, path, seen, available, held, control>>
        /\ refresh = "stale" /\ refresh' = "start"
    BY <1>2 DEF CloseStale, manager
  <2> QED BY <2>1, CloseDrives
<1> QED BY <1>1, <1>2, RefreshDrives, RefreshStartsDrives DEF Refresher

LEMMA ShutdownDrives ==
  ASSUME DrivenInv, ShutdownCloses
  PROVE  SessionsDriven' /\ WorkersDriving' /\ TableOK' /\ DOMAIN objects' = DOMAIN objects
<1> DEFINE o == Len(objects)
<1>1. SessionsDriven /\ TableOK /\ held
  BY InvForms DEF ShutdownCloses
<1>2. o \in DOMAIN objects
  BY <1>1 DEF SessionsDriven, TableOK
<1>3. Set(o, Closed(o)) /\ UNCHANGED <<workers, path, seen, available, held, control, refresh>>
  BY DEF ShutdownCloses, table, manager
<1> HIDE DEF o
<1> QED BY <1>2, <1>3, CloseDrives

LEMMA InterfaceDrives ==
  ASSUME DrivenInv,
         \/ Command \/ Cancel \/ ShutdownBegins \/ UNCHANGED vars
         \/ \E p \in Path \cup {NoPath} : InterfaceChanges(p)
         \/ \E s \in live : SessionEnds(s)
  PROVE  SessionsDriven' /\ WorkersDriving' /\ TableOK' /\ UNCHANGED objects
<1>1. UNCHANGED <<path, held, objects, workers, seen, refresh>>
  BY DEF Command, ToggleExclusion, Include, Exclude, ResetExclusions, Swap, Cancel,
         ShutdownBegins, vars, table, InterfaceChanges, SessionEnds
<1>2. {seen', available'} \subseteq Path \cup {NoPath}
  <2>1. available' \in Path \cup {NoPath}
    BY InvForms DEF TableOK, Command, ToggleExclusion, Include, Exclude, ResetExclusions, Swap,
         Cancel, ShutdownBegins, vars, table, manager, InterfaceChanges, SessionEnds
  <2> QED BY <1>1, <2>1, InvForms DEF TableOK
<1>3. Refused => Refused'
  BY DEF Refused, control, Command, ToggleExclusion, Include, Exclude, ResetExclusions, Swap,
         Cancel, ShutdownBegins, vars, InterfaceChanges, SessionEnds
<1> QED BY <1>1, <1>2, <1>3, OthersDrive

-----------------------------------------------------------------------------
(* The invariant.                                                          *)

\* What a step does to the physical sessions.
LEMMA StepLive ==
  ASSUME NEW w, Step(w)
  PROVE  live' \subseteq live \cup {Its(w)}
BY DEF Step, SpawnDial, DialFails, DialSucceeds, Commit, Served, Retry, SpawnWait, WaitEnds,
       Woken, Reconcile

LEMMA OtherLive ==
  ASSUME \/ Refresher \/ Shutdown \/ Command \/ Cancel \/ ShutdownBegins \/ UNCHANGED vars
         \/ \E p \in Path \cup {NoPath} : InterfaceChanges(p)
         \/ \E s \in live : SessionEnds(s)
  PROVE  live' \subseteq live
BY DEF Refresher, Tick, Refresh, CloseStale, RefreshStarts, Shutdown, ShutdownCloses, Command,
       ToggleExclusion, Include, Exclude, ResetExclusions, Swap, Cancel, ShutdownBegins, vars,
       InterfaceChanges, SessionEnds

LEMMA DrivenInvInit ==
  Init => DrivenInv
<1> SUFFICES ASSUME Init PROVE DrivenInv
  OBVIOUS
<1>1. objects = <<>> /\ workers = {} /\ live = {} /\ held = FALSE
  BY DEF Init
<1>2. SessionsDriven /\ WorkersDriving /\ LiveOK
  BY <1>1 DEF SessionsDriven, WorkersDriving, LiveOK
<1>3. TableOK
  BY <1>1 DEF Init, TableOK
<1> QED BY <1>2, <1>3, FormsInv

LEMMA FormsInvNext ==
  SessionsDriven' /\ WorkersDriving' /\ TableOK' /\ LiveOK' => DrivenInv'
BY FormsInv, PTL

LEMMA DrivenInvStep ==
  DrivenInv /\ [Next]_vars => DrivenInv'
<1> SUFFICES ASSUME DrivenInv, [Next]_vars PROVE DrivenInv'
  OBVIOUS
<1>1. LiveOK
  BY InvForms
<1>2. ASSUME NEW w \in workers, Step(w)
      PROVE  DrivenInv'
  <2>1. /\ SessionsDriven' /\ WorkersDriving' /\ TableOK'
        /\ DOMAIN objects' = DOMAIN objects
    BY <1>2, StepDrives
  <2>2. Its(w) \in (DOMAIN objects) \X (Nat \ {0})
    BY DriverFacts DEF Its
  <2>3. LiveOK'
    BY <1>1, <1>2, <2>1, <2>2, StepLive DEF LiveOK
  <2> QED BY <2>1, <2>3, FormsInvNext
<1>3. ASSUME SessionsDriven', WorkersDriving', TableOK', DOMAIN objects \subseteq DOMAIN objects',
             live' \subseteq live
      PROVE  DrivenInv'
  BY <1>1, <1>3, FormsInvNext DEF LiveOK
<1>4. CASE Refresher
  BY <1>3, <1>4, RefresherDrives, OtherLive
<1>5. CASE ShutdownCloses
  BY <1>3, <1>5, ShutdownDrives, OtherLive DEF Shutdown
<1>6. CASE \/ Command \/ Cancel \/ ShutdownBegins \/ UNCHANGED vars
           \/ \E p \in Path \cup {NoPath} : InterfaceChanges(p)
           \/ \E s \in live : SessionEnds(s)
  BY <1>3, <1>6, InterfaceDrives, OtherLive
<1> QED BY <1>2, <1>4, <1>5, <1>6 DEF Next, Shutdown

\* Whatever the order of refresh, dials, failures, retries and commands: at
\* most one goroutine drives a path session, exactly one while it is open and
\* the runtime has not stopped, and inFlight, retrying and session say where
\* it is (refreshCarrierGroups, reconcile, dial, retry, waitToRetry).
LEMMA DrivenInvariance == Spec => []DrivenInv
<1>1. Init => DrivenInv
  BY DrivenInvInit
<1>2. DrivenInv /\ [Next]_vars => DrivenInv'
  BY DrivenInvStep
<1> QED BY <1>1, <1>2, PTL DEF Spec

-----------------------------------------------------------------------------
(* No physical session is left without an owner.                           *)

Owned(s) ==
  \/ ~objects[s[1]].closed /\ objects[s[1]].session = s[2]
  \/ \E w \in workers : Its(w) = s /\ w.at = "commit"

EachOwned == \A s \in live : Owned(s)

\* A physical session is named after the attempt that its path session
\* counted last, and so it has no double.
LEMMA OwnedOnce ==
  ASSUME DrivenInv, EachOwned
  PROVE  NoOrphanSession
<1>1. ASSUME NEW s \in live
      PROVE  s = <<s[1], s[2]>> /\ s[2] = objects[s[1]].generation
  <2>1. s = <<s[1], s[2]>> /\ s[1] \in DOMAIN objects /\ s[2] \in Nat \ {0}
    BY InvForms DEF LiveOK
  <2>2. CASE objects[s[1]].session = s[2]
    BY <2>1, <2>2, InvForms DEF SessionsDriven, SessionOK
  <2>3. ASSUME NEW w \in workers, Its(w) = s
        PROVE  s[2] = objects[s[1]].generation
    <3>1. s[1] = w.of /\ s[2] = w.generation
      BY <2>3 DEF Its
    <3> QED BY <3>1, DriverFacts
  <2> QED BY <2>1, <2>2, <2>3 DEF EachOwned, Owned
<1>2. \A s, t \in live : s[1] = t[1] => s = t
  BY <1>1
<1> QED BY <1>2 DEF EachOwned, Owned, NoOrphanSession

\* The goroutine of a path session that has a physical session serves it or
\* is about to look at it.
LEMMA LiveDriver ==
  ASSUME DrivenInv, EachOwned, NEW w \in workers, NEW s \in live, s[1] = w.of
  PROVE  /\ s = Its(w)
         /\ \/ w.at = "serve" /\ ~objects[w.of].closed
            \/ w.at = "commit"
<1>1. s = <<s[1], s[2]>> /\ s[2] \in Nat \ {0}
  BY InvForms DEF LiveOK
<1>2. ASSUME ~objects[w.of].closed, objects[w.of].session = s[2]
      PROVE  w.at = "serve" /\ s[2] = w.generation
  BY <1>1, <1>2, DriverFacts DEF FlagsOK, SessionOK
<1>3. ASSUME NEW v \in workers, Its(v) = s
      PROVE  v = w
  <2>1. v.of = w.of
    BY <1>3 DEF Its
  <2> QED BY <2>1, InvForms DEF WorkersDriving
<1>4. CASE ~objects[s[1]].closed /\ objects[s[1]].session = s[2]
  BY <1>1, <1>2, <1>4 DEF Its
<1>5. CASE \E v \in workers : Its(v) = s /\ v.at = "commit"
  BY <1>3, <1>5
<1> QED BY <1>4, <1>5 DEF EachOwned, Owned

\* A step of the goroutine of another path session takes no owner away.
LEMMA OthersOwned ==
  ASSUME DrivenInv, NEW w \in workers, Step(w), NEW s \in live, s[1] # w.of, Owned(s)
  PROVE  Owned(s)'
<1>1. objects \in Seq(Session) /\ s[1] \in DOMAIN objects
  BY SMTT(30), InvForms DEF SessionsDriven, LiveOK
<1>2. objects'[s[1]] = objects[s[1]]
  BY <1>1, DriverFacts DEF Step, SpawnDial, DialFails, DialSucceeds, Commit, Served, Retry,
     SpawnWait, WaitEnds, Woken, Reconcile, Set
<1>3. workers \ {w} \subseteq workers'
  BY DEF Step, SpawnDial, DialFails, DialSucceeds, Commit, Served, Retry, SpawnWait, WaitEnds,
         Woken, Reconcile, Goto, Exit
<1>4. ASSUME NEW v \in workers, Its(v) = s, v.at = "commit"
      PROVE  v \in workers'
  <2>1. v.of # w.of
    BY <1>4 DEF Its
  <2> QED BY <1>3, <2>1
<1> QED BY <1>2, <1>4 DEF Owned

\* Its own is the goroutine's, or named by its path session.
LEMMA OwnOwned ==
  ASSUME DrivenInv, EachOwned, NEW w \in workers, Step(w), NEW s \in live', s[1] = w.of
  PROVE  Owned(s)'
<1>1. w.of \in DOMAIN objects /\ objects \in Seq(Session)
  BY DriverFacts
<1>2. CASE DialSucceeds(w)
  <2>1. s = Its(w)
    BY <1>2, LiveDriver DEF DialSucceeds
  <2>2. workers' = (workers \ {w}) \cup {Worker(w.of, w.generation, "commit")}
    BY <1>2, GotoForm DEF DialSucceeds
  <2>3. Its(Worker(w.of, w.generation, "commit")) = Its(w)
        /\ Worker(w.of, w.generation, "commit").at = "commit"
    BY DEF Its, Worker
  <2> QED BY <2>1, <2>2, <2>3 DEF Owned, Its
<1>3. CASE ~DialSucceeds(w)
  <2>1. s \in live
    BY <1>3 DEF Step, SpawnDial, DialFails, Commit, Served, Retry, SpawnWait, WaitEnds, Woken,
                Reconcile
  <2>2. /\ s = Its(w)
        /\ \/ w.at = "serve" /\ ~objects[w.of].closed
           \/ w.at = "commit"
    BY <2>1, LiveDriver
  <2>3. \A stable \in BOOLEAN : ~Served(w, stable)
    BY <2>1, <2>2 DEF Served
  <2>4. Commit(w)
    BY <1>3, <2>2, <2>3 DEF Step, SpawnDial, DialFails, Retry, SpawnWait, WaitEnds, Woken,
                            Reconcile
  <2>5. ~Overtaken(w)
    BY <2>2, <2>4 DEF Commit
  <2>6. ~objects[w.of].closed
    BY <2>5 DEF Overtaken
  <2>7. objects[w.of] \in Session
    BY DriverFacts
  <2>8. PICK r : r = [objects[w.of] EXCEPT !.session = w.generation, !.inFlight = FALSE,
                                           !.retrying = FALSE]
    OBVIOUS
  <2>9. r.closed = objects[w.of].closed /\ r.session = w.generation
    BY <2>7, <2>8 DEF Session
  <2>10. objects' = [objects EXCEPT ![w.of] = r]
    BY <2>4, <2>5, <2>8 DEF Commit, Set
  <2>11. objects'[w.of] = r
    BY <1>1, <2>10
  <2>12. s[1] = w.of /\ s[2] = w.generation
    BY <2>2 DEF Its
  <2> QED BY <2>6, <2>9, <2>11, <2>12 DEF Owned
<1> QED BY <1>2, <1>3

\* The refresh and the shutdown close the physical session of the path
\* session that they close; a new one has none.
LEMMA RefresherOwned ==
  ASSUME DrivenInv, EachOwned, Refresher \/ ShutdownCloses, NEW s \in live'
  PROVE  Owned(s)'
<1>1. objects \in Seq(Session)
  BY InvForms DEF SessionsDriven
<1>2. s \in live
  BY OtherLive DEF Shutdown
<1>3. s[1] \in DOMAIN objects /\ s[2] \in Nat \ {0} /\ Owned(s)
  BY <1>2, InvForms DEF LiveOK, EachOwned
<1>4. workers \subseteq workers'
  BY DEF Refresher, Tick, Refresh, CloseStale, RefreshStarts, ShutdownCloses
<1>5. CASE objects'[s[1]] = objects[s[1]]
  BY <1>3, <1>4, <1>5 DEF Owned
<1>6. ASSUME NEW o, Set(o, Closed(o)), live' = live \ Unserved(o)
      PROVE  Owned(s)'
  <2>1. CASE s[1] # o
    <3>1. objects'[s[1]] = objects[s[1]]
      BY <1>1, <1>3, <1>6, <2>1 DEF Set
    <3> QED BY <1>5, <3>1
  <2>2. CASE s[1] = o
    <3>1. objects[s[1]].session # s[2]
      BY <1>2, <1>6, <2>2 DEF Unserved
    <3>2. \E w \in workers : Its(w) = s /\ w.at = "commit"
      BY <1>3, <3>1 DEF Owned
    <3> QED BY <1>4, <3>2 DEF Owned, Its
  <2> QED BY <2>1, <2>2
<1>7. ASSUME RefreshStarts
      PROVE  Owned(s)'
  <2>1. CASE objects' = objects
    BY <1>5, <2>1
  <2>2. CASE objects' # objects
    <3>1. MayDial(Len(objects)) /\ Set(Len(objects), Dialing(Len(objects)))
      BY <1>7, <2>2 DEF RefreshStarts
    <3>2. CASE s[1] # Len(objects)
      <4>1. objects'[s[1]] = objects[s[1]]
        BY <1>1, <1>3, <3>1, <3>2 DEF Set
      <4> QED BY <1>5, <4>1
    <3>3. CASE s[1] = Len(objects)
      <4>1. objects[s[1]].session # s[2]
        BY <1>3, <3>1, <3>3 DEF MayDial
      <4>2. \E w \in workers : Its(w) = s /\ w.at = "commit"
        BY <1>3, <4>1 DEF Owned
      <4> QED BY <1>4, <4>2 DEF Owned, Its
    <3> QED BY <3>2, <3>3
  <2> QED BY <2>1, <2>2
<1>8. CASE Tick
  BY <1>5, <1>8 DEF Tick
<1>9. CASE Refresh
  BY <1>3, <1>5, <1>9, RefreshDrives
<1> QED BY <1>6, <1>7, <1>8, <1>9 DEF Refresher, CloseStale, ShutdownCloses

LEMMA OwnedStep ==
  DrivenInv /\ EachOwned /\ [Next]_vars => EachOwned'
<1> SUFFICES ASSUME DrivenInv, EachOwned, [Next]_vars, NEW s \in live' PROVE Owned(s)'
  BY DEF EachOwned, Owned
<1>1. ASSUME NEW w \in workers, Step(w)
      PROVE  Owned(s)'
  <2>1. CASE s[1] = w.of
    BY <1>1, <2>1, OwnOwned
  <2>2. CASE s[1] # w.of
    <3>1. Its(w)[1] = w.of
      BY DEF Its
    <3>2. s \in live /\ Owned(s)
      BY <1>1, <2>2, <3>1, StepLive DEF EachOwned
    <3> QED BY <1>1, <2>2, <3>2, OthersOwned
  <2> QED BY <2>1, <2>2
<1>2. CASE Refresher \/ ShutdownCloses
  BY <1>2, RefresherOwned
<1>3. CASE \/ Command \/ Cancel \/ ShutdownBegins \/ UNCHANGED vars
           \/ \E p \in Path \cup {NoPath} : InterfaceChanges(p)
           \/ \E t \in live : SessionEnds(t)
  <2>1. s \in live /\ UNCHANGED objects
    BY <1>3, OtherLive, InterfaceDrives
  <2>2. UNCHANGED workers
    BY <1>3 DEF Command, ToggleExclusion, Include, Exclude, ResetExclusions, Swap, Cancel,
         ShutdownBegins, vars, InterfaceChanges, SessionEnds
  <2> QED BY <2>1, <2>2 DEF EachOwned, Owned
<1> QED BY <1>1, <1>2, <1>3 DEF Next, Shutdown

\* No physical session leaks: whatever is dialed while the path session is
\* closed, replaced or shut down is either named by an open path session or
\* still in the hands of the goroutine that will keep or close it, and a path
\* never has two (dial, close, refreshCarrierGroups, shutdown).
THEOREM NoSessionOrphaned == Spec => []NoOrphanSession
<1>1. Init => EachOwned
  BY DEF Init, EachOwned
<1>2. DrivenInv /\ EachOwned /\ [Next]_vars => EachOwned'
  BY OwnedStep
<1>3. DrivenInv /\ EachOwned => NoOrphanSession
  BY OwnedOnce
<1> QED BY <1>1, <1>2, <1>3, DrivenInvariance, PTL DEF Spec
-----------------------------------------------------------------------------
(* The delays: functions defined by recursion over the natural numbers.    *)

\* A set with 0 and every successor of its numbers has every number.
LEMMA EveryNumber ==
  ASSUME NEW T, 0 \in T, \A n \in Nat : n \in T => n + 1 \in T
  PROVE  Nat \subseteq T
<1> SUFFICES ASSUME Nat \ T # {} PROVE FALSE
  OBVIOUS
<1> DEFINE Below == {0 .. x : x \in Nat \ T}
<1>1. Below \subseteq FiniteSubsetsOf(Nat) /\ Below # {}
  <2>1. ASSUME NEW x \in Nat
        PROVE  0 .. x \in FiniteSubsetsOf(Nat)
    <3>1. x \in Int /\ 0 .. x \subseteq Nat
      OBVIOUS
    <3>2. IsFiniteSet(0 .. x)
      BY <3>1, FS_Interval
    <3> QED BY <3>1, <3>2 DEF FiniteSubsetsOf
  <2> QED BY <2>1
<1>2. \E B \in Below : \A C \in Below : ~(<<C, B>> \in StrictSubsetOrdering(Nat))
  <2> HIDE DEF Below
  <2> QED BY <1>1, FS_StrictSubsetOrderingWellFounded, WFMin
<1>3. PICK x \in Nat \ T : \A C \in Below : ~(<<C, 0 .. x>> \in StrictSubsetOrdering(Nat))
  BY <1>2
<1>4. x - 1 \in Nat \ T /\ x \in Nat
  BY <1>3
<1>5. /\ 0 .. (x - 1) \in SUBSET Nat /\ 0 .. x \in SUBSET Nat
      /\ 0 .. (x - 1) \subseteq 0 .. x /\ 0 .. (x - 1) # 0 .. x
  <2>1. x \in 0 .. x /\ x \notin 0 .. (x - 1)
    BY <1>4
  <2> QED BY <1>4, <2>1
<1>6. <<0 .. (x - 1), 0 .. x>> \in StrictSubsetOrdering(Nat)
  BY <1>5 DEF StrictSubsetOrdering
<1> QED BY <1>3, <1>4, <1>6

\* From a and g there is the function with f[0] = a and f[n] = g[f[n - 1]].
LEMMA RecursionExists ==
  ASSUME NEW a \in Nat, NEW g \in [Nat -> Nat]
  PROVE  \E f \in [Nat -> Nat] : f[0] = a /\ \A n \in Nat : f[n + 1] = g[f[n]]
<1> DEFINE Upto(n, h) == /\ h \in [0 .. n -> Nat] /\ h[0] = a
                         /\ \A i \in Nat : i < n => h[i + 1] = g[h[i]]
           T == {n \in Nat : \E h : Upto(n, h)}
<1>1. 0 \in T
  <2>1. Upto(0, [i \in 0 .. 0 |-> a])
    OBVIOUS
  <2> QED BY <2>1
<1>2. ASSUME NEW n \in Nat, n \in T
      PROVE  n + 1 \in T
  <2>1. PICK h : Upto(n, h)
    BY <1>2
  <2>2. PICK k : k = [i \in 0 .. n + 1 |-> IF i = n + 1 THEN g[h[n]] ELSE h[i]]
    OBVIOUS
  <2>3. h[n] \in Nat /\ g[h[n]] \in Nat
    BY <2>1
  <2>4. \A i \in Nat : i <= n => k[i] = h[i]
    BY <2>2
  <2>5. k \in [0 .. n + 1 -> Nat] /\ k[0] = a /\ k[n + 1] = g[h[n]]
    <3>1. ASSUME NEW i \in 0 .. n + 1
          PROVE  (IF i = n + 1 THEN g[h[n]] ELSE h[i]) \in Nat
      <4>1. CASE i = n + 1
        BY <2>3, <4>1
      <4>2. CASE i # n + 1
        <5>1. i \in 0 .. n
          BY <1>2, <4>2
        <5>2. h[i] \in Nat
          BY <2>1, <5>1
        <5> QED BY <4>2, <5>2
      <4> QED BY <4>1, <4>2
    <3>2. k \in [0 .. n + 1 -> Nat]
      BY <2>2, <3>1
    <3>3. k[n + 1] = g[h[n]]
      BY <2>2
    <3>4. k[0] = h[0] /\ h[0] = a
      <4>1. 0 \in Nat /\ 0 <= n
        OBVIOUS
      <4> QED BY <2>1, <2>4, <4>1
    <3> QED BY <3>2, <3>3, <3>4
  <2>6. ASSUME NEW i \in Nat, i < n + 1
        PROVE  k[i + 1] = g[k[i]]
    <3>1. k[i] = h[i]
      BY <2>4, <2>6
    <3>2. CASE i = n
      BY <2>5, <3>1, <3>2
    <3>3. CASE i # n
      <4>1. i < n /\ i + 1 \in Nat /\ i + 1 <= n
        BY <2>6, <3>3
      <4>2. k[i + 1] = h[i + 1] /\ h[i + 1] = g[h[i]]
        BY <2>1, <2>4, <4>1
      <4> QED BY <3>1, <4>2
    <3> QED BY <3>2, <3>3
  <2>7. Upto(n + 1, k)
    BY <2>5, <2>6
  <2> HIDE DEF Upto
  <2> QED BY <2>7
<1>3. Nat \subseteq T
  <2> HIDE DEF T
  <2> QED BY <1>1, <1>2, EveryNumber
<1>4. ASSUME NEW n \in Nat, NEW m \in Nat, NEW h, NEW k, Upto(n, h), Upto(m, k)
      PROVE  \A i \in Nat : i <= n /\ i <= m => h[i] = k[i]
  <2> DEFINE A == {i \in Nat : i <= n /\ i <= m => h[i] = k[i]}
  <2>1. 0 \in A
    BY <1>4
  <2>2. ASSUME NEW i \in Nat, i \in A
        PROVE  i + 1 \in A
    <3> SUFFICES ASSUME i + 1 <= n, i + 1 <= m PROVE h[i + 1] = k[i + 1]
      OBVIOUS
    <3>1. i < n /\ i < m /\ h[i] = k[i]
      BY <2>2
    <3> QED BY <1>4, <3>1
  <2>3. Nat \subseteq A
    <3> HIDE DEF A
    <3> QED BY <2>1, <2>2, EveryNumber
  <2> QED BY <2>3
<1> DEFINE H(n) == CHOOSE h : Upto(n, h)
<1>5. \A n \in Nat : Upto(n, H(n))
  <2> HIDE DEF Upto
  <2> QED BY <1>3
<1>6. PICK f : f = [n \in Nat |-> H(n)[n]]
  OBVIOUS
<1> HIDE DEF H
<1>7. \A n \in Nat : f[n] = H(n)[n] /\ f[n] \in Nat
  BY <1>5, <1>6
<1>8. f[0] = a
  BY <1>5, <1>7
<1>9. ASSUME NEW n \in Nat
      PROVE  f[n + 1] = g[f[n]]
  <2>1. Upto(n, H(n)) /\ Upto(n + 1, H(n + 1))
    BY <1>5
  <2>2. H(n + 1)[n] = H(n)[n]
    <3> HIDE DEF Upto
    <3> QED BY <1>4, <2>1
  <2>3. H(n + 1)[n + 1] = g[H(n + 1)[n]]
    BY <2>1
  <2> QED BY <1>7, <2>2, <2>3
<1>10. f \in [Nat -> Nat]
  BY <1>6, <1>7
<1> QED BY <1>8, <1>9, <1>10

DelayStep == [d \in Nat |-> IF d >= MaxDelay \div 2 THEN MaxDelay ELSE 2 * d]

LEMMA DelayFacts ==
  /\ RetryDelay \in [Nat -> Nat] /\ RetryDelay[0] = InitialDelay
  /\ \A n \in Nat : RetryDelay[n + 1] = IF RetryDelay[n] >= MaxDelay \div 2
                                        THEN MaxDelay ELSE 2 * RetryDelay[n]
<1> DEFINE Body(f) == [n \in Nat |-> IF n = 0 THEN InitialDelay
                                     ELSE IF f[n - 1] >= MaxDelay \div 2 THEN MaxDelay
                                                                         ELSE 2 * f[n - 1]]
<1>1. InitialDelay \in Nat /\ MaxDelay \in Nat /\ DelayStep \in [Nat -> Nat]
  BY PathAssumption DEF DelayStep
<1>2. PICK f \in [Nat -> Nat] : f[0] = InitialDelay /\ \A n \in Nat : f[n + 1] = DelayStep[f[n]]
  BY <1>1, RecursionExists
<1>3. ASSUME NEW n \in Nat
      PROVE  f[n] = IF n = 0 THEN InitialDelay
                    ELSE IF f[n - 1] >= MaxDelay \div 2 THEN MaxDelay ELSE 2 * f[n - 1]
  <2>1. CASE n = 0
    BY <1>2, <2>1
  <2>2. CASE n # 0
    <3>1. n - 1 \in Nat /\ (n - 1) + 1 = n
      BY <2>2
    <3>2. f[n] = DelayStep[f[n - 1]] /\ f[n - 1] \in Nat
      BY <1>2, <3>1
    <3> QED BY <2>2, <3>2 DEF DelayStep
  <2> QED BY <2>1, <2>2
<1>4. f = Body(f)
  BY <1>2, <1>3
<1>5. RetryDelay = CHOOSE h : h = Body(h)
  BY DEF RetryDelay
<1> HIDE DEF Body
<1>6. RetryDelay = Body(RetryDelay)
  BY <1>4, <1>5
<1> USE DEF Body
<1>7. RetryDelay[0] = InitialDelay
  BY <1>6
<1>8. ASSUME NEW n \in Nat
      PROVE  RetryDelay[n + 1] = IF RetryDelay[n] >= MaxDelay \div 2
                                 THEN MaxDelay ELSE 2 * RetryDelay[n]
  <2>1. n + 1 \in Nat /\ n + 1 # 0 /\ (n + 1) - 1 = n
    OBVIOUS
  <2> QED BY <1>6, <2>1
<1>9. \A n \in Nat : RetryDelay[n] \in Nat
  <2> DEFINE T == {n \in Nat : RetryDelay[n] \in Nat}
  <2>1. 0 \in T
    BY <1>1, <1>7
  <2>2. \A n \in Nat : n \in T => n + 1 \in T
    BY <1>1, <1>8
  <2>3. Nat \subseteq T
    <3> HIDE DEF T
    <3> QED BY <2>1, <2>2, EveryNumber
  <2> QED BY <2>3
<1>10. RetryDelay \in [Nat -> Nat]
  BY <1>6, <1>9
<1> QED BY <1>7, <1>8, <1>10

LEMMA DoubledFacts ==
  /\ Doubled \in [Nat -> Nat] /\ Doubled[0] = InitialDelay
  /\ \A n \in Nat : Doubled[n + 1] = 2 * Doubled[n]
<1> DEFINE Body(f) == [n \in Nat |-> IF n = 0 THEN InitialDelay ELSE 2 * f[n - 1]]
<1>1. InitialDelay \in Nat
  BY PathAssumption
<1>2. PICK f \in [Nat -> Nat] :
        f[0] = InitialDelay /\ \A n \in Nat : f[n + 1] = [d \in Nat |-> 2 * d][f[n]]
  <2>1. [d \in Nat |-> 2 * d] \in [Nat -> Nat]
    OBVIOUS
  <2> QED BY <1>1, <2>1, RecursionExists
<1>3. ASSUME NEW n \in Nat
      PROVE  f[n] = IF n = 0 THEN InitialDelay ELSE 2 * f[n - 1]
  <2>1. CASE n = 0
    BY <1>2, <2>1
  <2>2. CASE n # 0
    <3>1. n - 1 \in Nat /\ (n - 1) + 1 = n
      BY <2>2
    <3> QED BY <1>2, <2>2, <3>1
  <2> QED BY <2>1, <2>2
<1>4. f = Body(f)
  BY <1>2, <1>3
<1>5. Doubled = CHOOSE h : h = Body(h)
  BY DEF Doubled
<1> HIDE DEF Body
<1>6. Doubled = Body(Doubled)
  BY <1>4, <1>5
<1> USE DEF Body
<1>7. Doubled[0] = InitialDelay
  BY <1>6
<1>8. ASSUME NEW n \in Nat
      PROVE  Doubled[n + 1] = 2 * Doubled[n]
  <2>1. n + 1 \in Nat /\ n + 1 # 0 /\ (n + 1) - 1 = n
    OBVIOUS
  <2> QED BY <1>6, <2>1
<1>9. \A n \in Nat : Doubled[n] \in Nat
  <2> DEFINE T == {n \in Nat : Doubled[n] \in Nat}
  <2>1. 0 \in T
    BY <1>1, <1>7
  <2>2. \A n \in Nat : n \in T => n + 1 \in T
    BY <1>8
  <2>3. Nat \subseteq T
    <3> HIDE DEF T
    <3> QED BY <2>1, <2>2, EveryNumber
  <2> QED BY <2>3
<1>10. Doubled \in [Nat -> Nat]
  BY <1>6, <1>9
<1> QED BY <1>7, <1>8, <1>10

\* tcpSessionRetryDelay doubles up to the maximum, which is even, and stays there.
LEMMA DelayDoubles ==
  \A n \in Nat :
    /\ RetryDelay[n] = IF Doubled[n] > MaxDelay THEN MaxDelay ELSE Doubled[n]
    /\ RetryDelay[n] = MaxDelay => RetryDelay[n + 1] = MaxDelay
<1>1. /\ InitialDelay \in Nat /\ MaxDelay \in Nat /\ InitialDelay <= MaxDelay
      /\ MaxDelay \div 2 \in Nat /\ 2 * (MaxDelay \div 2) = MaxDelay
  BY PathAssumption
<1> DEFINE T == {n \in Nat : RetryDelay[n] = IF Doubled[n] > MaxDelay THEN MaxDelay
                                                                 ELSE Doubled[n]}
<1>2. 0 \in T
  BY <1>1, DelayFacts, DoubledFacts
<1>3. ASSUME NEW n \in Nat, n \in T
      PROVE  n + 1 \in T
  <2>1. PICK d \in Nat, r \in Nat : d = Doubled[n] /\ r = RetryDelay[n]
    BY DelayFacts, DoubledFacts
  <2>2. r = IF d > MaxDelay THEN MaxDelay ELSE d
    BY <1>3, <2>1
  <2>3. /\ Doubled[n + 1] = 2 * d
        /\ RetryDelay[n + 1] = IF r >= MaxDelay \div 2 THEN MaxDelay ELSE 2 * r
    BY <2>1, DelayFacts, DoubledFacts
  <2>4. PICK m \in Nat : m = MaxDelay \div 2 /\ MaxDelay = 2 * m
    BY <1>1
  <2>5. (IF r >= m THEN 2 * m ELSE 2 * r) = IF 2 * d > 2 * m THEN 2 * m ELSE 2 * d
    BY <2>2, <2>4
  <2> QED BY <2>3, <2>4, <2>5
<1>4. Nat \subseteq T
  <2> HIDE DEF T
  <2> QED BY <1>2, <1>3, EveryNumber
<1>5. ASSUME NEW n \in Nat, RetryDelay[n] = MaxDelay
      PROVE  RetryDelay[n + 1] = MaxDelay
  BY <1>1, <1>5, DelayFacts
<1> QED BY <1>4, <1>5

\* The delay of a count that agrees with k failures is that after k failures.
LEMMA CountedDelay ==
  ASSUME NEW n \in Nat, NEW k \in Nat, Counted(n, k)
  PROVE  RetryDelay[n] = RetryDelay[k] /\ Counted(NextCount(n), k + 1)
<1>1. CASE n = k
  <2>1. RetryDelay[k] \in Nat /\ RetryDelay[k] <= MaxDelay /\ MaxDelay \in Nat
    BY SMTT(30), DelayDoubles, DelayFacts, DoubledFacts, PathAssumption
  <2> QED BY <1>1, <2>1 DEF Counted, NextCount
<1>2. CASE n # k
  <2>1. RetryDelay[n] = MaxDelay /\ n < k /\ MaxDelay \in Nat
    BY <1>2, PathAssumption DEF Counted
  <2>2. NextCount(n) = n
    BY <2>1 DEF NextCount
  <2> DEFINE T == {m \in Nat : RetryDelay[n + m] = MaxDelay}
  <2>3. 0 \in T
    BY <2>1
  <2>4. ASSUME NEW m \in Nat, m \in T
        PROVE  m + 1 \in T
    <3>1. n + m \in Nat /\ (n + m) + 1 = n + (m + 1)
      OBVIOUS
    <3> QED BY <2>4, <3>1, DelayDoubles
  <2>5. Nat \subseteq T
    <3> HIDE DEF T
    <3> QED BY <2>3, <2>4, EveryNumber
  <2>6. k - n \in Nat /\ n + (k - n) = k
    BY <2>1
  <2>7. RetryDelay[k] = MaxDelay
    BY <2>5, <2>6
  <2> QED BY <2>1, <2>2, <2>7 DEF Counted
<1> QED BY <1>1, <1>2
-----------------------------------------------------------------------------
(* The backoff.                                                            *)

DelaysOK == FailuresCounted /\ Backoff

\* The goroutines of o that have a failure to count.
Failed(o) == {w \in workers : w.of = o /\ w.at = "retry"}
Taken(o) == IF Failed(o) = {} THEN streak ELSE streak - 1

\* The same for the path session in the table, by itself.
DelayedFor(o) ==
  objects[o].closed \/
    /\ Taken(o) >= 0 /\ Counted(objects[o].retryCount, Taken(o))
    /\ objects[o].retrying => streak > 0 /\ delays = RetryDelay[streak - 1]

Delayed == streak \in Nat /\ (held => DelayedFor(Len(objects)))

LEMMA DelayForms ==
  DrivenInv => (DelaysOK <=> Delayed)
<1> SUFFICES ASSUME DrivenInv PROVE DelaysOK <=> Delayed
  OBVIOUS
<1>1. streak \in Nat /\ streak > 0 =>
        RetryDelay[streak - 1] = IF Doubled[streak - 1] > MaxDelay THEN MaxDelay
                                                                  ELSE Doubled[streak - 1]
  BY DelayDoubles
<1>2. held => /\ objects[Len(objects)].closed \in BOOLEAN
              /\ objects[Len(objects)].retrying \in BOOLEAN
  <2>1. held => Len(objects) \in DOMAIN objects
    BY InvForms DEF TableOK, SessionsDriven
  <2> QED BY <2>1, InvForms, ObjectTypes, SessionTypes
<1> DEFINE o == Len(objects)
<1>3. FailuresCounted <=> /\ streak \in Nat
                          /\ held => \/ objects[o].closed
                                     \/ Taken(o) >= 0 /\ Counted(objects[o].retryCount, Taken(o))
  BY DEF FailuresCounted, Taken, Failed
<1>4. streak \in Nat =>
        (Backoff <=> (held /\ objects[o].retrying /\ ~objects[o].closed =>
                        streak > 0 /\ delays = RetryDelay[streak - 1]))
  BY <1>1 DEF Backoff
<1> HIDE DEF o
<1>5. DelaysOK <=> streak \in Nat /\ (held => DelayedFor(o))
  BY <1>3, <1>4 DEF DelaysOK, DelayedFor
<1> QED BY <1>5 DEF o, Delayed

\* A step that counts no failure and starts no delay.
LEMMA SameDelay ==
  ASSUME NEW o, DelayedFor(o), UNCHANGED <<streak, delays>>,
         objects[o].closed => objects'[o].closed,
         objects'[o].retryCount = objects[o].retryCount,
         objects'[o].retrying => objects[o].retrying,
         Failed(o) = {} <=> Failed(o)' = {}
  PROVE  DelayedFor(o)'
BY DEF DelayedFor, Taken

LEMMA FailedHere ==
  ASSUME DrivenInv, NEW w \in workers
  PROVE  /\ Failed(w.of) = {} <=> w.at # "retry"
         /\ Exit(w) => Failed(w.of)' = {}
         /\ \A at : Goto(w, at) => (Failed(w.of)' = {} <=> at # "retry")
<1>1. \A v \in workers : v.of = w.of => v = w
  BY InvForms DEF WorkersDriving
<1>2. Failed(w.of) = {} <=> w.at # "retry"
  BY <1>1 DEF Failed
<1>3. Exit(w) => Failed(w.of)' = {}
  BY <1>1 DEF Failed, Exit
<1>4. ASSUME NEW at, Goto(w, at)
      PROVE  Failed(w.of)' = {} <=> at # "retry"
  <2>1. PICK n : n = Worker(w.of, w.generation, at)
    OBVIOUS
  <2>2. workers' = (workers \ {w}) \cup {n} /\ n.of = w.of /\ n.at = at
    BY <1>4, <2>1, GotoForm DEF Worker
  <2> QED BY <1>1, <2>1, <2>2 DEF Failed
<1> QED BY <1>2, <1>3, <1>4

LEMMA FailedThere ==
  ASSUME DrivenInv, NEW w \in workers, NEW o, o # w.of,
         Exit(w) \/ \E n : n.of = w.of /\ workers' = (workers \ {w}) \cup {n}
  PROVE  Failed(o)' = Failed(o)
BY DEF Failed, Exit

\* What a goroutine changes of path sessions that it does not drive.
LEMMA StepThere ==
  ASSUME DrivenInv, NEW w \in workers, Step(w), NEW o \in DOMAIN objects, o # w.of,
         o = Len(objects)
  PROVE  objects'[o] = objects[o] /\ Failed(o)' = Failed(o) /\ UNCHANGED <<streak, delays>>
<1>1. objects \in Seq(Session) /\ w.of \in DOMAIN objects
  BY DriverFacts
<1>2. CASE Reconcile(w)
  <2>1. Exit(w) \/ workers' = (workers \ {w}) \cup
                                {Worker(w.of, objects'[w.of].generation, "spawnDial")}
    BY <1>2 DEF Reconcile
  <2>2. Exit(w) \/ \E n : n.of = w.of /\ workers' = (workers \ {w}) \cup {n}
    BY <2>1 DEF Worker
  <2>3. objects'[o] = objects[o] /\ UNCHANGED <<streak, delays>>
    BY <1>1, <1>2 DEF Reconcile, Set, history
  <2> QED BY <2>2, <2>3, FailedThere
<1>3. CASE ~Reconcile(w)
  <2>1. Driving(w)
    BY <1>3, SpawnDialDrives, DialDrives, CommitDrives, ServedDrives, RetryDrives,
       SpawnWaitDrives, WaitEndsDrives, WokenDrives DEF Step
  <2>2. PICK r \in Session : Drives(w, r)
    BY <2>1 DEF Driving
  <2>3. objects'[o] = objects[o]
    BY <1>1, <2>2, ElementSet DEF Drives
  <2>4. Exit(w) \/ \E n : n.of = w.of /\ workers' = (workers \ {w}) \cup {n}
    BY <2>2 DEF Drives, Exit, Worker
  <2>5. UNCHANGED <<streak, delays>>
    BY <1>3 DEF Step, SpawnDial, DialFails, DialSucceeds, Commit, Served, Retry, SpawnWait,
         WaitEnds, Woken, history
  <2> QED BY <2>3, <2>4, <2>5, FailedThere
<1> QED BY <1>2, <1>3

\* The steps of its own goroutine that count no failure.
LEMMA StepSame ==
  ASSUME DrivenInv, NEW w \in workers,
         \/ SpawnDial(w) \/ DialSucceeds(w) \/ Commit(w) \/ SpawnWait(w) \/ WaitEnds(w)
         \/ Woken(w) \/ Reconcile(w)
  PROVE  /\ UNCHANGED <<streak, delays>>
         /\ objects'[w.of].retryCount = objects[w.of].retryCount
         /\ objects'[w.of].retrying => objects[w.of].retrying
         /\ Failed(w.of) = {} /\ Failed(w.of)' = {}
<1>1. /\ objects \in Seq(Session) /\ w.of \in DOMAIN objects /\ objects[w.of] \in Session
      /\ w.at \notin {"retry"}
  BY DriverFacts DEF SpawnDial, DialSucceeds, Commit, SpawnWait, WaitEnds, Woken, Reconcile
<1>2. Failed(w.of) = {}
  BY <1>1, FailedHere
<1>3. UNCHANGED <<streak, delays>>
  BY DEF SpawnDial, DialSucceeds, Commit, SpawnWait, WaitEnds, Woken, Reconcile, history
<1>4. Failed(w.of)' = {}
  <2>1. CASE Reconcile(w) /\ ~Exit(w)
    <3>1. workers' = (workers \ {w}) \cup {Worker(w.of, objects'[w.of].generation, "spawnDial")}
      BY <2>1 DEF Reconcile
    <3>2. \A v \in workers : v.of = w.of => v = w
      BY InvForms DEF WorkersDriving
    <3> QED BY <3>1, <3>2 DEF Failed, Worker
  <2>2. CASE ~(Reconcile(w) /\ ~Exit(w))
    <3>1. Exit(w) \/ \E at : at # "retry" /\ Goto(w, at)
      BY <2>2 DEF SpawnDial, DialSucceeds, Commit, SpawnWait, WaitEnds, Woken
    <3> QED BY <3>1, FailedHere
  <2> QED BY <2>1, <2>2
<1>5. \/ UNCHANGED objects
      \/ \E r : /\ objects' = [objects EXCEPT ![w.of] = r]
                /\ r.retryCount = objects[w.of].retryCount
                /\ r.retrying => objects[w.of].retrying
  <2> DEFINE s == objects[w.of]
  <2>1. CASE SpawnDial(w)
    <3>1. PICK r : r = [s EXCEPT !.inFlight = s.inFlight /\ s.generation # w.generation]
      OBVIOUS
    <3>2. r.retryCount = s.retryCount /\ r.retrying = s.retrying
      BY <1>1, <3>1 DEF Session
    <3>3. UNCHANGED objects \/ objects' = [objects EXCEPT ![w.of] = r]
      BY <2>1, <3>1 DEF SpawnDial
    <3> QED BY <3>2, <3>3
  <2>2. CASE DialSucceeds(w) \/ WaitEnds(w)
    BY <2>2 DEF DialSucceeds, WaitEnds
  <2>3. CASE Commit(w)
    <3>1. PICK r : r = [s EXCEPT !.session = w.generation, !.inFlight = FALSE, !.retrying = FALSE]
      OBVIOUS
    <3>2. r.retryCount = s.retryCount /\ ~r.retrying
      BY <1>1, <3>1 DEF Session
    <3>3. UNCHANGED objects \/ objects' = [objects EXCEPT ![w.of] = r]
      BY <2>3, <3>1 DEF Commit, Set
    <3> QED BY <3>2, <3>3
  <2>4. CASE SpawnWait(w)
    <3>1. PICK r : r = [s EXCEPT !.retrying = s.retrying /\ s.generation # w.generation]
      OBVIOUS
    <3>2. r.retryCount = s.retryCount /\ (r.retrying => s.retrying)
      BY <1>1, <3>1 DEF Session
    <3>3. UNCHANGED objects \/ objects' = [objects EXCEPT ![w.of] = r]
      BY <2>4, <3>1 DEF SpawnWait
    <3> QED BY <3>2, <3>3
  <2>5. CASE Woken(w)
    <3>1. PICK r : r = Awake(s)
      OBVIOUS
    <3>2. r.retryCount = s.retryCount /\ ~r.retrying
      BY <1>1, <3>1 DEF Session, Awake
    <3>3. UNCHANGED objects \/ objects' = [objects EXCEPT ![w.of] = r]
      BY <2>5, <3>1 DEF Woken, Set
    <3> QED BY <3>2, <3>3
  <2>6. CASE Reconcile(w)
    <3>1. PICK r : r = Dialing(w.of)
      OBVIOUS
    <3>2. r.retryCount = s.retryCount /\ r.retrying = s.retrying
      BY <1>1, <3>1 DEF Session, Dialing
    <3>3. UNCHANGED objects \/ objects' = [objects EXCEPT ![w.of] = r]
      BY <2>6, <3>1 DEF Reconcile, Set
    <3> QED BY <3>2, <3>3
  <2> QED BY <2>1, <2>2, <2>3, <2>4, <2>5, <2>6
<1> QED BY <1>1, <1>2, <1>3, <1>4, <1>5

\* A failed dial: its goroutine will count it.
LEMMA DialFailsDelay ==
  ASSUME DrivenInv, streak \in Nat, NEW w \in workers, DialFails(w), w.of = Len(objects),
         DelayedFor(w.of)
  PROVE  DelayedFor(w.of)' /\ streak' \in Nat
<1>1. /\ w.at = "dial" /\ UNCHANGED objects /\ Goto(w, "retry")
      /\ streak' = streak + 1
  BY DEF DialFails
<1>2. FlagsOK(w, objects[w.of])
  BY DriverFacts
<1>3. Taken(w.of) = streak /\ Taken(w.of)' = streak
  BY SMTT(30), <1>1, FailedHere DEF Taken
<1> QED BY <1>1, <1>2, <1>3 DEF DelayedFor, FlagsOK

\* A session that ended: likewise, with a stable one the first failure.
LEMMA ServedDelay ==
  ASSUME DrivenInv, streak \in Nat, NEW w \in workers, NEW stable \in BOOLEAN,
         Served(w, stable), w.of = Len(objects), DelayedFor(w.of)
  PROVE  DelayedFor(w.of)' /\ streak' \in Nat
<1> DEFINE s == objects[w.of]
<1>1. /\ objects \in Seq(Session) /\ w.of \in DOMAIN objects /\ s \in Session
      /\ SessionOK(s) /\ FlagsOK(w, s) /\ w.at = "serve"
      /\ w.generation = s.generation /\ w.generation \in Nat \ {0}
  BY DriverFacts DEF Served
<1>2. streak' = IF stable THEN 1 ELSE streak + 1
  BY DEF Served
<1>3. CASE s.closed
  <2>1. s.session # w.generation
    BY <1>1, <1>3 DEF SessionOK
  <2>2. UNCHANGED objects
    BY <2>1 DEF Served
  <2> QED BY <1>2, <1>3, <2>2 DEF DelayedFor
<1>4. CASE ~s.closed
  <2>1. s.session = w.generation
    BY <1>1, <1>4 DEF SessionOK, FlagsOK
  <2>2. PICK r : r = [s EXCEPT !.session = 0, !.retryCount = IF stable THEN 0 ELSE s.retryCount]
    OBVIOUS
  <2>3. /\ r.retryCount = (IF stable THEN 0 ELSE s.retryCount)
        /\ r.retrying = s.retrying
    BY <1>1, <2>2 DEF Session
  <2>4. Goto(w, "retry")
    BY <1>4, <2>1 DEF Served
  <2>5. objects' = [objects EXCEPT ![w.of] = r]
    BY <2>1, <2>2 DEF Served
  <2>6. objects'[w.of] = r
    BY <1>1, <2>5
  <2>7. Taken(w.of) = streak /\ Taken(w.of)' = streak' - 1
    BY <1>1, <2>4, FailedHere DEF Taken
  <2>8. ~s.retrying
    BY <1>1, <1>4 DEF FlagsOK
  <2>9. Taken(w.of)' >= 0 /\ Counted(r.retryCount, Taken(w.of)')
    BY <1>2, <1>4, <2>3, <2>7 DEF DelayedFor, Counted
  <2> QED BY <1>2, <2>3, <2>6, <2>8, <2>9 DEF DelayedFor
<1> QED BY <1>3, <1>4

\* retry counts the failure and waits for as long as the failures before it ask.
LEMMA RetryDelayed ==
  ASSUME DrivenInv, streak \in Nat, NEW w \in workers, Retry(w), w.of = Len(objects),
         DelayedFor(w.of)
  PROVE  DelayedFor(w.of)' /\ streak' \in Nat
<1> DEFINE s == objects[w.of]
           moved == s.closed \/ s.generation # w.generation \/ s.session # 0
<1>1. /\ objects \in Seq(Session) /\ w.of \in DOMAIN objects /\ s \in Session
      /\ SessionOK(s) /\ FlagsOK(w, s) /\ w.at = "retry" /\ w.generation = s.generation
      /\ s.retryCount \in Nat
  BY DriverFacts, SessionTypes DEF Retry
<1>2. moved \/ s.retrying <=> s.closed
  BY <1>1, SessionTypes DEF FlagsOK, SessionOK
<1>3. streak' = streak
  BY DEF Retry
<1>4. CASE s.closed
  <2>1. PICK r : r = [s EXCEPT !.inFlight = s.inFlight /\ moved]
    OBVIOUS
  <2>2. r.closed
    BY <1>1, <1>4, <2>1 DEF Session
  <2>3. objects' = [objects EXCEPT ![w.of] = r]
    BY <1>2, <1>4, <2>1 DEF Retry
  <2>4. objects'[w.of] = r
    BY <1>1, <2>3
  <2> QED BY <1>3, <2>2, <2>4 DEF DelayedFor
<1>5. CASE ~s.closed
  <2>1. PICK r : r = [s EXCEPT !.inFlight = FALSE, !.retrying = TRUE,
                               !.retryCount = NextCount(s.retryCount)]
    OBVIOUS
  <2>2. r.retryCount = NextCount(s.retryCount)
    BY <1>1, <2>1 DEF Session
  <2>3. /\ objects' = [objects EXCEPT ![w.of] = r] /\ Goto(w, "spawnWait")
        /\ delays' = RetryDelay[s.retryCount]
    BY <1>2, <1>5, <2>1 DEF Retry, Set
  <2>4. objects'[w.of] = r
    BY <1>1, <2>3
  <2>5. Taken(w.of) = streak - 1 /\ Taken(w.of)' = streak
    <3>1. "spawnWait" # "retry" /\ Failed(w.of) # {}
      BY <1>1, FailedHere
    <3>2. Failed(w.of)' = {}
      BY <2>3, <3>1, FailedHere
    <3> QED BY <1>3, <3>1, <3>2 DEF Taken
  <2>6. streak - 1 \in Nat /\ Counted(s.retryCount, streak - 1)
    BY <1>5, <2>5 DEF DelayedFor
  <2>7. /\ delays' = RetryDelay[streak - 1]
        /\ Counted(r.retryCount, streak)
    BY <1>1, <2>2, <2>3, <2>6, CountedDelay
  <2> QED BY <1>3, <2>4, <2>5, <2>6, <2>7 DEF DelayedFor
<1> QED BY <1>4, <1>5

LEMMA StepDelay ==
  ASSUME DrivenInv, streak \in Nat, held => DelayedFor(Len(objects)),
         NEW w \in workers, Step(w)
  PROVE  streak' \in Nat /\ (held' => DelayedFor(Len(objects))')
<1>1. objects \in Seq(Session) /\ w.of \in DOMAIN objects
  BY DriverFacts
<1>2. held' = held
  BY DEF Step, SpawnDial, DialFails, DialSucceeds, Commit, Served, Retry, SpawnWait, WaitEnds,
     Woken, Reconcile, table
<1>3. objects' \in Seq(Session) /\ DOMAIN objects' = DOMAIN objects
  BY StepDrives DEF SessionsDriven
<1>4. Len(objects') = Len(objects)
  BY <1>1, <1>3
<1>5. streak' \in Nat
  <2>1. ASSUME NEW stable \in BOOLEAN, Served(w, stable)
        PROVE  streak' \in Nat
    BY <2>1 DEF Served
  <2>2. CASE DialFails(w)
    BY <2>2 DEF DialFails
  <2>3. CASE \/ SpawnDial(w) \/ DialSucceeds(w) \/ Commit(w) \/ Retry(w) \/ SpawnWait(w)
             \/ WaitEnds(w) \/ Woken(w) \/ Reconcile(w)
    BY <2>3 DEF SpawnDial, DialSucceeds, Commit, Retry, SpawnWait, WaitEnds, Woken, Reconcile,
         history
  <2> QED BY <2>1, <2>2, <2>3 DEF Step
<1>6. ASSUME held
      PROVE  DelayedFor(Len(objects))'
  <2>1. PICK o : o = Len(objects) /\ o \in DOMAIN objects
    BY <1>1, <1>6, InvForms DEF TableOK
  <2>2. ASSUME o # w.of
        PROVE  DelayedFor(o)'
    <3>1. objects'[o] = objects[o] /\ Failed(o)' = Failed(o) /\ UNCHANGED <<streak, delays>>
      BY <2>1, <2>2, StepThere
    <3> QED BY <1>6, <2>1, <3>1, SameDelay
  <2>3. ASSUME o = w.of
        PROVE  DelayedFor(w.of)'
    <3>1. CASE DialFails(w)
      BY <1>6, <2>1, <2>3, <3>1, DialFailsDelay
    <3>2. ASSUME NEW stable \in BOOLEAN, Served(w, stable)
          PROVE  DelayedFor(w.of)'
      BY <1>6, <2>1, <2>3, <3>2, ServedDelay
    <3>3. CASE Retry(w)
      BY <1>6, <2>1, <2>3, <3>3, RetryDelayed
    <3>4. CASE \/ SpawnDial(w) \/ DialSucceeds(w) \/ Commit(w) \/ SpawnWait(w) \/ WaitEnds(w)
               \/ Woken(w) \/ Reconcile(w)
      <4>1. objects[w.of].closed => objects'[w.of].closed
        <5>1. CASE Reconcile(w)
          <6>1. UNCHANGED objects \/ ~objects[w.of].closed
            BY <5>1 DEF Reconcile, MayDial
          <6> QED BY <6>1
        <5>2. CASE ~Reconcile(w)
          <6>1. PICK r \in Session : Drives(w, r)
            BY <3>4, <5>2, SpawnDialDrives, DialDrives, CommitDrives, SpawnWaitDrives,
               WaitEndsDrives, WokenDrives DEF Driving
          <6> QED BY <1>1, <6>1 DEF Drives
        <5> QED BY <5>1, <5>2
      <4> QED BY <1>6, <2>1, <2>3, <3>4, <4>1, StepSame, SameDelay
    <3> QED BY <3>1, <3>2, <3>3, <3>4 DEF Step
  <2> QED BY <1>4, <2>1, <2>2, <2>3 DEF DelayedFor, Taken, Failed
<1> QED BY <1>2, <1>5, <1>6

\* The refresh gives the interface a path session without failures, or starts
\* the first attempt of one.
LEMMA RefreshDelay ==
  ASSUME DrivenInv, streak \in Nat, held => DelayedFor(Len(objects)), Refresh
  PROVE  streak' \in Nat /\ (held' => DelayedFor(Len(objects))')
<1>1. objects \in Seq(Session) /\ SessionsDriven /\ UNCHANGED workers
  BY InvForms DEF SessionsDriven, Refresh
<1>2. CASE Refused
  <2>1. UNCHANGED <<objects, held, streak, delays>>
    BY <1>2 DEF Refresh, history
  <2> QED BY <1>1, <2>1 DEF DelayedFor, Taken, Failed
<1>3. CASE ~Refused
  <2>1. streak' = 0 /\ held' = (seen # NoPath)
    BY <1>3 DEF Refresh
  <2>2. ASSUME seen # NoPath
        PROVE  DelayedFor(Len(objects))'
    <3>1. PICK e : e = Fresh(seen)
      OBVIOUS
    <3>2. objects' = Append(objects, e) /\ e.retryCount = 0 /\ e.retrying = FALSE
      BY <1>3, <2>2, <3>1 DEF Refresh, Fresh
    <3>3. seen \in Path
      BY <2>2, InvForms DEF TableOK
    <3>4. e \in Session
      BY <3>1, <3>3 DEF Fresh, Session
    <3>5. objects'[Len(objects')] = e /\ Len(objects') \notin DOMAIN objects
      BY <1>1, <3>2, <3>4, AppendedElement
    <3>6. \A w \in workers : w.of \in DOMAIN objects
      BY InvForms DEF WorkersDriving
    <3>7. Failed(Len(objects))' = {}
      BY <1>1, <3>5, <3>6 DEF Failed
    <3>8. Taken(Len(objects))' = 0
      BY <2>1, <3>7 DEF Taken
    <3> QED BY <3>2, <3>5, <3>8 DEF DelayedFor, Counted
  <2> QED BY <2>1, <2>2
<1> QED BY <1>2, <1>3

LEMMA RefreshStartsDelay ==
  ASSUME DrivenInv, streak \in Nat, held => DelayedFor(Len(objects)), RefreshStarts
  PROVE  streak' \in Nat /\ (held' => DelayedFor(Len(objects))')
<1>1. objects \in Seq(Session) /\ UNCHANGED <<held, streak, delays>>
  BY InvForms DEF SessionsDriven, RefreshStarts, history
<1>2. CASE ~(held /\ MayDial(Len(objects)))
  <2>1. UNCHANGED <<objects, workers>>
    BY <1>2 DEF RefreshStarts
  <2> QED BY <1>1, <2>1 DEF DelayedFor, Taken, Failed
<1>3. CASE held /\ MayDial(Len(objects))
  <2>1. PICK o : o = Len(objects) /\ o \in DOMAIN objects
    BY <1>1, <1>3, InvForms DEF TableOK
  <2>2. PICK r : r = Dialing(o)
    OBVIOUS
  <2>3. objects[o] \in Session
    BY <2>1, InvForms DEF SessionsDriven
  <2>4. /\ r \in Session /\ r.retryCount = objects[o].retryCount
        /\ r.retrying = objects[o].retrying /\ r.closed = objects[o].closed
    <3>1. PICK g : g = objects[o].generation + 1 /\ g \in Nat
      BY <2>3, SessionTypes
    <3>2. r = [objects[o] EXCEPT !.inFlight = TRUE, !.generation = g]
      BY <2>2, <2>3, <3>1 DEF Dialing, Session
    <3> QED BY <2>3, <3>1, <3>2 DEF Session
  <2>5. /\ objects' = [objects EXCEPT ![o] = r]
        /\ workers' = workers \cup {Worker(o, objects'[o].generation, "spawnDial")}
    BY <1>3, <2>1, <2>2 DEF RefreshStarts, Set
  <2>6. Len(objects') = Len(objects) /\ objects'[o] = r
    BY <1>1, <2>1, <2>4, <2>5, ElementSet
  <2>7. Failed(o)' = Failed(o)
    BY <2>5 DEF Failed, Worker
  <2>8. DelayedFor(o)'
    BY <1>1, <1>3, <2>1, <2>4, <2>6, <2>7, SameDelay
  <2> QED BY <1>1, <2>1, <2>6, <2>8 DEF DelayedFor, Taken, Failed
<1> QED BY <1>2, <1>3

\* A path session is closed, in the table or no longer.
LEMMA CloseDelay ==
  ASSUME DrivenInv, streak \in Nat, held => DelayedFor(Len(objects)),
         NEW o \in DOMAIN objects, Set(o, Closed(o)),
         UNCHANGED <<held, workers, streak, delays>>
  PROVE  streak' \in Nat /\ (held' => DelayedFor(Len(objects))')
<1>1. objects \in Seq(Session) /\ objects[o] \in Session
  BY InvForms DEF SessionsDriven
<1>2. PICK r : r = Closed(o)
  OBVIOUS
<1>3. r \in Session /\ r.closed
  BY <1>1, <1>2 DEF Closed, Session
<1>4. objects' = [objects EXCEPT ![o] = r]
  BY <1>2 DEF Set
<1>5. PICK l : l = Len(objects) /\ Len(objects') = l
  BY <1>1, <1>3, <1>4, ElementSet
<1>6. held => l \in DOMAIN objects
  BY <1>1, <1>5, InvForms DEF TableOK
<1>7. ASSUME held
      PROVE  DelayedFor(l)'
  <2>1. CASE l = o
    <3>1. objects'[l] = r
      BY <1>1, <1>3, <1>4, <2>1, ElementSet
    <3> QED BY <1>3, <3>1 DEF DelayedFor
  <2>2. CASE l # o
    <3>1. objects'[l] = objects[l]
      BY <1>1, <1>3, <1>4, <1>6, <1>7, <2>2, ElementSet
    <3> QED BY <1>5, <1>7, <3>1 DEF DelayedFor, Taken, Failed
  <2> QED BY <2>1, <2>2
<1> QED BY <1>5, <1>7 DEF DelayedFor, Taken, Failed

LEMMA DelayStepped ==
  DrivenInv /\ DelaysOK /\ [Next]_vars => Delayed'
<1> SUFFICES ASSUME DrivenInv, streak \in Nat, held => DelayedFor(Len(objects)), [Next]_vars
             PROVE  streak' \in Nat /\ (held' => DelayedFor(Len(objects))')
  BY DelayForms DEF Delayed
<1>1. ASSUME NEW w \in workers, Step(w)
      PROVE  streak' \in Nat /\ (held' => DelayedFor(Len(objects))')
  BY <1>1, StepDelay
<1>2. ASSUME NEW o \in DOMAIN objects, CloseStale(o)
      PROVE  streak' \in Nat /\ (held' => DelayedFor(Len(objects))')
  BY <1>2, CloseDelay DEF CloseStale, history
<1>3. CASE ShutdownCloses
  <2>1. Len(objects) \in DOMAIN objects
    BY <1>3, InvForms DEF ShutdownCloses, TableOK, SessionsDriven
  <2> QED BY <1>3, <2>1, CloseDelay DEF ShutdownCloses, history, table
<1>4. CASE \/ Tick \/ Command \/ Cancel \/ ShutdownBegins \/ UNCHANGED vars
           \/ \E p \in Path \cup {NoPath} : InterfaceChanges(p)
           \/ \E s \in live : SessionEnds(s)
  <2>1. UNCHANGED <<objects, workers, held, streak, delays>>
    BY <1>4 DEF Tick, Command, ToggleExclusion, Include, Exclude, ResetExclusions, Swap,
         Cancel, ShutdownBegins, vars, InterfaceChanges, SessionEnds, table, history
  <2> QED BY <2>1 DEF DelayedFor, Taken, Failed
<1> QED BY <1>1, <1>2, <1>3, <1>4, RefreshDelay, RefreshStartsDelay
        DEF Next, Refresher, Shutdown

LEMMA DelayFormsNext ==
  DrivenInv' /\ Delayed' => DelaysOK'
BY DelayForms, PTL

\* Whatever the order of refresh, dials, failures, retries and commands: at
\* most one goroutine drives a path session, exactly one while it is open and
\* the runtime has not stopped, inFlight, retrying and session say where it is,
\* and the n-th failure in a row is followed by the initial delay doubled n - 1
\* times, up to the maximum (refreshCarrierGroups, reconcile, dial, retry,
\* tcpSessionRetryDelay, waitToRetry).
THEOREM PathInvariance == Spec => []PathInv
<1>1. Init => DelaysOK
  BY DEF Init, DelaysOK, FailuresCounted, Backoff
<1>2. DrivenInv /\ DrivenInv' /\ DelaysOK /\ [Next]_vars => DelaysOK'
  BY DelayStepped, DelayFormsNext
<1>3. DrivenInv /\ DelaysOK <=> PathInv
  BY DEF DelaysOK, PathInv
<1> QED BY <1>1, <1>2, <1>3, DrivenInvariance, PTL DEF Spec
=============================================================================
