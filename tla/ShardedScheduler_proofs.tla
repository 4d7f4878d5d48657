----------------------- MODULE ShardedScheduler_proofs ----------------------
(* Theorems about ShardedScheduler, for any numbers of workers, rings,     *)
(* producers and events: the counter that Submit decides on is exact; as   *)
(* long as no ring is torn the scheduler implements Dispatcher, and when   *)
(* everything is at rest behind a blocked caller there is a reason.        *)
EXTENDS ShardedScheduler, FiniteSetTheorems, TLAPS

Locations == {"top", "poll", "run", "emit", "select", "asleep", "woken", "leave", "exited"}
Parking == {"select", "asleep", "woken", "leave"}
Counted == {w \in Workers : wpc[w] \in Parking}

(* The queue of the channel sem holds sleeping workers, each once.         *)
SleepersSleep ==
  /\ sleepers \in Seq(Workers)
  /\ \A i \in 1 .. Len(sleepers) : wpc[sleepers[i]] = "asleep"
  /\ \A i, j \in 1 .. Len(sleepers) : sleepers[i] = sleepers[j] => i = j

AllGone == phase = "joined" => \A w \in Workers : wpc[w] = "exited"

WorkerInv ==
  /\ wpc \in [Workers -> Locations]
  /\ SleepersSleep
  /\ AllGone
  /\ parked = Cardinality(Counted)

LEMMA CountedIsFinite == IsFiniteSet(Counted)
<1>1. IsFiniteSet(Workers)
  BY SchedulerAssumption, FS_Interval DEF Workers
<1> QED BY <1>1, FS_Subset DEF Counted

LEMMA SchedulerInit == Init => WorkerInv
<1> SUFFICES ASSUME Init PROVE WorkerInv
  OBVIOUS
<1> USE DEF Init
<1>1. Counted = {} BY DEF Counted, Parking
<1>2. parked = Cardinality(Counted) BY <1>1, FS_EmptySet
<1> QED BY <1>2 DEF WorkerInv, SleepersSleep, AllGone, Locations

(* Steps that leave the workers where they are.                            *)
LEMMA CallerStep ==
  ASSUME WorkerInv, UNCHANGED <<wpc, sleepers, parked>>,
         phase' = phase \/ phase' # "joined"
  PROVE  WorkerInv'
BY DEF WorkerInv, SleepersSleep, AllGone, Counted

(* A worker that is awake goes on to where it is awake.                    *)
LEMMA AwakeStep ==
  ASSUME NEW w \in Workers, NEW l \in Locations \ Parking,
         WorkerInv, wpc[w] \notin Parking, wpc[w] # "exited",
         wpc' = [wpc EXCEPT ![w] = l],
         UNCHANGED <<sleepers, parked, phase>>
  PROVE  WorkerInv'
<1> USE DEF WorkerInv
<1>1. Counted' = Counted BY DEF Counted
<1>2. SleepersSleep' BY DEF SleepersSleep, Parking
<1>3. AllGone' BY DEF AllGone
<1> QED BY <1>1, <1>2, <1>3

LEMMA ParkStep ==
  ASSUME NEW w \in Workers, WorkerInv, Park(w)
  PROVE  WorkerInv'
<1> USE DEF WorkerInv, Park, EndRound
<1>1. w \notin Counted /\ Counted' = Counted \cup {w}
  BY DEF Counted, Parking
<1>2. parked' = Cardinality(Counted')
  BY <1>1, CountedIsFinite, FS_AddElement
<1>3. SleepersSleep' BY DEF SleepersSleep
<1>4. AllGone' BY DEF AllGone
<1> QED BY <1>2, <1>3, <1>4 DEF Locations

LEMMA UnparkStep ==
  ASSUME NEW w \in Workers, WorkerInv, Unpark(w)
  PROVE  WorkerInv'
<1> USE DEF WorkerInv, Unpark
<1>1. w \in Counted /\ Counted' = Counted \ {w}
  BY DEF Counted, Parking
<1>2. Cardinality(Counted') = Cardinality(Counted) - 1
  BY <1>1, CountedIsFinite, FS_RemoveElement
<1>3. SleepersSleep' BY DEF SleepersSleep
<1>4. AllGone' BY DEF AllGone
<1> QED BY <1>2, <1>3, <1>4 DEF Locations

LEMMA SleepStep ==
  ASSUME NEW w \in Workers, WorkerInv, Sleep(w)
  PROVE  WorkerInv'
<1> USE DEF WorkerInv, Sleep
<1>1. Counted' = Counted BY DEF Counted, Parking
<1>2. AllGone' BY DEF AllGone
<1>3. SleepersSleep'
  <2>1. CASE sleepers' = sleepers BY <2>1 DEF SleepersSleep
  <2>2. CASE sleepers' = Append(sleepers, w) /\ wpc' = [wpc EXCEPT ![w] = "asleep"]
    <3>1. \A i \in 1 .. Len(sleepers) : sleepers[i] # w BY DEF SleepersSleep
    <3> QED BY <2>2, <3>1 DEF SleepersSleep
  <2> QED BY <2>1, <2>2
<1> QED BY <1>1, <1>2, <1>3 DEF Locations

LEMMA SignalStep ==
  ASSUME NEW p \in Callers, WorkerInv, Signal(p)
  PROVE  WorkerInv'
<1> USE DEF WorkerInv, Signal
<1>1. CASE sleepers = << >> BY <1>1, CallerStep
<1>2. CASE sleepers # << >>
  <2> DEFINE w == Head(sleepers)
  <2>1. /\ w \in Workers /\ wpc[w] = "asleep"
        /\ wpc' = [wpc EXCEPT ![w] = "woken"] /\ sleepers' = Tail(sleepers)
    BY <1>2 DEF SleepersSleep
  <2>2. \A i \in 1 .. Len(sleepers') :
          sleepers'[i] = sleepers[i + 1] /\ sleepers'[i] # w
    BY <1>2, <2>1 DEF SleepersSleep
  <2>3. SleepersSleep' BY <1>2, <2>1, <2>2 DEF SleepersSleep
  <2>4. Counted' = Counted BY <2>1 DEF Counted, Parking
  <2>5. AllGone' BY <2>1 DEF AllGone
  <2> QED BY <2>1, <2>3, <2>4, <2>5 DEF Locations
<1> QED BY <1>1, <1>2

LEMMA StopSteps ==
  ASSUME WorkerInv, StopStep
  PROVE  WorkerInv'
<1> USE DEF WorkerInv
<1>1. CASE SetStop BY <1>1, CallerStep DEF SetStop, wakeVars
<1>2. CASE CloseDone
  <2> USE <1>2 DEF CloseDone
  <2>1. Counted' = Counted BY DEF Counted, Parking
  <2>2. SleepersSleep' /\ AllGone' BY DEF SleepersSleep, AllGone
  <2> QED BY <2>1, <2>2 DEF Locations
<1>3. CASE Join
  BY <1>3 DEF Join, wakeVars, SleepersSleep, AllGone, Counted
<1> QED BY <1>1, <1>2, <1>3 DEF StopStep

LEMMA SchedulerStep == WorkerInv /\ [Next]_vars => WorkerInv'
<1> SUFFICES ASSUME WorkerInv, [Next]_vars PROVE WorkerInv'
  OBVIOUS
<1> USE DEF wakeVars, submitVars, roundVars, eventVars
<1>1. CASE \E p \in Producers : ProducerSubmits(p)
  BY <1>1, CallerStep DEF ProducerSubmits, SubmitFast
<1>2. ASSUME NEW p \in Callers, SubmitStep(p) PROVE WorkerInv'
  <2>1. CASE Signal(p) BY <2>1, SignalStep
  <2>2. CASE ~Signal(p)
    BY <1>2, <2>2, CallerStep DEF SubmitStep, ScanEnter, ScanRing, WaitForRoom, Retry, GiveUp, CheckParked
  <2> QED BY <2>1, <2>2
<1>3. ASSUME NEW w \in Workers, HandlerSubmits(w) PROVE WorkerInv'
  BY <1>3, AwakeStep DEF HandlerSubmits, SubmitFast, Locations, Parking
<1>4. ASSUME NEW w \in Workers, HandlerPanics(w) PROVE WorkerInv'
  BY <1>4, AwakeStep DEF HandlerPanics, InHandler, Locations, Parking
<1>5. ASSUME NEW w \in Workers, WorkerStep(w) PROVE WorkerInv'
  <2>1. CASE StartRound(w)
    BY <2>1, AwakeStep DEF StartRound, Locations, Parking
  <2>2. CASE TakeOne(w) BY <2>2, AwakeStep DEF TakeOne, Locations, Parking
  <2>3. CASE NextRing(w) BY <2>3, CallerStep DEF NextRing
  <2>4. CASE HandlerReturns(w)
    BY <2>4, AwakeStep DEF HandlerReturns, InHandler, Locations, Parking
  <2>5. CASE AnnounceRoom(w)
    BY <2>5, AwakeStep DEF AnnounceRoom, EndRound, Locations, Parking
  <2>6. CASE Spin(w) BY <2>6, AwakeStep DEF Spin, EndRound, Locations, Parking
  <2> QED BY <1>5, <2>1, <2>2, <2>3, <2>4, <2>5, <2>6, ParkStep, SleepStep, UnparkStep
          DEF WorkerStep
<1>6. CASE StopStep BY <1>6, StopSteps
<1>7. CASE UNCHANGED vars BY <1>7, CallerStep DEF vars
<1> QED BY <1>1, <1>2, <1>3, <1>4, <1>5, <1>6, <1>7 DEF Next

(* The counter that Submit reads without a lock counts exactly the workers *)
(* between their two updates of it (sched.go 108, 221-227).                *)
THEOREM ParkedCounter == Spec => []ParkedIsExact
<1>1. WorkerInv => ParkedIsExact
  BY DEF WorkerInv, ParkedIsExact, Counted, Parking
<1> QED BY SchedulerInit, SchedulerStep, <1>1, PTL DEF Spec

(***************************************************************************)
(* A ring that was torn stays torn, and an Enqueue that tears none is that *)
(* of a bounded queue.                                                     *)
(***************************************************************************)
Room(r) == Len(rings[r]) < RingSize

LEMMA CleanEnqueue ==
  ASSUME NEW p, NEW e, NEW r \in RingIds, NEW ok, Enqueue(p, e, r, ok), torn' = {}
  PROVE  /\ ok => Room(r) /\ rings' = [rings EXCEPT ![r] = Append(@, e)]
         /\ ~ok => ~Room(r) /\ rings' = [rings EXCEPT ![r] = @]
         /\ torn = {}
BY DEF Enqueue, Room

LEMMA TornStays == [Next]_vars /\ torn' = {} => torn = {}
<1> SUFFICES ASSUME [Next]_vars, torn' = {} PROVE torn = {}
  OBVIOUS
<1>1. ASSUME NEW p, NEW e, NEW r, NEW ok, Enqueue(p, e, r, ok) PROVE torn = {}
  BY <1>1 DEF Enqueue
<1>2. CASE UNCHANGED torn BY <1>2
<1>3. ASSUME NEW p, NEW e, NEW r, SubmitFast(p, e, r) PROVE torn = {}
  BY <1>1, <1>3 DEF SubmitFast
<1>4. ASSUME NEW p, SubmitStep(p) PROVE torn = {}
  <2>1. CASE ScanRing(p) BY <1>1, <2>1 DEF ScanRing
  <2>2. CASE Retry(p) BY <1>1, <2>2 DEF Retry
  <2> QED BY <1>2, <1>4, <2>1, <2>2
          DEF SubmitStep, ScanEnter, WaitForRoom, GiveUp, CheckParked, Signal, ringVars
<1>5. ASSUME NEW w, WorkerStep(w) PROVE torn = {}
  BY <1>2, <1>5 DEF WorkerStep, StartRound, TakeOne, NextRing, HandlerReturns, AnnounceRoom,
                    Spin, Park, Sleep, Unpark, ringVars
<1>6. CASE StopStep BY <1>2, <1>6 DEF StopStep, SetStop, CloseDone, Join, ringVars
<1>7. CASE UNCHANGED vars BY <1>2, <1>7 DEF vars, ringVars
<1> QED BY <1>2, <1>3, <1>4, <1>5, <1>6, <1>7
        DEF Next, ProducerSubmits, HandlerSubmits, HandlerPanics, ringVars

(***************************************************************************)
(* Where the events are, as long as no ring is torn.                       *)
(***************************************************************************)
(* Where a caller holds no event, and where it holds one.                  *)
Empty == {"idle", "wake", "signal"}
Full == {"scan", "fill", "wait", "blocked", "retry", "giveUp"}
Handling == {"run", "emit"}

EventTypes ==
  /\ rings \in [RingIds -> Seq(Events)]
  /\ spc \in [Callers -> Empty \cup Full]
  /\ hand \in [Callers -> Events \cup {NoEvent}]
  /\ at \in [Callers -> RingIds]
  /\ visit \in [Workers -> Nat]
  /\ cur \in [Workers -> Events \cup {NoEvent}]
  /\ free \subseteq Events

HoldersHold ==
  /\ \A p \in Callers : hand[p] = NoEvent <=> spc[p] \in Empty
  /\ \A w \in Workers : cur[w] = NoEvent <=> wpc[w] \notin Handling

WaitersWait ==
  /\ roomQueue \in Seq(Callers)
  /\ \A i \in 1 .. Len(roomQueue) : spc[roomQueue[i]] = "blocked"
  /\ \A i, j \in 1 .. Len(roomQueue) : roomQueue[i] = roomQueue[j] => i = j

GiveUpWhenDone == \A p \in Callers : spc[p] = "giveUp" => done

(* Each event is in one place of one kind, and in one kind of place.       *)
Once(slots) ==
  \A p, q \in DOMAIN slots : slots[p] = slots[q] /\ slots[p] # NoEvent => p = q
RingsOnce(rs) ==
  \A r, s \in RingIds : \A i \in 1 .. Len(rs[r]), j \in 1 .. Len(rs[s]) :
    rs[r][i] = rs[s][j] => r = s /\ i = j
Apart(f, h, q, c) ==
  /\ f \cap h = {} /\ f \cap q = {} /\ f \cap c = {}
  /\ h \cap q = {} /\ h \cap c = {} /\ q \cap c = {}

OnePlace ==
  /\ Once(hand) /\ Once(cur) /\ RingsOnce(rings)
  /\ Apart(free, Held(hand), Queued(rings), Held(cur))

EventInv ==
  /\ EventTypes
  /\ HoldersHold
  /\ WaitersWait
  /\ GiveUpWhenDone
  /\ OnePlace
-----------------------------------------------------------------------------
(* The operators that name the places.                                     *)
LEMMA HeldAdd ==
  ASSUME NEW S, NEW slots \in [S -> Events \cup {NoEvent}], NEW p \in S, NEW e \in Events,
         slots[p] = NoEvent, e \notin Held(slots), Once(slots)
  PROVE  /\ Held([slots EXCEPT ![p] = e]) = Held(slots) \cup {e}
         /\ Once([slots EXCEPT ![p] = e])
<1> USE SchedulerAssumption
<1> DEFINE after == [slots EXCEPT ![p] = e]
<1>1. \A x : x \in Held(slots) <=> x # NoEvent /\ \E q \in S : slots[q] = x
  BY DEF Held
<1>2. \A x : x \in Held(after) <=> x # NoEvent /\ \E q \in S : after[q] = x
  BY DEF Held
<1>3. Held(after) = Held(slots) \cup {e}
  <2>1. ASSUME NEW x PROVE x \in Held(after) <=> x \in Held(slots) \/ x = e
    <3>1. CASE x = e BY <1>2, <3>1
    <3>2. CASE x # e BY <1>1, <1>2, <3>2
    <3> QED BY <3>1, <3>2
  <2> QED BY <2>1
<1>4. Once(after) BY <1>1 DEF Once
<1> QED BY <1>3, <1>4

LEMMA HeldRemove ==
  ASSUME NEW S, NEW slots \in [S -> Events \cup {NoEvent}], NEW p \in S, Once(slots),
         slots[p] # NoEvent,
         NEW after, after = [slots EXCEPT ![p] = NoEvent]
  PROVE  /\ Held(after) = Held(slots) \ {slots[p]} /\ Once(after)
         /\ slots[p] \in Held(slots) /\ slots[p] \in Events
<1>1. \A x : x \in Held(slots) <=> x # NoEvent /\ \E q \in S : slots[q] = x
  BY DEF Held
<1>2. \A x : x \in Held(after) <=> x # NoEvent /\ \E q \in S : after[q] = x
  BY DEF Held
<1>3. Held(after) = Held(slots) \ {slots[p]}
  <2>1. ASSUME NEW x PROVE x \in Held(after) <=> x \in Held(slots) /\ x # slots[p]
    BY <1>1, <1>2 DEF Once
  <2> QED BY <2>1
<1>4. Once(after) BY DEF Once
<1> QED BY <1>1, <1>3, <1>4

LEMMA InQueued ==
  ASSUME NEW rs \in [RingIds -> Seq(Events)]
  PROVE  \A x : x \in Queued(rs) <=> \E r \in RingIds : \E i \in 1 .. Len(rs[r]) : rs[r][i] = x
<1>1. \A r \in RingIds : DOMAIN rs[r] = 1 .. Len(rs[r])
  OBVIOUS
<1> QED BY <1>1 DEF Queued

LEMMA QueueAdd ==
  ASSUME NEW rs \in [RingIds -> Seq(Events)], NEW r \in RingIds, NEW e \in Events,
         e \notin Queued(rs), RingsOnce(rs)
  PROVE  LET after == [rs EXCEPT ![r] = Append(@, e)]
         IN /\ after \in [RingIds -> Seq(Events)]
            /\ Queued(after) = Queued(rs) \cup {e} /\ RingsOnce(after)
<1> DEFINE after == [rs EXCEPT ![r] = Append(@, e)]
<1>1. after \in [RingIds -> Seq(Events)] OBVIOUS
<1>2. /\ Len(after[r]) = Len(rs[r]) + 1 /\ Len(rs[r]) \in Nat
      /\ \A i \in 1 .. Len(rs[r]) : after[r][i] = rs[r][i]
      /\ after[r][Len(rs[r]) + 1] = e
      /\ \A s \in RingIds \ {r} : after[s] = rs[s]
  OBVIOUS
<1> HIDE DEF after
<1>3. ASSUME NEW x PROVE x \in Queued(after) <=> x \in Queued(rs) \/ x = e
  <2>1. ASSUME x \in Queued(after) PROVE x \in Queued(rs) \/ x = e
    <3>1. PICK s \in RingIds : \E i \in 1 .. Len(after[s]) : after[s][i] = x
      BY <1>1, <2>1, InQueued
    <3>2. PICK i \in 1 .. Len(after[s]) : after[s][i] = x BY <3>1
    <3>3. CASE s # r BY <1>2, <3>2, <3>3, InQueued
    <3>4. CASE s = r /\ i = Len(rs[r]) + 1 BY <1>2, <3>2, <3>4
    <3>5. CASE s = r /\ i \in 1 .. Len(rs[r]) BY <1>2, <3>2, <3>5, InQueued
    <3> QED BY <1>2, <3>3, <3>4, <3>5
  <2>2. ASSUME x \in Queued(rs) PROVE x \in Queued(after)
    <3>1. PICK s \in RingIds : \E i \in 1 .. Len(rs[s]) : rs[s][i] = x
      BY <2>2, InQueued
    <3>2. PICK i \in 1 .. Len(rs[s]) : rs[s][i] = x BY <3>1
    <3>3. i \in 1 .. Len(after[s]) /\ after[s][i] = x BY <1>2, <3>2
    <3> QED BY <1>1, <3>3, InQueued
  <2>3. e \in Queued(after)
    <3>1. Len(rs[r]) + 1 \in 1 .. Len(after[r]) BY <1>2
    <3> QED BY <1>1, <1>2, <3>1, InQueued
  <2> QED BY <2>1, <2>2, <2>3
<1>4. Queued(after) = Queued(rs) \cup {e} BY <1>3
<1>5. RingsOnce(after)
  <2>1. \A s \in RingIds : \A i \in 1 .. Len(rs[s]) : rs[s][i] # e BY InQueued
  <2> SUFFICES ASSUME NEW s \in RingIds, NEW t \in RingIds,
                      NEW i \in 1 .. Len(after[s]), NEW j \in 1 .. Len(after[t]),
                      after[s][i] = after[t][j]
               PROVE  s = t /\ i = j
    BY DEF RingsOnce
  <2>2. ASSUME NEW q \in RingIds, NEW k \in 1 .. Len(after[q])
        PROVE  \/ q = r /\ k = Len(rs[r]) + 1 /\ after[q][k] = e
               \/ k \in 1 .. Len(rs[q]) /\ after[q][k] = rs[q][k]
    <3>1. CASE q # r BY <1>2, <3>1
    <3>2. CASE q = r /\ k = Len(rs[r]) + 1 BY <1>2, <3>2
    <3>3. CASE q = r /\ k \in 1 .. Len(rs[r]) BY <1>2, <3>3
    <3> QED BY <1>2, <3>1, <3>2, <3>3
  <2>3. /\ \/ s = r /\ i = Len(rs[r]) + 1 /\ after[s][i] = e
           \/ i \in 1 .. Len(rs[s]) /\ after[s][i] = rs[s][i]
        /\ \/ t = r /\ j = Len(rs[r]) + 1 /\ after[t][j] = e
           \/ j \in 1 .. Len(rs[t]) /\ after[t][j] = rs[t][j]
    BY <2>2
  <2> QED BY <2>1, <2>3 DEF RingsOnce
<1> QED BY <1>1, <1>4, <1>5 DEF after

LEMMA QueueRemove ==
  ASSUME NEW rs \in [RingIds -> Seq(Events)], NEW r \in RingIds, rs[r] # << >>,
         RingsOnce(rs)
  PROVE  LET after == [rs EXCEPT ![r] = Tail(@)]
             e == Head(rs[r])
         IN /\ after \in [RingIds -> Seq(Events)] /\ e \in Events /\ e \in Queued(rs)
            /\ Queued(after) = Queued(rs) \ {e} /\ RingsOnce(after)
<1> DEFINE after == [rs EXCEPT ![r] = Tail(@)]
           e == Head(rs[r])
<1>1. after \in [RingIds -> Seq(Events)] OBVIOUS
<1>2. /\ Len(after[r]) = Len(rs[r]) - 1 /\ Len(rs[r]) \in Nat \ {0}
      /\ \A i \in 1 .. Len(after[r]) : after[r][i] = rs[r][i + 1]
      /\ \A s \in RingIds \ {r} : after[s] = rs[s]
      /\ e = rs[r][1] /\ e \in Events
  OBVIOUS
<1> HIDE DEF after, e
<1>3. e \in Queued(rs)
  <2>1. 1 \in 1 .. Len(rs[r]) BY <1>2
  <2> QED BY <1>2, <2>1, InQueued
<1>4. ASSUME NEW x PROVE x \in Queued(after) <=> x \in Queued(rs) /\ x # e
  <2>1. ASSUME x \in Queued(after) PROVE x \in Queued(rs) /\ x # e
    <3>1. PICK s \in RingIds : \E i \in 1 .. Len(after[s]) : after[s][i] = x
      BY <1>1, <2>1, InQueued
    <3>2. PICK i \in 1 .. Len(after[s]) : after[s][i] = x BY <3>1
    <3>3. CASE s # r
      <4>1. i \in 1 .. Len(rs[s]) /\ rs[s][i] = x BY <1>2, <3>2, <3>3
      <4>2. 1 \in 1 .. Len(rs[r]) BY <1>2
      <4> QED BY <1>2, <3>3, <4>1, <4>2, InQueued DEF RingsOnce
    <3>4. CASE s = r
      <4>1. i + 1 \in 1 .. Len(rs[r]) /\ rs[r][i + 1] = x /\ i + 1 # 1 BY <1>2, <3>2, <3>4
      <4>2. 1 \in 1 .. Len(rs[r]) BY <1>2
      <4> QED BY <1>2, <4>1, <4>2, InQueued DEF RingsOnce
    <3> QED BY <3>3, <3>4
  <2>2. ASSUME x \in Queued(rs), x # e PROVE x \in Queued(after)
    <3>1. PICK s \in RingIds : \E i \in 1 .. Len(rs[s]) : rs[s][i] = x
      BY <2>2, InQueued
    <3>2. PICK i \in 1 .. Len(rs[s]) : rs[s][i] = x BY <3>1
    <3>3. CASE s # r BY <1>1, <1>2, <3>2, <3>3, InQueued
    <3>4. CASE s = r
      <4>1. i - 1 \in 1 .. Len(after[r]) /\ (i - 1) + 1 = i BY <1>2, <2>2, <3>2, <3>4
      <4>2. after[r][i - 1] = x BY <1>2, <3>2, <3>4, <4>1
      <4> QED BY <1>1, <4>1, <4>2, InQueued
    <3> QED BY <3>3, <3>4
  <2> QED BY <2>1, <2>2
<1>5. Queued(after) = Queued(rs) \ {e} BY <1>4
<1>6. RingsOnce(after)
  <2> SUFFICES ASSUME NEW s \in RingIds, NEW t \in RingIds,
                      NEW i \in 1 .. Len(after[s]), NEW j \in 1 .. Len(after[t]),
                      after[s][i] = after[t][j]
               PROVE  s = t /\ i = j
    BY DEF RingsOnce
  <2> DEFINE Old(q, k) == IF q = r THEN k + 1 ELSE k
  <2>1. ASSUME NEW q \in RingIds, NEW k \in 1 .. Len(after[q])
        PROVE  Old(q, k) \in 1 .. Len(rs[q]) /\ rs[q][Old(q, k)] = after[q][k]
    <3>1. CASE q = r BY <1>2, <3>1
    <3>2. CASE q # r BY <1>2, <3>2
    <3> QED BY <3>1, <3>2
  <2>2. /\ Old(s, i) \in 1 .. Len(rs[s]) /\ rs[s][Old(s, i)] = after[s][i]
        /\ Old(t, j) \in 1 .. Len(rs[t]) /\ rs[t][Old(t, j)] = after[t][j]
    BY <2>1
  <2>3. s = t /\ Old(s, i) = Old(t, j)
    <3> HIDE DEF Old
    <3> QED BY <2>2 DEF RingsOnce
  <2> QED BY <2>3
<1> QED BY <1>1, <1>2, <1>3, <1>5, <1>6 DEF after, e
-----------------------------------------------------------------------------
(* The steps that move an event, and their abstract ones.                  *)
LEMMA CallerMoves ==
  ASSUME EventInv, NEW p \in Callers, NEW l \in Empty \cup Full,
         spc[p] # "blocked", l # "blocked", l # "giveUp",
         spc' = [spc EXCEPT ![p] = l], UNCHANGED <<roomQueue, phase>>
  PROVE  WaitersWait' /\ GiveUpWhenDone' /\ spc' \in [Callers -> Empty \cup Full]
<1>1. WaitersWait' BY DEF EventInv, EventTypes, WaitersWait
<1>2. GiveUpWhenDone' BY DEF EventInv, EventTypes, GiveUpWhenDone, done
<1> QED BY <1>1, <1>2 DEF EventInv, EventTypes

LEMMA HandAdd ==
  ASSUME NEW p \in Callers, NEW e \in Events, hand \in [Callers -> Events \cup {NoEvent}],
         Once(hand), hand[p] = NoEvent, e \notin Held(hand), hand' = [hand EXCEPT ![p] = e]
  PROVE  Held(hand') = Held(hand) \cup {e} /\ Once(hand')
<1>1. \A x : x \in Held(hand) <=> x # NoEvent /\ \E q \in Callers : hand[q] = x
  BY DEF Held
<1>2. \A x : x \in Held(hand') <=> x # NoEvent /\ \E q \in Callers : hand'[q] = x
  BY DEF Held
<1>3. e # NoEvent BY SchedulerAssumption
<1>4. ASSUME NEW x PROVE x \in Held(hand') <=> x \in Held(hand) \/ x = e
  BY <1>1, <1>2, <1>3
<1>5. Once(hand') BY <1>1, <1>3 DEF Once
<1> QED BY <1>4, <1>5

LEMMA SubmitFastStep ==
  ASSUME EventInv, NEW p \in Callers, NEW e \in Events, NEW r \in RingIds,
         SubmitFast(p, e, r), torn' = {},
         wpc' = wpc \/ (p \in Workers /\ wpc[p] = "run" /\ wpc' = [wpc EXCEPT ![p] = "emit"]),
         wpc \in [Workers -> Locations]
  PROVE  EventInv' /\ D!Next
<1> USE DEF EventInv, SubmitFast, roundVars, wakeVars
<1>0. hand[p] = NoEvent /\ e \in free /\ e \notin Held(hand) /\ e \notin Queued(rings)
  BY DEF HoldersHold, Empty, OnePlace, Apart
<1>1. \A w \in Workers : wpc'[w] \in Handling <=> wpc[w] \in Handling
  BY DEF Handling
<1>2. CASE Enqueue(p, e, r, TRUE) /\ spc' = [spc EXCEPT ![p] = "wake"] /\ hand' = hand
  <2>0. rings' = [rings EXCEPT ![r] = Append(@, e)] BY <1>2, CleanEnqueue
  <2>1. /\ rings' \in [RingIds -> Seq(Events)]
        /\ Queued(rings') = Queued(rings) \cup {e} /\ RingsOnce(rings')
    BY <1>0, <2>0, QueueAdd DEF OnePlace, EventTypes
  <2>2. OnePlace'
    BY <1>0, <1>2, <2>1 DEF OnePlace, Apart
  <2>3. WaitersWait' /\ GiveUpWhenDone' /\ spc' \in [Callers -> Empty \cup Full]
    BY <1>2, CallerMoves DEF Empty
  <2>4. EventTypes' BY <1>2, <2>1, <2>3 DEF EventTypes
  <2>5. HoldersHold' BY <1>0, <1>1, <1>2 DEF HoldersHold, EventTypes, Empty
  <2>6. D!Submit(e) BY <1>0, <1>2, <2>1 DEF D!Submit
  <2> QED BY <2>2, <2>3, <2>4, <2>5, <2>6 DEF D!Next
<1>3. CASE /\ Enqueue(p, e, r, FALSE) /\ spc' = [spc EXCEPT ![p] = "scan"]
           /\ hand' = [hand EXCEPT ![p] = e]
  <2>0. rings' = rings
    <3>1. rings' = [rings EXCEPT ![r] = @] BY <1>3, CleanEnqueue
    <3> QED BY <3>1 DEF EventTypes
  <2>1. Held(hand') = Held(hand) \cup {e} /\ Once(hand')
    BY <1>0, <1>3, HandAdd DEF EventTypes, OnePlace
  <2>2. OnePlace'
    <3>1. /\ free' = free \ {e} /\ e \in free /\ Queued(rings') = Queued(rings)
          /\ Held(cur') = Held(cur) /\ Once(cur') = Once(cur)
          /\ RingsOnce(rings') = RingsOnce(rings)
      BY <1>0, <2>0
    <3>2. OnePlace OBVIOUS
    <3> HIDE DEF EventInv, SubmitFast
    <3> QED BY <2>1, <3>1, <3>2 DEF OnePlace, Apart
  <2>3. WaitersWait' /\ GiveUpWhenDone' /\ spc' \in [Callers -> Empty \cup Full]
    BY <1>3, CallerMoves DEF Full
  <2>4. EventTypes' BY <1>3, <2>0, <2>3 DEF EventTypes
  <2>5. HoldersHold'
    BY <1>1, <1>3, SchedulerAssumption DEF HoldersHold, EventTypes, Empty
  <2>6. D!Submit(e) BY <1>0, <1>3, <2>0, <2>1 DEF D!Submit
  <2> QED BY <2>2, <2>3, <2>4, <2>5, <2>6 DEF D!Next
<1> QED BY <1>2, <1>3

(* The caller's event gets into a ring at last.                            *)
LEMMA PutStep ==
  ASSUME EventInv, NEW p \in Callers, NEW r \in RingIds,
         spc[p] \in {"fill", "retry"}, Enqueue(p, hand[p], r, TRUE), torn' = {},
         hand' = [hand EXCEPT ![p] = NoEvent], spc' = [spc EXCEPT ![p] = "wake"],
         at' \in [Callers -> RingIds],
         UNCHANGED <<bp, roomQueue, wpc, roundVars, phase, eventVars>>
  PROVE  EventInv' /\ D!Next
<1> USE DEF EventInv, roundVars, eventVars
<1> DEFINE e == hand[p]
<1>1. e # NoEvent /\ e \in Events
  BY DEF HoldersHold, EventTypes, Empty
<1>2. /\ Held(hand') = Held(hand) \ {e} /\ Once(hand')
      /\ e \in Held(hand) /\ e \notin Queued(rings)
  BY <1>1, HeldRemove DEF EventTypes, OnePlace, Apart
<1>3. /\ rings' \in [RingIds -> Seq(Events)]
      /\ Queued(rings') = Queued(rings) \cup {e} /\ RingsOnce(rings')
  <2>1. rings' = [rings EXCEPT ![r] = Append(@, e)] BY CleanEnqueue
  <2> QED BY <1>1, <1>2, <2>1, QueueAdd DEF OnePlace, EventTypes
<1>4. OnePlace' BY <1>2, <1>3 DEF OnePlace, Apart
<1>5. WaitersWait' /\ GiveUpWhenDone' /\ spc' \in [Callers -> Empty \cup Full]
  BY CallerMoves DEF Empty
<1>6. EventTypes' BY <1>3, <1>5 DEF EventTypes
<1>7. HoldersHold' BY DEF HoldersHold, EventTypes, Empty
<1>8. D!Queue(e) BY <1>2, <1>3 DEF D!Queue
<1> QED BY <1>1, <1>4, <1>5, <1>6, <1>7, <1>8 DEF D!Next

LEMMA GiveUpStep ==
  ASSUME EventInv, NEW p \in Callers, GiveUp(p)
  PROVE  EventInv' /\ D!Next
<1> USE DEF EventInv, GiveUp, roundVars, wakeVars, ringVars
<1> DEFINE e == hand[p]
<1>1. e # NoEvent /\ e \in Events /\ done
  BY DEF HoldersHold, EventTypes, Empty, GiveUpWhenDone
<1>2. Held(hand') = Held(hand) \ {e} /\ Once(hand') /\ e \in Held(hand)
  BY <1>1, HeldRemove DEF EventTypes, OnePlace
<1>3. OnePlace' BY <1>2 DEF OnePlace, Apart
<1>4. WaitersWait' /\ GiveUpWhenDone' /\ spc' \in [Callers -> Empty \cup Full]
  BY CallerMoves DEF Empty
<1>5. EventTypes' BY <1>4 DEF EventTypes
<1>6. HoldersHold' BY DEF HoldersHold, EventTypes, Empty
<1>7. D!Drop(e) BY <1>1, <1>2 DEF D!Drop, done
<1> QED BY <1>1, <1>3, <1>4, <1>5, <1>6, <1>7 DEF D!Next

LEMMA TakeStep ==
  ASSUME WorkerInv, EventInv, torn = {}, NEW w \in Workers, TakeOne(w)
  PROVE  EventInv' /\ D!Next
<1> USE DEF EventInv, TakeOne, submitVars, wakeVars, eventVars
<1> DEFINE r == visit[w]
           e == Head(rings[r])
<1>0. /\ rings[r] # << >> /\ cur' = [cur EXCEPT ![w] = e]
      /\ rings' = [rings EXCEPT ![r] = Tail(@)]
  BY DEF Dequeue
<1>1. r \in RingIds BY SchedulerAssumption DEF EventTypes, RingIds
<1>2. /\ rings' \in [RingIds -> Seq(Events)] /\ e \in Events /\ e \in Queued(rings)
      /\ Queued(rings') = Queued(rings) \ {e} /\ RingsOnce(rings')
  BY <1>0, <1>1, QueueRemove DEF EventTypes, OnePlace
<1>3. cur[w] = NoEvent /\ e \notin Held(cur)
  BY <1>2 DEF HoldersHold, Handling, OnePlace, Apart
<1>4. Held(cur') = Held(cur) \cup {e} /\ Once(cur')
  <2>1. cur \in [Workers -> Events \cup {NoEvent}] /\ Once(cur)
    BY DEF EventTypes, OnePlace
  <2>2. cur' = [cur EXCEPT ![w] = e] /\ e \in Events
    BY <1>0, <1>2
  <2>3. e \in Events /\ e \notin Held(cur) /\ cur[w] = NoEvent BY <2>2, <1>3
  <2> HIDE DEF e, EventInv, TakeOne, submitVars, wakeVars, eventVars
  <2>4. /\ Held([cur EXCEPT ![w] = e]) = Held(cur) \cup {e}
        /\ Once([cur EXCEPT ![w] = e])
    BY <2>1, <2>3, HeldAdd, Zenon
  <2> QED BY <2>2, <2>4
<1>5. OnePlace' BY <1>2, <1>3, <1>4 DEF OnePlace, Apart
<1>6. EventTypes' BY <1>0, <1>2 DEF EventTypes
<1>7. HoldersHold'
  BY <1>0, <1>2, SchedulerAssumption DEF HoldersHold, EventTypes, Handling, WorkerInv
<1>8. WaitersWait' /\ GiveUpWhenDone' BY DEF WaitersWait, GiveUpWhenDone, done
<1>9. D!Take(e)
  <2>1. phase # "joined" BY DEF WorkerInv, AllGone
  <2> QED BY <1>2, <1>4, <2>1 DEF D!Take
<1> QED BY <1>2, <1>5, <1>6, <1>7, <1>8, <1>9 DEF D!Next

LEMMA FinishStep ==
  ASSUME WorkerInv, EventInv, NEW w \in Workers, HandlerReturns(w) \/ HandlerPanics(w)
  PROVE  EventInv' /\ D!Next
<1> USE DEF EventInv, HandlerReturns, HandlerPanics, InHandler, submitVars, wakeVars, ringVars
<1> DEFINE e == cur[w]
<1>1. e # NoEvent BY DEF HoldersHold, Handling
<1>2. /\ Held(cur') = Held(cur) \ {e} /\ Once(cur')
      /\ e \in Held(cur) /\ e \in Events
  <2>1. cur \in [Workers -> Events \cup {NoEvent}] /\ Once(cur)
    BY DEF EventTypes, OnePlace
  <2>2. cur' = [cur EXCEPT ![w] = NoEvent]
    OBVIOUS
  <2> HIDE DEF EventInv, HandlerReturns, HandlerPanics, InHandler, submitVars, wakeVars
  <2> QED BY <1>1, <2>1, <2>2, HeldRemove
<1>3. OnePlace' BY <1>2 DEF OnePlace, Apart
<1>4. EventTypes'
  <2>1. w \in Nat BY SchedulerAssumption DEF Workers
  <2>2. visit' \in [Workers -> Nat] BY <2>1 DEF EventTypes
  <2>3. cur' \in [Workers -> Events \cup {NoEvent}] BY DEF EventTypes
  <2>4. free' \subseteq Events BY <1>2 DEF EventTypes
  <2>5. UNCHANGED <<rings, spc, hand, at>> OBVIOUS
  <2> QED BY <2>2, <2>3, <2>4, <2>5 DEF EventTypes
<1>5. HoldersHold' BY DEF HoldersHold, EventTypes, Handling, WorkerInv
<1>6. WaitersWait' /\ GiveUpWhenDone' BY DEF WaitersWait, GiveUpWhenDone, done
<1>7. D!Finish(e)
  <2>1. free' = free \cup {e} BY <1>1
  <2> QED BY <1>2, <2>1 DEF D!Finish
<1> QED BY <1>2, <1>3, <1>4, <1>5, <1>6, <1>7 DEF D!Next
-----------------------------------------------------------------------------
(* The steps that move no event.                                           *)
LEMMA NoMove ==
  ASSUME EventInv, UNCHANGED <<rings, hand, cur, free, lost>>
  PROVE  OnePlace' /\ (phase' = phase => UNCHANGED D!vars)
BY DEF EventInv, OnePlace, D!vars, D!places

(* A caller looks for room, or is done with its event.                     *)
LEMMA CallerGoesOn ==
  ASSUME EventInv, NEW p \in Callers, NEW l \in Empty \cup Full,
         spc[p] # "blocked", l # "blocked", l = "giveUp" => done,
         spc[p] \in Empty <=> l \in Empty,
         spc' = [spc EXCEPT ![p] = l],
         \A w \in Workers : wpc'[w] \in Handling <=> wpc[w] \in Handling,
         at' \in [Callers -> RingIds],
         UNCHANGED <<rings, hand, cur, free, lost, visit, roomQueue, phase>>
  PROVE  EventInv' /\ UNCHANGED D!vars
<1> USE DEF EventInv
<1>1. EventTypes' BY DEF EventTypes
<1>2. HoldersHold' BY DEF HoldersHold, EventTypes
<1>3. WaitersWait' BY DEF WaitersWait, EventTypes
<1>4. GiveUpWhenDone' BY DEF GiveUpWhenDone, EventTypes, done
<1> QED BY <1>1, <1>2, <1>3, <1>4, NoMove

LEMMA BlockStep ==
  ASSUME EventInv, NEW p \in Callers, spc[p] = "wait",
         roomQueue' = Append(roomQueue, p),
         spc' = [spc EXCEPT ![p] = "blocked"],
         UNCHANGED <<rings, hand, at, wpc, cur, free, lost, visit, phase>>
  PROVE  EventInv' /\ UNCHANGED D!vars
<1> USE DEF EventInv
<1>1. EventTypes' BY DEF EventTypes, Full
<1>2. HoldersHold' BY DEF HoldersHold, EventTypes, Empty
<1>3. WaitersWait'
  <2>1. \A i \in 1 .. Len(roomQueue) : roomQueue[i] # p BY DEF WaitersWait
  <2>2. roomQueue \in Seq(Callers) BY DEF WaitersWait
  <2>3. /\ roomQueue' \in Seq(Callers) /\ Len(roomQueue') = Len(roomQueue) + 1
        /\ Len(roomQueue) \in Nat
        /\ roomQueue'[Len(roomQueue) + 1] = p
        /\ \A i \in 1 .. Len(roomQueue) : roomQueue'[i] = roomQueue[i]
    BY <2>2
  <2>4. \A i \in 1 .. Len(roomQueue') : spc'[roomQueue'[i]] = "blocked"
    BY <2>1, <2>3 DEF WaitersWait, EventTypes
  <2>5. \A i, j \in 1 .. Len(roomQueue') : roomQueue'[i] = roomQueue'[j] => i = j
    BY <2>1, <2>3 DEF WaitersWait
  <2> QED BY <2>3, <2>4, <2>5 DEF WaitersWait
<1>4. GiveUpWhenDone' BY DEF GiveUpWhenDone, EventTypes, done
<1> QED BY <1>1, <1>2, <1>3, <1>4, NoMove

LEMMA SubmitSteps ==
  ASSUME WorkerInv, EventInv, torn' = {}, NEW p \in Callers, SubmitStep(p)
  PROVE  EventInv' /\ [D!Next]_D!vars
<1> USE DEF roundVars, wakeVars, eventVars, ringVars
<1>0. 0 \in RingIds /\ at[p] \in RingIds
      /\ (at[p] + 1 < NumRings => at[p] + 1 \in RingIds)
  BY SchedulerAssumption DEF EventInv, EventTypes, RingIds
<1>r. \A r : rings' = [rings EXCEPT ![r] = @] => rings' = rings
  BY DEF EventInv, EventTypes
<1>1. CASE ScanRing(p)
  <2>1. at' \in [Callers -> RingIds]
    BY <1>0, <1>1 DEF ScanRing, EventInv, EventTypes
  <2>2. CASE Enqueue(p, hand[p], at[p], TRUE) /\ spc' = [spc EXCEPT ![p] = "wake"]
             /\ hand' = [hand EXCEPT ![p] = NoEvent]
    BY <1>0, <1>1, <2>1, <2>2, PutStep DEF ScanRing
  <2>3. CASE Enqueue(p, hand[p], at[p], FALSE) /\ UNCHANGED hand
             /\ \E l \in {"scan", "wait"} : spc' = [spc EXCEPT ![p] = l]
    <3>1. rings' = rings BY <1>0, <1>r, <2>3, CleanEnqueue
    <3> QED BY <1>1, <2>1, <2>3, <3>1, CallerGoesOn DEF ScanRing, Empty, Full
  <2> QED BY <1>1, <2>2, <2>3 DEF ScanRing
<1>s. CASE ScanEnter(p)
  <2>1. at' \in [Callers -> RingIds] BY <1>s DEF ScanEnter, EventInv, EventTypes
  <2> QED BY <1>s, <2>1, CallerGoesOn DEF ScanEnter, Empty, Full
<1>2. CASE WaitForRoom(p)
  <2>1. at' \in [Callers -> RingIds] BY <1>2 DEF WaitForRoom, EventInv, EventTypes
  <2>2. CASE roomQueue' = roomQueue
    BY <1>2, <2>1, <2>2, CallerGoesOn DEF WaitForRoom, Empty, Full
  <2>3. CASE roomQueue' = Append(roomQueue, p) /\ spc' = [spc EXCEPT ![p] = "blocked"]
    BY <1>2, <2>3, BlockStep DEF WaitForRoom
  <2> QED BY <1>2, <2>2, <2>3 DEF WaitForRoom
<1>3. CASE Retry(p)
  <2>1. at' \in [Callers -> RingIds] BY <1>3 DEF Retry, EventInv, EventTypes
  <2>2. PICK r \in RingIds :
          \/ Enqueue(p, hand[p], r, TRUE) /\ spc' = [spc EXCEPT ![p] = "wake"]
             /\ hand' = [hand EXCEPT ![p] = NoEvent]
          \/ Enqueue(p, hand[p], r, FALSE) /\ spc' = [spc EXCEPT ![p] = "wait"]
             /\ UNCHANGED hand
    BY <1>3 DEF Retry
  <2>3. CASE spc' = [spc EXCEPT ![p] = "wake"] /\ Enqueue(p, hand[p], r, TRUE)
             /\ hand' = [hand EXCEPT ![p] = NoEvent]
    BY <1>3, <2>1, <2>3, PutStep DEF Retry
  <2>4. CASE spc' = [spc EXCEPT ![p] = "wait"] /\ Enqueue(p, hand[p], r, FALSE)
             /\ UNCHANGED hand
    <3>1. rings' = rings BY <1>r, <2>4, CleanEnqueue
    <3> QED BY <1>3, <2>1, <2>4, <3>1, CallerGoesOn DEF Retry, Empty, Full
  <2> QED BY <2>2, <2>3, <2>4
<1>4. CASE GiveUp(p) BY <1>4, GiveUpStep
<1>5. CASE CheckParked(p)
  <2>1. at' \in [Callers -> RingIds] BY <1>5 DEF CheckParked, EventInv, EventTypes
  <2> QED BY <1>5, <2>1, CallerGoesOn DEF CheckParked, Empty, Full
<1>6. CASE Signal(p)
  <2>1. at' \in [Callers -> RingIds] BY <1>6 DEF Signal, EventInv, EventTypes
  <2>2. \A w \in Workers : wpc'[w] \in Handling <=> wpc[w] \in Handling
    <3>1. CASE sleepers = << >> BY <1>6, <3>1 DEF Signal
    <3>2. CASE sleepers # << >>
      <4>1. Head(sleepers) \in Workers /\ wpc[Head(sleepers)] = "asleep"
        BY <3>2 DEF WorkerInv, SleepersSleep
      <4> QED BY <1>6, <3>2, <4>1 DEF Signal, WorkerInv, Handling
    <3> QED BY <3>1, <3>2
  <2> QED BY <1>6, <2>1, <2>2, CallerGoesOn DEF Signal, Empty, Full
<1> QED BY <1>1, <1>s, <1>2, <1>3, <1>4, <1>5, <1>6 DEF SubmitStep

(* A worker goes on, without an event in its hands.                        *)
LEMMA WorkerMoves ==
  ASSUME EventInv, WorkerInv, NEW w \in Workers, NEW l \in Locations \ Handling,
         wpc[w] \notin Handling, wpc' = [wpc EXCEPT ![w] = l],
         visit' \in [Workers -> Nat],
         UNCHANGED <<rings, spc, hand, at, cur, free, lost, roomQueue, phase>>
  PROVE  EventInv' /\ UNCHANGED D!vars
<1> USE DEF EventInv
<1>1. EventTypes' BY DEF EventTypes
<1>2. HoldersHold' BY DEF HoldersHold, WorkerInv
<1>3. WaitersWait' /\ GiveUpWhenDone' BY DEF WaitersWait, GiveUpWhenDone, done
<1> QED BY <1>1, <1>2, <1>3, NoMove

LEMMA AnnounceStep ==
  ASSUME WorkerInv, EventInv, NEW w \in Workers, AnnounceRoom(w)
  PROVE  EventInv' /\ UNCHANGED D!vars
<1> USE DEF EventInv, AnnounceRoom, EndRound, wakeVars, ringVars
<1>1. CASE roomQueue = << >>
  <2>1. visit' \in [Workers -> Nat] BY DEF EventTypes
  <2> QED BY <1>1, <2>1, WorkerMoves DEF Locations, Handling
<1>2. CASE roomQueue # << >>
  <2> DEFINE p == Head(roomQueue)
  <2>1. /\ p \in Callers /\ spc[p] = "blocked"
        /\ spc' = [spc EXCEPT ![p] = "retry"] /\ roomQueue' = Tail(roomQueue)
    BY <1>2 DEF WaitersWait
  <2> HIDE DEF p
  <2>2. /\ roomQueue' \in Seq(Callers)
        /\ \A i \in 1 .. Len(roomQueue') : roomQueue'[i] = roomQueue[i + 1] /\ roomQueue'[i] # p
    BY <1>2, <2>1 DEF WaitersWait, p
  <2>3. WaitersWait' BY <1>2, <2>1, <2>2 DEF WaitersWait, EventTypes
  <2>4. EventTypes' BY <2>1 DEF EventTypes, Full
  <2>5. HoldersHold' BY <2>1 DEF HoldersHold, EventTypes, Empty, Handling, WorkerInv
  <2>6. GiveUpWhenDone' BY <2>1 DEF GiveUpWhenDone, EventTypes, done
  <2> QED BY <2>3, <2>4, <2>5, <2>6, NoMove
<1> QED BY <1>1, <1>2

LEMMA WorkerSteps ==
  ASSUME WorkerInv, EventInv, torn = {}, NEW w \in Workers, WorkerStep(w)
  PROVE  EventInv' /\ [D!Next]_D!vars
<1> USE DEF submitVars, roundVars, wakeVars, eventVars, ringVars
<1>0. visit \in [Workers -> Nat] /\ w \in Nat /\ NumWorkers \in Nat
  BY SchedulerAssumption DEF EventInv, EventTypes, Workers
<1>1. CASE StartRound(w)
  <2>1. visit' \in [Workers -> Nat] BY <1>0, <1>1 DEF StartRound
  <2> QED BY <1>1, <2>1, WorkerMoves DEF StartRound, Locations, Handling
<1>2. CASE TakeOne(w) BY <1>2, TakeStep
<1>3. CASE NextRing(w)
  <2>1. visit' \in [Workers -> Nat] BY <1>0, <1>3 DEF NextRing
  <2>2. wpc' = [wpc EXCEPT ![w] = "poll"] BY <1>3 DEF NextRing, WorkerInv
  <2> QED BY <1>3, <2>1, <2>2, WorkerMoves DEF NextRing, Locations, Handling
<1>4. CASE HandlerReturns(w) BY <1>4, FinishStep
<1>5. CASE AnnounceRoom(w) BY <1>5, AnnounceStep
<1>6. CASE Spin(w)
  <2>1. visit' \in [Workers -> Nat] BY <1>0, <1>6 DEF Spin
  <2> QED BY <1>6, <2>1, WorkerMoves DEF Spin, EndRound, Locations, Handling
<1>7. CASE Park(w)
  <2>1. visit' \in [Workers -> Nat] BY <1>0, <1>7 DEF Park
  <2> QED BY <1>7, <2>1, WorkerMoves DEF Park, EndRound, Locations, Handling
<1>8. CASE Sleep(w)
  <2>1. visit' \in [Workers -> Nat] BY <1>0, <1>8 DEF Sleep
  <2> QED BY <1>8, <2>1, WorkerMoves DEF Sleep, Locations, Handling
<1>9. CASE Unpark(w)
  <2>1. visit' \in [Workers -> Nat] BY <1>0, <1>9 DEF Unpark
  <2> QED BY <1>9, <2>1, WorkerMoves DEF Unpark, Locations, Handling
<1> QED BY <1>1, <1>2, <1>3, <1>4, <1>5, <1>6, <1>7, <1>8, <1>9 DEF WorkerStep

LEMMA StopEvents ==
  ASSUME WorkerInv, EventInv, StopStep
  PROVE  EventInv' /\ [D!Next]_D!vars
<1> USE DEF EventInv, submitVars, roundVars, wakeVars, eventVars, ringVars
<1>1. CASE SetStop
  <2> USE <1>1 DEF SetStop
  <2>1. EventTypes' /\ HoldersHold' BY DEF EventTypes, HoldersHold
  <2>2. WaitersWait' /\ GiveUpWhenDone' BY DEF WaitersWait, GiveUpWhenDone, done
  <2>3. D!Stop BY DEF D!Stop, D!places
  <2> QED BY <2>1, <2>2, <2>3, NoMove DEF D!Next
<1>2. CASE CloseDone
  <2> USE <1>2 DEF CloseDone
  <2>1. EventTypes' BY DEF EventTypes, Empty, Full
  <2>2. HoldersHold' BY DEF HoldersHold, EventTypes, Empty, Handling, WorkerInv
  <2>3. WaitersWait' /\ GiveUpWhenDone' BY DEF WaitersWait, GiveUpWhenDone, done
  <2>4. D!Stop BY DEF D!Stop, D!places
  <2> QED BY <2>1, <2>2, <2>3, <2>4, NoMove DEF D!Next
<1>3. CASE Join
  <2> USE <1>3 DEF Join
  <2>1. EventTypes' /\ HoldersHold' BY DEF EventTypes, HoldersHold
  <2>2. WaitersWait' /\ GiveUpWhenDone' BY DEF WaitersWait, GiveUpWhenDone, done
  <2>3. Held(cur) = {} BY DEF HoldersHold, Handling, EventTypes, Held
  <2>4. D!Stop BY <2>3 DEF D!Stop, D!places
  <2> QED BY <2>1, <2>2, <2>4, NoMove DEF D!Next
<1> QED BY <1>1, <1>2, <1>3 DEF StopStep

LEMMA EventStep ==
  ASSUME WorkerInv, EventInv, torn' = {}, [Next]_vars
  PROVE  EventInv' /\ [D!Next]_D!vars
<1>t. torn = {} BY TornStays
<1>0. wpc \in [Workers -> Locations] /\ Workers \subseteq Callers /\ Producers \subseteq Callers
  BY DEF WorkerInv, Callers
<1>1. CASE \E p \in Producers : ProducerSubmits(p)
  BY <1>0, <1>1, SubmitFastStep DEF ProducerSubmits
<1>2. CASE \E w \in Workers : HandlerSubmits(w)
  BY <1>0, <1>2, SubmitFastStep DEF HandlerSubmits
<1>3. CASE \E w \in Workers : HandlerPanics(w)
  BY <1>3, FinishStep
<1>4. CASE UNCHANGED vars
  <2> USE <1>4 DEF vars, ringVars, submitVars, roundVars, wakeVars, eventVars, EventInv
  <2>1. EventTypes' /\ HoldersHold' BY DEF EventTypes, HoldersHold
  <2>2. WaitersWait' /\ GiveUpWhenDone' BY DEF WaitersWait, GiveUpWhenDone, done
  <2> QED BY <2>1, <2>2, NoMove
<1> QED BY <1>t, <1>1, <1>2, <1>3, <1>4, SubmitSteps, WorkerSteps, StopEvents DEF Next

LEMMA EventInit == Init => EventInv /\ D!Init
<1> SUFFICES ASSUME Init PROVE EventInv /\ D!Init
  OBVIOUS
<1> USE DEF Init
<1>1. rings \in [RingIds -> Seq(Events)] /\ \A r \in RingIds : Len(rings[r]) = 0
  OBVIOUS
<1>2. Held(hand) = {} /\ Held(cur) = {} BY DEF Held
<1>3. Queued(rings) = {}
  <2>1. ASSUME NEW x \in Queued(rings) PROVE FALSE
    <3>1. \E r \in RingIds : \E i \in 1 .. Len(rings[r]) : rings[r][i] = x
      BY <1>1, <2>1, InQueued
    <3> QED BY <1>1, <3>1
  <2> QED BY <2>1
<1>4. Once(hand) /\ Once(cur) BY DEF Once
<1>5. RingsOnce(rings) BY <1>1 DEF RingsOnce
<1>6. OnePlace BY <1>2, <1>3, <1>4, <1>5 DEF OnePlace, Apart
<1>7. EventTypes BY <1>1, SchedulerAssumption DEF EventTypes, Empty, RingIds, Workers
<1>8. HoldersHold /\ WaitersWait /\ GiveUpWhenDone
  BY DEF HoldersHold, WaitersWait, GiveUpWhenDone, Empty, Handling
<1> QED BY <1>2, <1>3, <1>6, <1>7, <1>8 DEF EventInv, D!Init

(* Until a ring is torn the scheduler implements Dispatcher: no event is   *)
(* lost, duplicated or handled twice on the way from Submit to a worker,   *)
(* Submit gives one up only after Stop closed done, and once Stop has      *)
(* returned no handler runs (sched.go 97-105, 119-143, 182-187, 233-237).  *)
Accounted == torn = {} => EventInv

LEMMA AccountedStep ==
  WorkerInv /\ Accounted /\ [Next]_vars => Accounted' /\ [D!Next \/ torn' # {}]_(D!vars)
<1> SUFFICES ASSUME WorkerInv, Accounted, [Next]_vars, torn' = {}
             PROVE  EventInv' /\ [D!Next]_(D!vars)
  BY DEF Accounted
<1>1. EventInv BY TornStays DEF Accounted
<1> QED BY <1>1, EventStep

THEOREM Implements == Spec => RefinesDispatcher
<1>1. Init => Accounted /\ D!Init BY EventInit DEF Accounted
<1> QED BY SchedulerInit, SchedulerStep, <1>1, AccountedStep, PTL
        DEF Spec, RefinesDispatcher
-----------------------------------------------------------------------------
(***************************************************************************)
(* A caller blocked for room while everything is at rest.  A caller on its *)
(* way there needs the same as a blocked one, and may still count on the   *)
(* token of the channel, which is never there together with a blocked one. *)
(***************************************************************************)
Waiting == \E p \in Callers : spc[p] \in {"wait", "blocked"}
SomeEvent == \E r \in RingIds : rings[r] # << >>
SomeRound == \E w \in Workers : consumed[w] \/ wpc[w] \in Handling
SomeRetry == \E p \in Callers : spc[p] = "retry"

RoomInv ==
  /\ bp \in BOOLEAN /\ silent \in BOOLEAN /\ consumed \in [Workers -> BOOLEAN]
  /\ \A w \in Workers : consumed[w] => wpc[w] \in Handling \cup {"poll"}
  /\ roomQueue # << >> => ~bp
  /\ Waiting /\ ~silent => bp \/ SomeEvent \/ SomeRound \/ SomeRetry

LEMMA FullRing ==
  ASSUME EventInv, NEW r \in RingIds, ~Room(r)
  PROVE  rings[r] # << >>
BY SchedulerAssumption DEF EventInv, EventTypes, Room

LEMMA RoomAfterPut ==
  ASSUME EventInv, RoomInv, NEW p \in Callers, NEW e \in Events \cup {NoEvent},
         NEW r \in RingIds, Enqueue(p, e, r, TRUE), torn' = {},
         UNCHANGED <<bp, roomQueue, consumed, silent>>,
         \A w \in Workers : wpc'[w] = wpc[w] \/ wpc'[w] \in Handling
  PROVE  RoomInv'
<1> DEFINE S == Events \cup {NoEvent}
<1>0. rings \in [RingIds -> Seq(Events)] /\ rings[r] \in Seq(S)
  BY DEF EventInv, EventTypes
<1>1. rings'[r] # << >>
  <2>0. rings' = [rings EXCEPT ![r] = Append(@, e)] BY CleanEnqueue
  <2>1. rings'[r] = Append(rings[r], e) BY <1>0, <2>0
  <2> HIDE DEF S
  <2>2. e \in S BY DEF S
  <2> QED BY <1>0, <2>1, <2>2
<1>2. SomeEvent' BY <1>1 DEF SomeEvent
<1> QED BY <1>2 DEF RoomInv

(* An Enqueue that is refused leaves the rings as they are, and one full.  *)
LEMMA Refusal ==
  ASSUME EventInv, NEW p, NEW e, NEW r \in RingIds, Enqueue(p, e, r, FALSE), torn' = {}
  PROVE  rings' = rings /\ rings[r] # << >> /\ SomeEvent
<1>1. rings' = [rings EXCEPT ![r] = @] /\ ~Room(r) BY CleanEnqueue
<1>2. rings' = rings BY <1>1 DEF EventInv, EventTypes
<1> QED BY <1>1, <1>2, FullRing DEF SomeEvent

(* A caller goes from l to where it waits, having seen a full ring, or to  *)
(* where it neither waits nor will retry.                                  *)
LEMMA RoomAfterCaller ==
  ASSUME EventInv, RoomInv, NEW p \in Callers, NEW l,
         spc[p] # "retry" \/ l = "wait",
         l \in {"wait", "blocked"} => spc[p] \in {"wait", "blocked"} \/ SomeEvent,
         spc' = [spc EXCEPT ![p] = l],
         UNCHANGED <<rings, bp, consumed, silent>>,
         roomQueue' = roomQueue \/ ~bp,
         \A w \in Workers : wpc'[w] = wpc[w]
                            \/ (wpc[w] \notin Handling \cup {"poll"} /\ wpc'[w] \notin Handling)
                            \/ (wpc[w] \in Handling /\ wpc'[w] \in Handling)
  PROVE  RoomInv'
<1> USE DEF EventInv, EventTypes
<1>1. SomeEvent' = SomeEvent BY DEF SomeEvent
<1>2. SomeRound => SomeRound' BY DEF SomeRound
<1>3. SomeRetry => SomeRetry' \/ (spc[p] = "retry" /\ l = "wait") BY DEF SomeRetry
<1>4. Waiting' => Waiting \/ SomeEvent BY DEF Waiting
<1>5. \A w \in Workers : consumed'[w] => wpc'[w] \in Handling \cup {"poll"} BY DEF RoomInv
<1>6. spc[p] = "retry" /\ l = "wait" => SomeEvent OBVIOUS
<1> QED BY <1>1, <1>2, <1>3, <1>4, <1>5, <1>6 DEF RoomInv

LEMMA RoomSubmit ==
  ASSUME WorkerInv, EventInv, RoomInv, torn' = {}, NEW p \in Callers, SubmitStep(p)
  PROVE  RoomInv'
<1> USE DEF roundVars, wakeVars, eventVars, ringVars
<1>0. at[p] \in RingIds /\ hand[p] \in Events \cup {NoEvent} BY DEF EventInv, EventTypes
<1>1. CASE ScanRing(p)
  <2>1. CASE Enqueue(p, hand[p], at[p], TRUE)
    BY <1>0, <1>1, <2>1, RoomAfterPut DEF ScanRing
  <2>2. CASE /\ Enqueue(p, hand[p], at[p], FALSE)
             /\ \E l \in {"scan", "wait"} : spc' = [spc EXCEPT ![p] = l]
    <3>1. rings' = rings /\ SomeEvent BY <1>0, <2>2, Refusal
    <3> QED BY <1>1, <2>2, <3>1, RoomAfterCaller DEF ScanRing
  <2> QED BY <1>1, <2>1, <2>2 DEF ScanRing
<1>s. CASE ScanEnter(p) BY <1>s, RoomAfterCaller DEF ScanEnter
<1>2. CASE WaitForRoom(p)
  <2>1. CASE bp /\ spc' = [spc EXCEPT ![p] = "retry"] /\ bp' = FALSE
    <3>1. SomeRetry' BY <2>1 DEF SomeRetry, EventInv, EventTypes
    <3> QED BY <1>2, <3>1, <2>1 DEF WaitForRoom, RoomInv
  <2>2. CASE done /\ spc' = [spc EXCEPT ![p] = "giveUp"] /\ UNCHANGED <<bp, roomQueue>>
    BY <1>2, <2>2, RoomAfterCaller DEF WaitForRoom
  <2>3. CASE ~bp /\ spc' = [spc EXCEPT ![p] = "blocked"] /\ UNCHANGED bp
    BY <1>2, <2>3, RoomAfterCaller DEF WaitForRoom
  <2> QED BY <1>2, <2>1, <2>2, <2>3 DEF WaitForRoom
<1>3. CASE Retry(p)
  <2>1. PICK r \in RingIds :
          \/ Enqueue(p, hand[p], r, TRUE)
          \/ Enqueue(p, hand[p], r, FALSE) /\ spc' = [spc EXCEPT ![p] = "wait"]
    BY <1>3 DEF Retry
  <2>2. CASE Enqueue(p, hand[p], r, TRUE)
    BY <1>0, <1>3, <2>2, RoomAfterPut DEF Retry
  <2>3. CASE Enqueue(p, hand[p], r, FALSE) /\ spc' = [spc EXCEPT ![p] = "wait"]
    <3>1. rings' = rings /\ SomeEvent BY <2>3, Refusal
    <3> QED BY <1>3, <2>3, <3>1, RoomAfterCaller DEF Retry
  <2> QED BY <2>1, <2>2, <2>3
<1>4. CASE GiveUp(p) BY <1>4, RoomAfterCaller DEF GiveUp
<1>5. CASE CheckParked(p) BY <1>5, RoomAfterCaller DEF CheckParked
<1>6. CASE Signal(p)
  <2>1. \A w \in Workers : wpc'[w] = wpc[w]
                           \/ (wpc[w] \notin Handling \cup {"poll"} /\ wpc'[w] \notin Handling)
    <3>1. CASE sleepers = << >> BY <1>6, <3>1 DEF Signal
    <3>2. CASE sleepers # << >>
      <4>1. Head(sleepers) \in Workers /\ wpc[Head(sleepers)] = "asleep"
        BY <3>2 DEF WorkerInv, SleepersSleep
      <4> QED BY <1>6, <3>2, <4>1 DEF Signal, WorkerInv, Handling
    <3> QED BY <3>1, <3>2
  <2> QED BY <1>6, <2>1, RoomAfterCaller DEF Signal
<1> QED BY <1>1, <1>s, <1>2, <1>3, <1>4, <1>5, <1>6 DEF SubmitStep

LEMMA RoomWorker ==
  ASSUME WorkerInv, EventInv, RoomInv, torn = {}, NEW w \in Workers, WorkerStep(w)
  PROVE  RoomInv'
<1> USE DEF submitVars, wakeVars, eventVars, ringVars, WorkerInv, Handling
<1>1. CASE TakeOne(w)
  <2>1. SomeRound' BY <1>1 DEF TakeOne, SomeRound
  <2> QED BY <1>1, <2>1 DEF TakeOne, RoomInv
<1>2. CASE HandlerReturns(w)
  <2>1. SomeRound' BY <1>2 DEF HandlerReturns, SomeRound, RoomInv
  <2> QED BY <1>2, <2>1 DEF HandlerReturns, RoomInv
<1>3. CASE AnnounceRoom(w)
  <2> USE DEF AnnounceRoom, EndRound
  <2>1. CASE roomQueue = << >> BY <1>3, <2>1 DEF RoomInv
  <2>2. CASE roomQueue # << >>
    <3>1. Head(roomQueue) \in Callers BY <2>2 DEF EventInv, WaitersWait
    <3>2. SomeRetry' BY <1>3, <2>2, <3>1 DEF SomeRetry, EventInv, EventTypes
    <3>3. bp' = bp /\ silent' = FALSE /\ consumed' = [consumed EXCEPT ![w] = FALSE]
      BY <1>3, <2>2
    <3>4. bp \in BOOLEAN /\ ~bp /\ consumed \in [Workers -> BOOLEAN] BY <2>2 DEF RoomInv
    <3>5. bp' \in BOOLEAN /\ ~bp' /\ silent' \in BOOLEAN /\ consumed' \in [Workers -> BOOLEAN]
      BY <3>3, <3>4
    <3>6. \A v \in Workers : consumed'[v] => wpc'[v] \in Handling \cup {"poll"}
      BY <1>3 DEF RoomInv
    <3> QED BY <3>2, <3>5, <3>6 DEF RoomInv
  <2> QED BY <2>1, <2>2
<1>4. CASE /\ wpc[w] \notin Handling /\ wpc'[w] \notin Handling /\ ~consumed[w]
           /\ \A v \in Workers \ {w} : wpc'[v] = wpc[v] /\ consumed'[v] = consumed[v]
           /\ consumed' \in [Workers -> BOOLEAN] /\ ~consumed'[w]
           /\ UNCHANGED <<rings, spc, bp, roomQueue, silent>>
  <2>1. SomeEvent' = SomeEvent /\ Waiting' = Waiting /\ SomeRetry' = SomeRetry
    BY <1>4 DEF SomeEvent, Waiting, SomeRetry
  <2>2. SomeRound => SomeRound' BY <1>4 DEF SomeRound
  <2> QED BY <1>4, <2>1, <2>2 DEF RoomInv
<1>5. CASE StartRound(w)
  <2>1. ~consumed[w] BY <1>5 DEF StartRound, RoomInv
  <2> QED BY <1>4, <1>5, <2>1 DEF StartRound, RoomInv
<1>6. CASE NextRing(w)
  BY <1>6 DEF NextRing, RoomInv, SomeEvent, SomeRound, SomeRetry, Waiting
<1>7. CASE Spin(w) BY <1>4, <1>7 DEF Spin, EndRound, RoomInv
<1>8. CASE Park(w) BY <1>4, <1>8 DEF Park, EndRound, RoomInv
<1>9. CASE Sleep(w)
  <2>1. ~consumed[w] BY <1>9 DEF Sleep, RoomInv
  <2> QED BY <1>4, <1>9, <2>1 DEF Sleep, RoomInv, roundVars
<1>10. CASE Unpark(w)
  <2>1. ~consumed[w] BY <1>10 DEF Unpark, RoomInv
  <2> QED BY <1>4, <1>10, <2>1 DEF Unpark, RoomInv
<1> QED BY <1>1, <1>2, <1>3, <1>5, <1>6, <1>7, <1>8, <1>9, <1>10 DEF WorkerStep

LEMMA RoomStop ==
  ASSUME WorkerInv, EventInv, RoomInv, StopStep
  PROVE  RoomInv'
<1> USE DEF submitVars, roundVars, wakeVars, eventVars, ringVars
<1>1. CASE SetStop \/ Join
  BY <1>1 DEF SetStop, Join, RoomInv, SomeEvent, SomeRound, SomeRetry, Waiting
<1>2. CASE CloseDone
  <2> USE <1>2 DEF CloseDone
  <2>1. SomeEvent' = SomeEvent BY DEF SomeEvent
  <2>2. \A w \in Workers : wpc'[w] = wpc[w] \/ (wpc[w] = "asleep" /\ wpc'[w] = "leave")
    BY DEF WorkerInv
  <2>3. SomeRound => SomeRound' BY <2>2 DEF SomeRound, Handling
  <2>4. SomeRetry => SomeRetry' BY DEF SomeRetry, EventInv, EventTypes
  <2>5. Waiting' => Waiting BY DEF Waiting, EventInv, EventTypes
  <2> QED BY <2>1, <2>2, <2>3, <2>4, <2>5 DEF RoomInv, Handling
<1> QED BY <1>1, <1>2 DEF StopStep

LEMMA RoomStep ==
  ASSUME WorkerInv, EventInv, RoomInv, torn' = {}, [Next]_vars
  PROVE  RoomInv'
<1> USE DEF submitVars, roundVars, wakeVars, eventVars, ringVars
<1>t. torn = {} BY TornStays
<1>1. ASSUME NEW p \in Callers, NEW e \in Events, NEW r \in RingIds, SubmitFast(p, e, r),
             wpc' = wpc \/ (p \in Workers /\ wpc[p] = "run"
                            /\ wpc' = [wpc EXCEPT ![p] = "emit"])
      PROVE  RoomInv'
  <2>1. \A w \in Workers : wpc'[w] = wpc[w] \/ (wpc[w] \in Handling /\ wpc'[w] \in Handling)
    BY <1>1 DEF WorkerInv, Handling
  <2>2. CASE Enqueue(p, e, r, TRUE) BY <1>1, <2>1, <2>2, RoomAfterPut DEF SubmitFast
  <2>3. CASE spc' = [spc EXCEPT ![p] = "scan"] /\ Enqueue(p, e, r, FALSE)
    <3>1. rings' = rings BY <2>3, Refusal
    <3>2. spc[p] # "retry" /\ UNCHANGED <<bp, roomQueue, consumed, silent>>
      BY <1>1 DEF SubmitFast
    <3> QED BY <2>1, <2>3, <3>1, <3>2, RoomAfterCaller
  <2> QED BY <1>1, <2>2, <2>3 DEF SubmitFast
<1>2. CASE \E p \in Producers : ProducerSubmits(p)
  BY <1>1, <1>2 DEF ProducerSubmits, Callers
<1>3. CASE \E w \in Workers : HandlerSubmits(w)
  BY <1>1, <1>3 DEF HandlerSubmits, Callers
<1>4. ASSUME NEW w \in Workers, HandlerPanics(w) PROVE RoomInv'
  BY <1>4 DEF HandlerPanics, RoomInv, WorkerInv, Handling
<1>5. CASE UNCHANGED vars
  BY <1>5 DEF vars, RoomInv, SomeEvent, SomeRound, SomeRetry, Waiting
<1> QED BY <1>t, <1>2, <1>3, <1>4, <1>5, RoomSubmit, RoomWorker, RoomStop DEF Next
-----------------------------------------------------------------------------
(***************************************************************************)
(* A worker that waits for room in its handler's Submit has been refused   *)
(* by its own ring, and nobody else can empty that.                        *)
(***************************************************************************)
Behind(w) ==
  \/ spc[w] \in {"wait", "blocked", "retry", "giveUp"}
  \/ spc[w] \in {"scan", "fill"} /\ at[w] > visit[w]

Visits ==
  /\ visit \in [Workers -> Nat]
  /\ \A w \in Workers :
       /\ \E k \in Nat : visit[w] = w + k * NumWorkers
       /\ wpc[w] \in Handling => visit[w] \in RingIds
       /\ spc[w] # "idle" => wpc[w] = "emit"
  /\ \A p \in Callers : spc[p] \notin {"scan", "fill"} => at[p] = 0

OwnRingStuck ==
  \A w \in Workers : wpc[w] = "emit" /\ Behind(w) => rings[visit[w]] # << >>

LEMMA Multiple ==
  ASSUME NEW s \in Nat, NEW m \in Int, 0 < s * m, s * m < s
  PROVE  FALSE
<1>1. CASE m <= 0
  <2>1. s * m <= 0 BY <1>1, SMT
  <2> QED BY <2>1
<1>2. CASE m >= 1
  <2>1. s * m >= s BY <1>2, SMT
  <2> QED BY <2>1
<1> QED BY <1>1, <1>2

(* A ring has one owner.                                                   *)
LEMMA OneOwner ==
  ASSUME NEW v \in Workers, NEW w \in Workers, NEW j \in Nat, NEW k \in Nat,
         v + j * NumWorkers = w + k * NumWorkers
  PROVE  v = w
<1> DEFINE N == NumWorkers
<1>1. N \in Nat /\ v \in 0 .. N - 1 /\ w \in 0 .. N - 1
  BY SchedulerAssumption DEF Workers
<1> HIDE DEF N
<1>2. v + j * N = w + k * N BY DEF N
<1>3. N * (j - k) = w - v /\ N * (k - j) = v - w BY <1>1, <1>2, SMT
<1>4. ~(0 < w - v) BY <1>1, <1>3, Multiple
<1>5. ~(0 < v - w) BY <1>1, <1>3, Multiple
<1> QED BY <1>1, <1>4, <1>5

(* What a step must not disturb for Visits to stay.                        *)
LEMMA VisitsStay ==
  ASSUME Visits, visit' \in [Workers -> Nat],
         \A w \in Workers : \E k \in Nat : visit'[w] = w + k * NumWorkers,
         \A w \in Workers : wpc'[w] \in Handling => visit'[w] \in RingIds,
         \A w \in Workers : spc'[w] # "idle" => wpc'[w] = "emit",
         \A p \in Callers : spc'[p] \notin {"scan", "fill"} => at'[p] = 0
  PROVE  Visits'
BY DEF Visits

(* Callers move, and no worker leaves its event.                           *)
LEMMA VisitsCaller ==
  ASSUME EventInv, Visits, NEW p \in Callers, NEW l, NEW n,
         spc' = [spc EXCEPT ![p] = l], at' = [at EXCEPT ![p] = n],
         p \in Workers => wpc'[p] = "emit" \/ l = "idle",
         l \notin {"scan", "fill"} => n = 0,
         \A w \in Workers : wpc[w] = "emit" => wpc'[w] = "emit",
         \A w \in Workers : wpc'[w] \in Handling => wpc[w] \in Handling,
         UNCHANGED visit
  PROVE  Visits'
<1> USE DEF EventInv, EventTypes
<1>1. \A w \in Workers : spc'[w] # "idle" => wpc'[w] = "emit"
  BY DEF Visits, Callers
<1>2. \A q \in Callers : spc'[q] \notin {"scan", "fill"} => at'[q] = 0
  BY DEF Visits
<1> QED BY <1>1, <1>2, VisitsStay DEF Visits

(* A worker goes on outside of Submit.                                     *)
LEMMA VisitsWorker ==
  ASSUME WorkerInv, EventInv, Visits, NEW w \in Workers, NEW l,
         spc[w] = "idle", wpc' = [wpc EXCEPT ![w] = l],
         visit' \in [Workers -> Nat],
         \A v \in Workers \ {w} : visit'[v] = visit[v],
         \E k \in Nat : visit'[w] = w + k * NumWorkers,
         l \in Handling => visit'[w] \in RingIds,
         UNCHANGED <<spc, at>>
  PROVE  Visits'
<1> USE DEF WorkerInv
<1>1. \A v \in Workers : \E k \in Nat : visit'[v] = v + k * NumWorkers BY DEF Visits
<1>2. \A v \in Workers : wpc'[v] \in Handling => visit'[v] \in RingIds BY DEF Visits
<1>3. \A v \in Workers : spc'[v] # "idle" => wpc'[v] = "emit" BY DEF Visits
<1> QED BY <1>1, <1>2, <1>3, VisitsStay DEF Visits

(* Where the rings only grow and no worker comes to wait behind its own.   *)
LEMMA OwnStays ==
  ASSUME Visits, OwnRingStuck,
         \A r \in RingIds : rings[r] # << >> => rings'[r] # << >>,
         \A w \in Workers : wpc'[w] = "emit" /\ Behind(w)' =>
           \/ wpc[w] = "emit" /\ Behind(w) /\ visit'[w] = visit[w]
           \/ visit'[w] \in RingIds /\ rings'[visit'[w]] # << >>
  PROVE  OwnRingStuck'
BY DEF OwnRingStuck, Visits, Handling

(* A successful Enqueue.                                                   *)
LEMMA RingsGrow ==
  ASSUME EventInv, NEW p, NEW e \in Events \cup {NoEvent}, NEW r \in RingIds,
         Enqueue(p, e, r, TRUE), torn' = {}
  PROVE  \A s \in RingIds : rings[s] # << >> => rings'[s] # << >>
<1> DEFINE S == Events \cup {NoEvent}
<1>1. rings \in [RingIds -> Seq(Events)] /\ rings[r] \in Seq(S) /\ e \in S
  BY DEF EventInv, EventTypes
<1>2. rings' = [rings EXCEPT ![r] = Append(@, e)] BY CleanEnqueue
<1>3. rings'[r] # << >>
  <2>1. rings'[r] = Append(rings[r], e) BY <1>1, <1>2
  <2> HIDE DEF S
  <2> QED BY <1>1, <2>1
<1> QED BY <1>1, <1>2, <1>3

(* The invariant that explains a worker at rest in Submit.                 *)
JamInv == Visits /\ OwnRingStuck

LEMMA JamFast ==
  ASSUME EventInv, JamInv, torn' = {}, NEW p \in Callers, NEW e \in Events,
         NEW r \in RingIds, SubmitFast(p, e, r),
         p \in Workers => wpc'[p] = "emit",
         \A w \in Workers : wpc[w] = "emit" => wpc'[w] = "emit",
         \A w \in Workers : w = p \/ wpc'[w] = wpc[w],
         \A w \in Workers : wpc'[w] \in Handling => wpc[w] \in Handling
  PROVE  JamInv'
<1> USE DEF JamInv
<1>1. at[p] = 0 /\ UNCHANGED <<at, visit>> BY DEF SubmitFast, Visits, roundVars
<1>2. PICK l \in {"wake", "scan"} : spc' = [spc EXCEPT ![p] = l]
  BY DEF SubmitFast
<1>3. Visits'
  <2>1. at' = [at EXCEPT ![p] = 0] BY <1>1 DEF EventInv, EventTypes
  <2> QED BY <1>1, <1>2, <2>1, VisitsCaller
<1>4. \A s \in RingIds : rings[s] # << >> => rings'[s] # << >>
  <2>1. CASE Enqueue(p, e, r, TRUE) BY <2>1, RingsGrow
  <2>2. CASE Enqueue(p, e, r, FALSE) BY <2>2, Refusal
  <2> QED BY <2>1, <2>2 DEF SubmitFast
<1>5. \A w \in Workers : wpc'[w] = "emit" /\ Behind(w)' => wpc[w] = "emit" /\ Behind(w)
  <2>1. \A w \in Workers : visit[w] \in Nat BY DEF Visits
  <2>2. ~(0 > visit[p]) \/ p \notin Workers BY <2>1
  <2> QED BY <1>1, <1>2, <2>2 DEF Behind, EventInv, EventTypes, Callers
<1> QED BY <1>1, <1>3, <1>4, <1>5, OwnStays

LEMMA JamScan ==
  ASSUME EventInv, JamInv, torn' = {}, NEW p \in Callers, ScanRing(p)
  PROVE  JamInv'
<1> USE DEF JamInv, roundVars
<1>0. /\ at \in [Callers -> RingIds] /\ spc \in [Callers -> Empty \cup Full]
      /\ hand[p] \in Events \cup {NoEvent} /\ UNCHANGED <<wpc, visit>>
  BY DEF EventInv, EventTypes, ScanRing
<1>1. \A w \in Workers : spc[w] # "idle" => wpc[w] = "emit" BY DEF Visits
<1>2. CASE /\ Enqueue(p, hand[p], at[p], TRUE)
           /\ spc' = [spc EXCEPT ![p] = "wake"] /\ at' = [at EXCEPT ![p] = 0]
  <2>1. Visits' BY <1>0, <1>1, <1>2, VisitsCaller DEF ScanRing
  <2>2. \A w \in Workers : Behind(w)' => Behind(w)
    BY <1>0, <1>2 DEF Behind, Callers
  <2> QED BY <1>0, <1>2, <2>1, <2>2, RingsGrow, OwnStays
<1>3. CASE /\ Enqueue(p, hand[p], at[p], FALSE)
           /\ IF at[p] + 1 < NumRings
                THEN at' = [at EXCEPT ![p] = @ + 1] /\ spc' = [spc EXCEPT ![p] = "scan"]
                ELSE at' = [at EXCEPT ![p] = 0] /\ spc' = [spc EXCEPT ![p] = "wait"]
  <2>1. rings' = rings /\ rings[at[p]] # << >> BY <1>0, <1>3, Refusal
  <2>2. CASE /\ spc' = [spc EXCEPT ![p] = "scan"] /\ at' = [at EXCEPT ![p] = @ + 1]
    <3>1. Visits' BY <1>0, <1>1, <2>2, VisitsCaller DEF ScanRing
    <3>2. ASSUME NEW w \in Workers, wpc[w] = "emit", Behind(w)'
          PROVE  Behind(w) \/ rings[visit[w]] # << >>
      <4>1. CASE w = p
        <5>1. at[w] + 1 > visit[w] /\ at[w] \in RingIds /\ visit[w] \in Nat
          BY <1>0, <2>2, <3>2, <4>1 DEF Behind, Visits
        <5>2. CASE at[w] = visit[w] BY <2>1, <4>1, <5>2
        <5>3. CASE at[w] # visit[w]
          <6>1. at[w] > visit[w] BY <5>1, <5>3 DEF RingIds
          <6> QED BY <4>1, <6>1 DEF ScanRing, Behind
        <5> QED BY <5>2, <5>3
      <4>2. CASE w # p BY <1>0, <2>2, <3>2, <4>2 DEF Behind
      <4> QED BY <4>1, <4>2
    <3>3. \A w \in Workers : wpc[w] = "emit" => visit[w] \in RingIds
      BY DEF Visits, Handling
    <3> QED BY <1>0, <2>1, <3>1, <3>2, <3>3, OwnStays
  <2>3. CASE /\ at[p] + 1 >= NumRings
             /\ spc' = [spc EXCEPT ![p] = "wait"] /\ at' = [at EXCEPT ![p] = 0]
    <3>1. Visits' BY <1>0, <1>1, <2>3, VisitsCaller DEF ScanRing
    <3>2. ASSUME NEW w \in Workers, wpc[w] = "emit", Behind(w)'
          PROVE  Behind(w) \/ rings[visit[w]] # << >>
      <4>1. CASE w = p
        <5>1. visit[w] \in RingIds /\ at[w] \in RingIds
          BY <1>0, <3>2, <4>1 DEF Visits, Handling
        <5>2. CASE at[w] = visit[w] BY <2>1, <4>1, <5>2
        <5>3. CASE at[w] # visit[w]
          <6>1. at[w] > visit[w] BY <2>3, <4>1, <5>1, <5>3, SchedulerAssumption DEF RingIds
          <6> QED BY <4>1, <6>1 DEF ScanRing, Behind
        <5> QED BY <5>2, <5>3
      <4>2. CASE w # p BY <1>0, <2>3, <3>2, <4>2 DEF Behind
      <4> QED BY <4>1, <4>2
    <3>3. \A w \in Workers : wpc[w] = "emit" => visit[w] \in RingIds
      BY DEF Visits, Handling
    <3> QED BY <1>0, <2>1, <3>1, <3>2, <3>3, OwnStays
  <2>4. at[p] + 1 < NumRings \/ at[p] + 1 >= NumRings
    BY <1>0, SchedulerAssumption DEF RingIds
  <2> QED BY <1>3, <2>2, <2>3, <2>4
<1> QED BY <1>2, <1>3 DEF ScanRing

LEMMA JamSubmit ==
  ASSUME WorkerInv, EventInv, JamInv, torn' = {}, NEW p \in Callers, SubmitStep(p)
  PROVE  JamInv'
<1> USE DEF JamInv, roundVars, wakeVars, eventVars, ringVars
<1>0. /\ at \in [Callers -> RingIds] /\ spc \in [Callers -> Empty \cup Full]
      /\ hand[p] \in Events \cup {NoEvent}
  BY DEF EventInv, EventTypes
<1>1. \A w \in Workers : spc[w] # "idle" => wpc[w] = "emit" BY DEF Visits
<1>2. spc[p] \notin {"scan", "fill"} => at = [at EXCEPT ![p] = 0] BY <1>0 DEF Visits
<1>3. ASSUME UNCHANGED <<rings, visit>>,
             spc[p] \notin {"idle", "scan", "fill"}, at' = at,
             NEW l \in {"wait", "blocked", "retry", "giveUp", "wake", "signal", "idle"},
             spc' = [spc EXCEPT ![p] = l],
             spc[p] \in {"wait", "blocked", "retry", "giveUp"} \/ l \in {"wake", "signal", "idle"},
             \A w \in Workers : wpc[w] = "emit" => wpc'[w] = "emit",
             \A w \in Workers : wpc'[w] \in Handling => wpc[w] \in Handling /\ wpc'[w] = wpc[w]
      PROVE  JamInv'
  <2>1. Visits' BY <1>0, <1>1, <1>2, <1>3, VisitsCaller
  <2>2. \A w \in Workers : wpc'[w] = "emit" /\ Behind(w)' => wpc[w] = "emit" /\ Behind(w)
    BY <1>0, <1>3 DEF Behind, Handling
  <2> QED BY <1>3, <2>1, <2>2, OwnStays
<1>4. CASE ScanEnter(p)
  <2>1. at' = [at EXCEPT ![p] = at[p]] BY <1>0, <1>4 DEF ScanEnter
  <2>2. Visits' BY <1>0, <1>1, <1>4, <2>1, VisitsCaller DEF ScanEnter
  <2>3. \A w \in Workers : Behind(w)' => Behind(w)
    BY <1>0, <1>4 DEF ScanEnter, Behind, Callers
  <2> QED BY <1>4, <2>2, <2>3, OwnStays DEF ScanEnter
<1>5. CASE WaitForRoom(p)
  BY <1>3, <1>5 DEF WaitForRoom
<1>6. CASE Retry(p)
  <2>1. PICK r \in RingIds :
          \/ Enqueue(p, hand[p], r, TRUE) /\ spc' = [spc EXCEPT ![p] = "wake"]
          \/ Enqueue(p, hand[p], r, FALSE) /\ spc' = [spc EXCEPT ![p] = "wait"]
    BY <1>6 DEF Retry
  <2>2. CASE Enqueue(p, hand[p], r, TRUE) /\ spc' = [spc EXCEPT ![p] = "wake"]
    <3>1. Visits' BY <1>0, <1>1, <1>2, <1>6, <2>2, VisitsCaller DEF Retry
    <3>2. \A w \in Workers : Behind(w)' => Behind(w)
      BY <1>0, <1>6, <2>2 DEF Retry, Behind, Callers
    <3> QED BY <1>0, <1>6, <2>2, <3>1, <3>2, RingsGrow, OwnStays DEF Retry
  <2>3. CASE Enqueue(p, hand[p], r, FALSE) /\ spc' = [spc EXCEPT ![p] = "wait"]
    <3>1. rings' = rings BY <2>3, Refusal
    <3> QED BY <1>3, <1>6, <2>3, <3>1 DEF Retry
  <2> QED BY <2>1, <2>2, <2>3
<1>7. CASE GiveUp(p) BY <1>3, <1>7 DEF GiveUp
<1>8. CASE CheckParked(p) BY <1>3, <1>8 DEF CheckParked
<1>9. CASE Signal(p)
  <2>1. \A w \in Workers : wpc'[w] = wpc[w] \/ (wpc[w] = "asleep" /\ wpc'[w] = "woken")
    <3>1. CASE sleepers = << >> BY <1>9, <3>1 DEF Signal
    <3>2. CASE sleepers # << >>
      <4>1. Head(sleepers) \in Workers /\ wpc[Head(sleepers)] = "asleep"
        BY <3>2 DEF WorkerInv, SleepersSleep
      <4> QED BY <1>9, <3>2, <4>1 DEF Signal, WorkerInv
    <3> QED BY <3>1, <3>2
  <2> QED BY <1>3, <1>9, <2>1 DEF Signal, Handling
<1> QED BY <1>4, JamScan, <1>5, <1>6, <1>7, <1>8, <1>9 DEF SubmitStep

LEMMA JamWorker ==
  ASSUME WorkerInv, EventInv, JamInv, torn = {}, NEW w \in Workers,
         WorkerStep(w) \/ HandlerPanics(w)
  PROVE  JamInv'
<1> USE DEF JamInv, submitVars, wakeVars, eventVars, ringVars, WorkerInv
<1>0. /\ spc \in [Callers -> Empty \cup Full] /\ visit \in [Workers -> Nat]
      /\ w \in Callers /\ w \in Nat /\ NumWorkers \in Nat /\ w = w + 0 * NumWorkers
      /\ \A v \in Workers : visit[v] \in Nat
  BY SchedulerAssumption DEF EventInv, EventTypes, Visits, Callers, Workers
<1>1. \A v \in Workers : spc[v] # "idle" => wpc[v] = "emit" BY DEF Visits
<1>2. ASSUME NEW l, wpc' = [wpc EXCEPT ![w] = l], l # "emit", spc[w] = "idle",
             visit' \in [Workers -> Nat],
             \A v \in Workers \ {w} : visit'[v] = visit[v],
             \E k \in Nat : visit'[w] = w + k * NumWorkers,
             l \in Handling => visit'[w] \in RingIds,
             UNCHANGED <<rings, spc, at>>
      PROVE  JamInv'
  <2>1. Visits' BY <1>2, VisitsWorker
  <2>2. \A v \in Workers : wpc'[v] = "emit" /\ Behind(v)' =>
                             wpc[v] = "emit" /\ Behind(v) /\ visit'[v] = visit[v]
    BY <1>2 DEF Behind
  <2> QED BY <1>2, <2>1, <2>2, OwnStays
<1>3. \E k \in Nat : visit[w] = w + k * NumWorkers BY DEF Visits
<1>4. ASSUME NEW l \in Locations \ Handling,
             wpc' = [wpc EXCEPT ![w] = l], spc[w] = "idle",
             UNCHANGED <<rings, spc, at, visit>>
      PROVE  JamInv'
  BY <1>0, <1>2, <1>3, <1>4 DEF Handling
<1>5. CASE StartRound(w)
  <2>1. \E k \in Nat : visit'[w] = w + k * NumWorkers
    BY <1>0, <1>5 DEF StartRound
  <2> QED BY <1>0, <1>1, <1>2, <1>5, <2>1 DEF StartRound, Handling
<1>6. CASE TakeOne(w)
  <2> USE <1>6 DEF TakeOne
  <2>0. visit[w] \in RingIds BY <1>0, SchedulerAssumption DEF RingIds
  <2>1. Visits' BY <1>0, <1>1, <1>3, <2>0, VisitsWorker
  <2>2. \A r \in RingIds : r # visit[w] => rings'[r] = rings[r]
    BY DEF Dequeue, EventInv, EventTypes
  <2>3. ASSUME NEW v \in Workers, wpc'[v] = "emit", Behind(v)'
        PROVE  rings'[visit'[v]] # << >>
    <3>1. v # w /\ wpc[v] = "emit" /\ Behind(v) /\ visit'[v] = visit[v]
      BY <2>3 DEF Behind
    <3>2. visit[v] # visit[w]
      <4>1. PICK j \in Nat : visit[v] = v + j * NumWorkers BY DEF Visits
      <4>2. PICK k \in Nat : visit[w] = w + k * NumWorkers BY DEF Visits
      <4> QED BY <3>1, <4>1, <4>2, OneOwner
    <3>3. visit[v] \in RingIds BY <3>1 DEF Visits, Handling
    <3> QED BY <2>2, <3>1, <3>2, <3>3 DEF OwnRingStuck
  <2> QED BY <2>1, <2>3 DEF OwnRingStuck
<1>7. CASE NextRing(w)
  <2>1. \E k \in Nat : visit'[w] = w + k * NumWorkers
    <3>1. PICK k \in Nat : visit[w] = w + k * NumWorkers BY <1>3
    <3>2. visit'[w] = w + (k + 1) * NumWorkers /\ k + 1 \in Nat
      BY <1>0, <1>7, <3>1 DEF NextRing
    <3> QED BY <3>2
  <2>2. wpc' = [wpc EXCEPT ![w] = "poll"] BY <1>7 DEF NextRing
  <2>3. spc[w] = "idle" /\ UNCHANGED <<rings, spc, at>> /\ visit' \in [Workers -> Nat]
        /\ \A v \in Workers \ {w} : visit'[v] = visit[v]
    BY <1>0, <1>1, <1>7 DEF NextRing
  <2> QED BY <1>2, <2>1, <2>2, <2>3 DEF Handling
<1>8. CASE HandlerReturns(w)
  <2>1. spc[w] = "idle" /\ UNCHANGED <<rings, spc, at, visit>>
        /\ wpc' = [wpc EXCEPT ![w] = "poll"]
    BY <1>8 DEF HandlerReturns, InHandler
  <2> QED BY <1>4, <2>1 DEF Locations, Handling
<1>9. CASE AnnounceRoom(w)
  <2> USE <1>9 DEF AnnounceRoom, EndRound
  <2>1. CASE roomQueue = << >>
    <3>1. spc[w] = "idle" /\ UNCHANGED <<rings, spc, at, visit>>
          /\ wpc' = [wpc EXCEPT ![w] = "top"]
      BY <1>1, <2>1
    <3> QED BY <1>4, <3>1 DEF Locations, Handling
  <2>2. CASE roomQueue # << >>
    <3>1. Head(roomQueue) \in Callers /\ spc[Head(roomQueue)] = "blocked"
      BY <2>2 DEF EventInv, WaitersWait
    <3>2. \A q \in Callers : spc'[q] = spc[q] \/ (spc[q] = "blocked" /\ spc'[q] = "retry")
      BY <1>0, <2>2, <3>1
    <3>3. \A v \in Workers : wpc'[v] \in Handling => wpc'[v] = wpc[v] BY DEF Handling
    <3>4. \A v \in Workers : spc'[v] # "idle" => wpc'[v] = "emit"
      BY <1>1, <3>2 DEF Callers
    <3>5. Visits'
      <4>1. visit' = visit /\ at' = at OBVIOUS
      <4>2. \A v \in Workers : wpc'[v] \in Handling => visit'[v] \in RingIds
        BY <3>3, <4>1 DEF Visits
      <4>3. \A q \in Callers : spc'[q] \notin {"scan", "fill"} => at'[q] = 0
        BY <3>2, <4>1 DEF Visits
      <4> QED BY <3>4, <4>1, <4>2, <4>3, VisitsStay DEF Visits
    <3>6. \A v \in Workers : wpc'[v] = "emit" /\ Behind(v)' => wpc[v] = "emit" /\ Behind(v)
      BY <3>2, <3>3 DEF Behind, Callers, Handling
    <3> QED BY <3>5, <3>6, OwnStays
  <2> QED BY <2>1, <2>2
<1>10. CASE Spin(w)
  <2>1. spc[w] = "idle" /\ UNCHANGED <<rings, spc, at, visit>>
        /\ wpc' = [wpc EXCEPT ![w] = "top"]
    BY <1>1, <1>10 DEF Spin, EndRound
  <2> QED BY <1>4, <2>1 DEF Locations, Handling
<1>11. CASE Park(w)
  <2>1. spc[w] = "idle" /\ UNCHANGED <<rings, spc, at, visit>>
        /\ wpc' = [wpc EXCEPT ![w] = "select"]
    BY <1>1, <1>11 DEF Park, EndRound
  <2> QED BY <1>4, <2>1 DEF Locations, Handling
<1>12. CASE Sleep(w) BY <1>1, <1>4, <1>12 DEF Sleep, Locations, Handling, roundVars
<1>13. CASE Unpark(w)
  <2>1. spc[w] = "idle" /\ UNCHANGED <<rings, spc, at, visit>>
        /\ wpc' = [wpc EXCEPT ![w] = "top"]
    BY <1>1, <1>13 DEF Unpark
  <2> QED BY <1>4, <2>1 DEF Locations, Handling
<1>14. CASE HandlerPanics(w)
  <2>1. \E k \in Nat : visit'[w] = w + k * NumWorkers
    BY <1>0, <1>14 DEF HandlerPanics
  <2> QED BY <1>0, <1>2, <1>14, <2>1 DEF HandlerPanics, InHandler, Handling
<1> QED BY <1>5, <1>6, <1>7, <1>8, <1>9, <1>10, <1>11, <1>12, <1>13, <1>14 DEF WorkerStep

LEMMA JamStop ==
  ASSUME WorkerInv, EventInv, JamInv, StopStep
  PROVE  JamInv'
<1> USE DEF JamInv, submitVars, roundVars, wakeVars, eventVars, ringVars
<1>1. CASE SetStop \/ Join
  BY <1>1 DEF SetStop, Join, Visits, OwnRingStuck, Behind
<1>2. CASE CloseDone
  <2> USE <1>2 DEF CloseDone
  <2>1. \A w \in Workers : wpc'[w] = wpc[w] \/ (wpc[w] = "asleep" /\ wpc'[w] = "leave")
    BY DEF WorkerInv
  <2>2. \A p \in Callers : spc'[p] = spc[p] \/ (spc[p] = "blocked" /\ spc'[p] = "giveUp")
    BY DEF EventInv, EventTypes
  <2>3. \A w \in Workers : wpc'[w] \in Handling => wpc'[w] = wpc[w]
    BY <2>1 DEF Handling
  <2>4. \A w \in Workers : spc'[w] # "idle" => wpc'[w] = "emit"
    BY <2>1, <2>2 DEF Visits, Callers
  <2>5. Visits' BY <2>2, <2>3, <2>4, VisitsStay DEF Visits
  <2>6. \A w \in Workers : wpc'[w] = "emit" /\ Behind(w)' => wpc[w] = "emit" /\ Behind(w)
    BY <2>2, <2>3 DEF Behind, Callers, Handling
  <2> QED BY <2>5, <2>6, OwnStays
<1> QED BY <1>1, <1>2 DEF StopStep

LEMMA JamStep ==
  ASSUME WorkerInv, EventInv, JamInv, torn' = {}, [Next]_vars
  PROVE  JamInv'
<1>t. torn = {} BY TornStays
<1>0. wpc \in [Workers -> Locations] /\ \A w \in Workers : spc[w] # "idle" => wpc[w] = "emit"
  BY DEF WorkerInv, JamInv, Visits
<1>1. CASE \E p \in Producers : ProducerSubmits(p)
  <2>1. PICK p \in Producers, e \in Events, r \in RingIds : SubmitFast(p, e, r) /\ UNCHANGED wpc
    BY <1>1 DEF ProducerSubmits
  <2>2. p \in Callers /\ p \notin Workers BY SchedulerAssumption DEF Callers
  <2> QED BY <2>1, <2>2, JamFast
<1>2. CASE \E w \in Workers : HandlerSubmits(w)
  <2>1. PICK w \in Workers, e \in Events, r \in RingIds :
          SubmitFast(w, e, r) /\ wpc[w] = "run" /\ wpc' = [wpc EXCEPT ![w] = "emit"]
    BY <1>2 DEF HandlerSubmits
  <2>2. /\ w \in Callers /\ wpc'[w] = "emit"
        /\ \A v \in Workers : v = w \/ wpc'[v] = wpc[v]
    BY <1>0, <2>1 DEF Callers
  <2>3. \A v \in Workers : wpc'[v] \in Handling => wpc[v] \in Handling
    BY <2>1, <2>2 DEF Handling
  <2>4. \A v \in Workers : wpc[v] = "emit" => wpc'[v] = "emit" BY <2>2
  <2> QED BY <2>1, <2>2, <2>3, <2>4, JamFast
<1>3. CASE UNCHANGED vars
  BY <1>3 DEF vars, ringVars, submitVars, roundVars, JamInv, Visits, OwnRingStuck, Behind
<1> QED BY <1>t, <1>1, <1>2, <1>3, JamSubmit, JamWorker, JamStop DEF Next

RestInv == torn = {} => EventInv /\ RoomInv /\ JamInv

LEMMA RestInit == Init => RestInv
<1> SUFFICES ASSUME Init PROVE EventInv /\ RoomInv /\ JamInv
  BY DEF RestInv
<1>1. RoomInv BY DEF Init, RoomInv, Waiting
<1>2. Visits
  <2>1. \A w \in Workers : w \in Nat /\ NumWorkers \in Nat /\ w = w + 0 * NumWorkers
    BY SchedulerAssumption DEF Workers
  <2>2. \A w \in Workers : \E k \in Nat : visit[w] = w + k * NumWorkers
    BY <2>1 DEF Init
  <2> QED BY <2>1, <2>2 DEF Init, Visits, Handling, Callers
<1>3. OwnRingStuck BY DEF Init, OwnRingStuck
<1> QED BY <1>1, <1>2, <1>3, EventInit DEF JamInv

LEMMA RestStep == WorkerInv /\ RestInv /\ [Next]_vars => RestInv'
<1> SUFFICES ASSUME WorkerInv, RestInv, [Next]_vars, torn' = {}
             PROVE  EventInv' /\ RoomInv' /\ JamInv'
  BY DEF RestInv
<1>1. EventInv /\ RoomInv /\ JamInv BY TornStays DEF RestInv
<1> QED BY <1>1, EventStep, RoomStep, JamStep

(* When everything is at rest although a caller is blocked for room and    *)
(* none was woken to retry, either an event is stuck in a ring or a panic  *)
(* skipped the announcement: no announcement is ever lost on its way.  And *)
(* each worker blocked in its handler's Submit waits behind its own ring,  *)
(* which only it can empty (sched.go 126-143, 182-205).                    *)
THEOREM JamHasAReason ==
  Spec => [](torn = {} /\ roomQueue # << >> /\ AtRest /\ (\A p \in Callers : spc[p] # "retry")
             => Jam /\ \A w \in Workers : spc[w] = "blocked" => rings[visit[w]] # << >>)
<1>0. WorkerInv /\ RestInv /\ torn = {} =>
        \A w \in Workers : spc[w] = "blocked" => rings[visit[w]] # << >>
  BY DEF RestInv, JamInv, Visits, OwnRingStuck, Behind
<1>1. WorkerInv /\ RestInv /\ torn = {} /\ roomQueue # << >> /\ AtRest
      /\ (\A p \in Callers : spc[p] # "retry") => Jam
  <2> SUFFICES ASSUME EventInv, RoomInv, JamInv, roomQueue # << >>, AtRest, ~silent,
                      \A p \in Callers : spc[p] # "retry"
               PROVE  SomeEvent
    BY DEF RestInv, Jam, SomeEvent
  <2>1. Waiting BY DEF EventInv, WaitersWait, Waiting
  <2>2. SomeEvent \/ SomeRound BY <2>1 DEF RoomInv, SomeRetry
  <2>3. ASSUME NEW w \in Workers, consumed[w] \/ wpc[w] \in Handling PROVE SomeEvent
    <3>1. spc[w] = "blocked" BY <2>3 DEF AtRest, RoomInv, Handling
    <3>2. visit[w] \in RingIds BY <3>1 DEF JamInv, Visits, Handling
    <3>3. rings[visit[w]] # << >> BY <3>1 DEF JamInv, Visits, OwnRingStuck, Behind
    <3> QED BY <3>2, <3>3 DEF SomeEvent
  <2> QED BY <2>2, <2>3 DEF SomeRound
<1> QED BY SchedulerInit, SchedulerStep, RestInit, RestStep, <1>0, <1>1, PTL DEF Spec

=============================================================================
