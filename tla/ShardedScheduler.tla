-------------------------- MODULE ShardedScheduler -------------------------
(***************************************************************************)
(* The scheduler of internal/support/sched/sched.go: one ring per P, a     *)
(* fixed set of workers each of which owns some rings, producers that push *)
(* back when every ring is full, workers that go to sleep when they find   *)
(* nothing.                                                                *)
(*                                                                         *)
(* A ring is what SPSCRing shows it to be: a bounded queue on which every  *)
(* Enqueue and Dequeue takes effect at once, until two calls of Enqueue    *)
(* overlap.  Callers that pin their P never overlap each other, so their   *)
(* Enqueue is one step here; the scan of all the rings in submitSlow does  *)
(* not pin, so each of its Enqueues is entered and left, and whatever      *)
(* Enqueue comes between tears the ring.  Of a torn ring nothing is known: *)
(* Enqueue may accept or refuse, Dequeue may return any event, again or    *)
(* never, the zero value (NoEvent), or nothing.                            *)
(*                                                                         *)
(* Handlers run on the workers and may submit again, so a worker can be    *)
(* inside Submit too.  Both channels of the code are modelled with Go's    *)
(* rules: a send hands over to the longest waiting receiver if there is    *)
(* one, is buffered if there is room, and is dropped otherwise (both sends *)
(* are selects with a default); close wakes every receiver of the channel. *)
(***************************************************************************)
EXTENDS Integers, Sequences, SequencesExt, FiniteSets

CONSTANTS
  Producers,   \* goroutines other than workers that call Submit
  NumWorkers,  \* worker ids are 0 .. NumWorkers - 1
  NumRings,    \* ring ids are 0 .. NumRings - 1
  RingSize,    \* capacity of a ring
  Batch,       \* events a worker takes from one ring in a round, 32 in the code
  IdleLimit,   \* empty rounds before a worker parks, 4096 + 256 in the code
  Events,      \* the events in circulation; one is reused when it was handled
  NoEvent,
  Emitting,    \* events whose handler submits another event, at most once
  Panicking    \* events whose handler may panic

Workers == 0 .. NumWorkers - 1
RingIds == 0 .. NumRings - 1
Callers == Producers \cup Workers

ASSUME SchedulerAssumption ==
  /\ NumWorkers \in Nat \ {0}
  /\ NumRings \in Nat \ {0}
  /\ RingSize \in Nat \ {0}
  /\ Batch \in Nat \ {0}
  /\ IdleLimit \in Nat
  /\ Producers \cap Workers = {}
  /\ NoEvent \notin Events
  /\ Emitting \subseteq Events
  /\ Panicking \subseteq Events

VARIABLES
  rings,      \* rings[r]: the events in ring r, oldest first, unless it is torn
  torn,       \* the rings in which two calls of Enqueue have overlapped
  spc,        \* spc[p]: where p is in Submit, "idle" when outside
  hand,       \* hand[p]: the event p submits
  at,         \* at[p]: the ring that p's scan of all the rings has come to
  bp,         \* whether backpressureCh holds its one token
  roomQueue,  \* callers blocked on backpressureCh, in order
  wpc,        \* wpc[w]: where w is in workerLoop
  visit,      \* visit[w]: the owned ring w polls; NumRings or more after the last
  count,      \* count[w]: events taken from that ring in this round
  consumed,   \* consumed[w]: whether this round took an event
  idle,       \* idle[w]: empty rounds in a row
  cur,        \* cur[w]: the event whose handler w runs
  parked,     \* the counter of parked workers
  sem,        \* tokens buffered in the channel sem
  sleepers,   \* workers blocked on sem, in order
  phase,      \* how far Stop is: "running", "stopping", "closed", "joined"
  free,       \* events that are nowhere in the scheduler
  lost,       \* events that Submit gave up on
  silent      \* history: a handler panicked since room was announced last

ringVars == <<rings, torn>>
submitVars == <<spc, hand, at>>
roundVars == <<visit, count, consumed, idle, cur>>
wakeVars == <<parked, sem, sleepers>>
eventVars == <<free, lost, silent>>
vars == <<ringVars, submitVars, bp, roomQueue, wpc, roundVars, wakeVars, phase, eventVars>>

stop == phase # "running"
done == phase \in {"closed", "joined"}
Owner(r) == r % NumWorkers

Init ==
  /\ rings = [r \in RingIds |-> << >>]
  /\ torn = {}
  /\ spc = [p \in Callers |-> "idle"]
  /\ hand = [p \in Callers |-> NoEvent]
  /\ at = [p \in Callers |-> 0]
  /\ bp = FALSE /\ roomQueue = << >>
  /\ wpc = [w \in Workers |-> "top"]
  /\ visit = [w \in Workers |-> w]
  /\ count = [w \in Workers |-> 0]
  /\ consumed = [w \in Workers |-> FALSE]
  /\ idle = [w \in Workers |-> 0]
  /\ cur = [w \in Workers |-> NoEvent]
  /\ parked = 0 /\ sem = 0 /\ sleepers = << >>
  /\ phase = "running"
  /\ free = Events /\ lost = {} /\ silent = FALSE
-----------------------------------------------------------------------------
(***************************************************************************)
(* Submit.  A handler's Submit starts in the middle of the handler.        *)
(***************************************************************************)
(* Another caller is in the middle of its Enqueue into r.                  *)
Meets(p, r) == \E q \in Callers \ {p} : spc[q] = "fill" /\ at[q] = r

(* p's Enqueue of e into r, and its result.                                *)
Enqueue(p, e, r, ok) ==
  /\ torn' = IF Meets(p, r) THEN torn \cup {r} ELSE torn
  /\ r \in torn' \/ (ok <=> Len(rings[r]) < RingSize)
  /\ rings' = [rings EXCEPT ![r] =
       IF r \in torn' THEN << >> ELSE IF ok THEN Append(@, e) ELSE @]

(* procPin, Enqueue into the ring of the current P, procUnpin.  If that    *)
(* ring is full, submitSlow tries every ring once, starting from ring 0.   *)
SubmitFast(p, e, r) ==
  /\ spc[p] = "idle" /\ e \in free
  /\ free' = free \ {e}
  /\ \/ /\ Enqueue(p, e, r, TRUE)
        /\ spc' = [spc EXCEPT ![p] = "wake"]
        /\ UNCHANGED hand
     \/ /\ Enqueue(p, e, r, FALSE)
        /\ spc' = [spc EXCEPT ![p] = "scan"]
        /\ hand' = [hand EXCEPT ![p] = e]
  /\ UNCHANGED <<at, bp, roomQueue, roundVars, wakeVars, phase, lost, silent>>

ProducerSubmits(p) ==
  /\ \E e \in Events, r \in RingIds : SubmitFast(p, e, r)
  /\ UNCHANGED wpc

HandlerSubmits(w) ==
  /\ wpc[w] = "run" /\ cur[w] \in Emitting
  /\ wpc' = [wpc EXCEPT ![w] = "emit"]
  /\ \E e \in Events, r \in RingIds : SubmitFast(w, e, r)

(* The scan enters the next ring's Enqueue, without a pin.                 *)
ScanEnter(p) ==
  /\ spc[p] = "scan"
  /\ spc' = [spc EXCEPT ![p] = "fill"]
  /\ UNCHANGED <<ringVars, hand, at, bp, roomQueue, wpc, roundVars, wakeVars, phase, eventVars>>

ScanRingNoReturn(p) ==   \* mutant: goes on after the Enqueue that succeeded
  /\ spc[p] = "fill"
  /\ \E ok \in BOOLEAN : Enqueue(p, hand[p], at[p], ok)
  /\ IF at[p] + 1 < NumRings
       THEN at' = [at EXCEPT ![p] = @ + 1] /\ spc' = [spc EXCEPT ![p] = "scan"]
       ELSE at' = [at EXCEPT ![p] = 0] /\ spc' = [spc EXCEPT ![p] = "wait"]
  /\ UNCHANGED <<hand, bp, roomQueue, wpc, roundVars, wakeVars, phase, eventVars>>

(* That Enqueue takes effect and returns.                                  *)
ScanRing(p) ==
  /\ spc[p] = "fill"
  /\ \/ /\ Enqueue(p, hand[p], at[p], TRUE)
        /\ hand' = [hand EXCEPT ![p] = NoEvent]
        /\ spc' = [spc EXCEPT ![p] = "wake"]
        /\ at' = [at EXCEPT ![p] = 0]
     \/ /\ Enqueue(p, hand[p], at[p], FALSE)
        /\ IF at[p] + 1 < NumRings
             THEN at' = [at EXCEPT ![p] = @ + 1] /\ spc' = [spc EXCEPT ![p] = "scan"]
             ELSE at' = [at EXCEPT ![p] = 0] /\ spc' = [spc EXCEPT ![p] = "wait"]
        /\ UNCHANGED hand
  /\ UNCHANGED <<bp, roomQueue, wpc, roundVars, wakeVars, phase, eventVars>>

WaitForRoomOnly(p) ==   \* mutant: does not listen to done
  /\ spc[p] = "wait"
  /\ \/ bp /\ bp' = FALSE /\ spc' = [spc EXCEPT ![p] = "retry"] /\ UNCHANGED roomQueue
     \/ /\ ~bp /\ UNCHANGED bp
        /\ roomQueue' = Append(roomQueue, p)
        /\ spc' = [spc EXCEPT ![p] = "blocked"]
  /\ UNCHANGED <<ringVars, hand, at, wpc, roundVars, wakeVars, phase, eventVars>>

(* The select on backpressureCh and done.                                  *)
WaitForRoom(p) ==
  /\ spc[p] = "wait"
  /\ \/ /\ bp
        /\ bp' = FALSE
        /\ spc' = [spc EXCEPT ![p] = "retry"]
        /\ UNCHANGED roomQueue
     \/ /\ done
        /\ spc' = [spc EXCEPT ![p] = "giveUp"]
        /\ UNCHANGED <<bp, roomQueue>>
     \/ /\ ~bp /\ ~done
        /\ roomQueue' = Append(roomQueue, p)
        /\ spc' = [spc EXCEPT ![p] = "blocked"]
        /\ UNCHANGED bp
  /\ UNCHANGED <<ringVars, hand, at, wpc, roundVars, wakeVars, phase, eventVars>>

Retry(p) ==
  /\ spc[p] = "retry"
  /\ \E r \in RingIds :
       \/ /\ Enqueue(p, hand[p], r, TRUE)
          /\ hand' = [hand EXCEPT ![p] = NoEvent]
          /\ spc' = [spc EXCEPT ![p] = "wake"]
       \/ /\ Enqueue(p, hand[p], r, FALSE)
          /\ spc' = [spc EXCEPT ![p] = "wait"]
          /\ UNCHANGED hand
  /\ UNCHANGED <<at, bp, roomQueue, wpc, roundVars, wakeVars, phase, eventVars>>

GiveUp(p) ==
  /\ spc[p] = "giveUp"
  /\ lost' = lost \cup {hand[p]}
  /\ hand' = [hand EXCEPT ![p] = NoEvent]
  /\ spc' = [spc EXCEPT ![p] = "wake"]
  /\ UNCHANGED <<ringVars, at, bp, roomQueue, wpc, roundVars, wakeVars, phase, free, silent>>

(* Submit's last lines: read the counter, then poke the semaphore.         *)
CheckParked(p) ==
  /\ spc[p] = "wake"
  /\ spc' = [spc EXCEPT ![p] = IF parked > 0 THEN "signal" ELSE "idle"]
  /\ UNCHANGED <<ringVars, hand, at, bp, roomQueue, wpc, roundVars, wakeVars, phase, eventVars>>

Signal(p) ==
  /\ spc[p] = "signal"
  /\ spc' = [spc EXCEPT ![p] = "idle"]
  /\ \/ /\ sleepers # << >>
        /\ wpc' = [wpc EXCEPT ![Head(sleepers)] = "woken"]
        /\ sleepers' = Tail(sleepers)
        /\ UNCHANGED sem
     \/ /\ sleepers = << >>
        /\ sem' = IF sem < NumWorkers THEN sem + 1 ELSE sem
        /\ UNCHANGED <<wpc, sleepers>>
  /\ UNCHANGED <<ringVars, hand, at, bp, roomQueue, roundVars, parked, phase, eventVars>>
-----------------------------------------------------------------------------
(***************************************************************************)
(* A worker.  "top" is the test of stop, in worker and in workerLoop.      *)
(***************************************************************************)
StartRound(w) ==
  /\ wpc[w] = "top"
  /\ wpc' = [wpc EXCEPT ![w] = IF stop THEN "exited" ELSE "poll"]
  /\ visit' = [visit EXCEPT ![w] = w]
  /\ count' = [count EXCEPT ![w] = 0]
  /\ consumed' = [consumed EXCEPT ![w] = FALSE]
  /\ UNCHANGED <<ringVars, submitVars, bp, roomQueue, idle, cur, wakeVars, phase, eventVars>>

(* A Dequeue that returns an event; one that finds nothing is part of      *)
(* NextRing, as the batch limit is.                                        *)
Dequeue(w, r) ==
  \/ /\ r \notin torn /\ rings[r] # << >>
     /\ cur' = [cur EXCEPT ![w] = Head(rings[r])]
     /\ rings' = [rings EXCEPT ![r] = Tail(@)]
  \/ /\ r \in torn
     /\ \E x \in Events \cup {NoEvent} : cur' = [cur EXCEPT ![w] = x]
     /\ UNCHANGED rings

TakeOneNoLimit(w) ==   \* mutant: empties the ring before it moves on
  /\ wpc[w] = "poll" /\ visit[w] < NumRings
  /\ Dequeue(w, visit[w])
  /\ wpc' = [wpc EXCEPT ![w] = "run"]
  /\ UNCHANGED <<torn, submitVars, bp, roomQueue, visit, count, consumed, idle, wakeVars,
                 phase, eventVars>>

TakeOne(w) ==
  /\ wpc[w] = "poll" /\ visit[w] < NumRings /\ count[w] < Batch
  /\ Dequeue(w, visit[w])
  /\ count' = [count EXCEPT ![w] = @ + 1]
  /\ wpc' = [wpc EXCEPT ![w] = "run"]
  /\ UNCHANGED <<torn, submitVars, bp, roomQueue, visit, consumed, idle, wakeVars, phase,
                 eventVars>>

NextRing(w) ==
  /\ wpc[w] = "poll" /\ visit[w] < NumRings
  /\ count[w] = Batch \/ rings[visit[w]] = << >>
  /\ visit' = [visit EXCEPT ![w] = @ + NumWorkers]
  /\ count' = [count EXCEPT ![w] = 0]
  /\ UNCHANGED <<ringVars, submitVars, bp, roomQueue, wpc, consumed, idle, cur, wakeVars,
                 phase, eventVars>>

InHandler(w) == wpc[w] \in {"run", "emit"} /\ spc[w] = "idle"

HandlerReturnsUnnoticed(w) ==   \* mutant: forgets to set consumed
  /\ InHandler(w)
  /\ free' = free \cup ({cur[w]} \ {NoEvent})
  /\ cur' = [cur EXCEPT ![w] = NoEvent]
  /\ wpc' = [wpc EXCEPT ![w] = "poll"]
  /\ UNCHANGED <<ringVars, submitVars, bp, roomQueue, visit, count, consumed, idle, wakeVars,
                 phase, lost, silent>>

HandlerReturns(w) ==
  /\ InHandler(w)
  /\ consumed' = [consumed EXCEPT ![w] = TRUE]
  /\ free' = free \cup ({cur[w]} \ {NoEvent})
  /\ cur' = [cur EXCEPT ![w] = NoEvent]
  /\ wpc' = [wpc EXCEPT ![w] = "poll"]
  /\ UNCHANGED <<ringVars, submitVars, bp, roomQueue, visit, count, idle, wakeVars, phase,
                 lost, silent>>

(* The panic leaves workerLoop through its recover, and worker calls it    *)
(* again with fresh locals.  The buses' handlers panic on the zero value.  *)
HandlerPanics(w) ==
  /\ InHandler(w) /\ cur[w] \in Panicking \cup {NoEvent}
  /\ free' = free \cup ({cur[w]} \ {NoEvent})
  /\ cur' = [cur EXCEPT ![w] = NoEvent]
  /\ visit' = [visit EXCEPT ![w] = w]
  /\ count' = [count EXCEPT ![w] = 0]
  /\ consumed' = [consumed EXCEPT ![w] = FALSE]
  /\ idle' = [idle EXCEPT ![w] = 0]
  /\ wpc' = [wpc EXCEPT ![w] = "top"]
  /\ silent' = TRUE
  /\ UNCHANGED <<ringVars, submitVars, bp, roomQueue, wakeVars, phase, lost>>

EndRound(w) == wpc[w] = "poll" /\ visit[w] >= NumRings

AnnounceRoom(w) ==
  /\ EndRound(w) /\ consumed[w]
  /\ idle' = [idle EXCEPT ![w] = 0]
  /\ wpc' = [wpc EXCEPT ![w] = "top"]
  /\ consumed' = [consumed EXCEPT ![w] = FALSE]
  /\ silent' = FALSE
  /\ \/ /\ roomQueue # << >>
        /\ spc' = [spc EXCEPT ![Head(roomQueue)] = "retry"]
        /\ roomQueue' = Tail(roomQueue)
        /\ UNCHANGED bp
     \/ /\ roomQueue = << >>
        /\ bp' = TRUE
        /\ UNCHANGED <<spc, roomQueue>>
  /\ UNCHANGED <<ringVars, hand, at, visit, count, cur, wakeVars, phase, free, lost>>

Spin(w) ==
  /\ EndRound(w) /\ ~consumed[w] /\ idle[w] < IdleLimit
  /\ idle' = [idle EXCEPT ![w] = @ + 1]
  /\ wpc' = [wpc EXCEPT ![w] = "top"]
  /\ UNCHANGED <<ringVars, submitVars, bp, roomQueue, visit, count, consumed, cur, wakeVars,
                 phase, eventVars>>

Park(w) ==
  /\ EndRound(w) /\ ~consumed[w] /\ idle[w] = IdleLimit
  /\ idle' = [idle EXCEPT ![w] = @ + 1]
  /\ parked' = parked + 1
  /\ wpc' = [wpc EXCEPT ![w] = "select"]
  /\ UNCHANGED <<ringVars, submitVars, bp, roomQueue, visit, count, consumed, cur, sem,
                 sleepers, phase, eventVars>>

(* The select on sem and done.                                             *)
Sleep(w) ==
  /\ wpc[w] = "select"
  /\ \/ /\ sem > 0
        /\ sem' = sem - 1
        /\ wpc' = [wpc EXCEPT ![w] = "woken"]
        /\ UNCHANGED sleepers
     \/ /\ done
        /\ wpc' = [wpc EXCEPT ![w] = "leave"]
        /\ UNCHANGED <<sem, sleepers>>
     \/ /\ sem = 0 /\ ~done
        /\ sleepers' = Append(sleepers, w)
        /\ wpc' = [wpc EXCEPT ![w] = "asleep"]
        /\ UNCHANGED sem
  /\ UNCHANGED <<ringVars, submitVars, bp, roomQueue, roundVars, parked, phase, eventVars>>

UnparkUncounted(w) ==   \* mutant: leaves without decrementing the counter
  /\ wpc[w] \in {"woken", "leave"}
  /\ parked' = IF wpc[w] = "woken" THEN parked - 1 ELSE parked
  /\ idle' = [idle EXCEPT ![w] = 0]
  /\ wpc' = [wpc EXCEPT ![w] = "top"]
  /\ UNCHANGED <<ringVars, submitVars, bp, roomQueue, visit, count, consumed, cur, sem,
                 sleepers, phase, eventVars>>

(* Woken by a token the worker starts over; by done it leaves workerLoop.  *)
Unpark(w) ==
  /\ wpc[w] \in {"woken", "leave"}
  /\ parked' = parked - 1
  /\ idle' = [idle EXCEPT ![w] = 0]
  /\ wpc' = [wpc EXCEPT ![w] = "top"]
  /\ UNCHANGED <<ringVars, submitVars, bp, roomQueue, visit, count, consumed, cur, sem,
                 sleepers, phase, eventVars>>
-----------------------------------------------------------------------------
(***************************************************************************)
(* Stop, called once (Close of the bus is guarded by a compare-and-swap).  *)
(***************************************************************************)
SetStop ==
  /\ phase = "running"
  /\ phase' = "stopping"
  /\ UNCHANGED <<ringVars, submitVars, bp, roomQueue, wpc, roundVars, wakeVars, eventVars>>

CloseDone ==
  /\ phase = "stopping"
  /\ phase' = "closed"
  /\ spc' = [p \in Callers |-> IF spc[p] = "blocked" THEN "giveUp" ELSE spc[p]]
  /\ wpc' = [w \in Workers |-> IF wpc[w] = "asleep" THEN "leave" ELSE wpc[w]]
  /\ roomQueue' = << >>
  /\ sleepers' = << >>
  /\ UNCHANGED <<ringVars, hand, at, bp, roundVars, parked, sem, eventVars>>

Join ==
  /\ phase = "closed"
  /\ \A w \in Workers : wpc[w] = "exited"
  /\ phase' = "joined"
  /\ UNCHANGED <<ringVars, submitVars, bp, roomQueue, wpc, roundVars, wakeVars, eventVars>>
-----------------------------------------------------------------------------
(* The steps of a Submit that has begun.                                   *)
SubmitStep(p) ==
  \/ ScanEnter(p)
  \/ ScanRing(p)
  \/ WaitForRoom(p)
  \/ Retry(p)
  \/ GiveUp(p)
  \/ CheckParked(p)
  \/ Signal(p)

(* The steps a worker takes by itself; a handler need not submit or panic, *)
(* but it returns.                                                         *)
WorkerStep(w) ==
  \/ StartRound(w)
  \/ TakeOne(w)
  \/ NextRing(w)
  \/ HandlerReturns(w)
  \/ AnnounceRoom(w)
  \/ Spin(w)
  \/ Park(w)
  \/ Sleep(w)
  \/ Unpark(w)

StopStep == SetStop \/ CloseDone \/ Join

Next ==
  \/ \E p \in Producers : ProducerSubmits(p)
  \/ \E p \in Callers : SubmitStep(p)
  \/ \E w \in Workers : WorkerStep(w) \/ HandlerSubmits(w) \/ HandlerPanics(w)
  \/ StopStep

Spec == Init /\ [][Next]_vars

(* The Go scheduler runs every goroutine that can run, handlers return,    *)
(* and a Stop that was called proceeds.  Nobody is obliged to submit or to *)
(* call Stop.                                                              *)
Fairness ==
  /\ \A p \in Callers : WF_vars(SubmitStep(p))
  /\ \A w \in Workers : WF_vars(WorkerStep(w))
  /\ WF_vars(CloseDone \/ Join)

FairSpec == Spec /\ Fairness
-----------------------------------------------------------------------------
(* Types, and the two wait queues hold whom the locations say they hold.   *)
TypeOK ==
  /\ rings \in [RingIds -> Seq(Events)]
  /\ \A r \in RingIds : Len(rings[r]) <= RingSize
  /\ torn \subseteq RingIds
  /\ spc \in [Callers -> {"idle", "scan", "fill", "wait", "blocked", "retry", "giveUp",
                          "wake", "signal"}]
  /\ hand \in [Callers -> Events \cup {NoEvent}]
  /\ at \in [Callers -> RingIds]
  /\ bp \in BOOLEAN
  /\ ToSet(roomQueue) = {p \in Callers : spc[p] = "blocked"} /\ IsInjective(roomQueue)
  /\ wpc \in [Workers -> {"top", "poll", "run", "emit", "select", "asleep",
                          "woken", "leave", "exited"}]
  /\ visit \in [Workers -> 0 .. NumRings + NumWorkers]
  /\ count \in [Workers -> 0 .. Batch]
  /\ consumed \in [Workers -> BOOLEAN]
  /\ idle \in [Workers -> 0 .. IdleLimit + 1]
  /\ cur \in [Workers -> Events \cup {NoEvent}]
  /\ parked \in Nat /\ sem \in 0 .. NumWorkers
  /\ ToSet(sleepers) = {w \in Workers : wpc[w] = "asleep"} /\ IsInjective(sleepers)
  /\ phase \in {"running", "stopping", "closed", "joined"}
  /\ free \subseteq Events /\ lost \subseteq Events /\ silent \in BOOLEAN

(* As long as no ring is torn the scheduler implements Dispatcher: each    *)
(* event is in one place and taken once, a panic or a full ring loses      *)
(* none, Submit gives one up only after Stop closed done, and once Stop    *)
(* has returned no handler runs and none starts (sched.go 97-105, 119-143, *)
(* 182-187, 233-237).                                                      *)
Held(slots) == {slots[p] : p \in DOMAIN slots} \ {NoEvent}
Queued(rs) == UNION {{rs[r][i] : i \in DOMAIN rs[r]} : r \in RingIds}

D == INSTANCE Dispatcher WITH
  offered <- Held(hand),
  queued <- Queued(rings),
  running <- Held(cur),
  dropped <- lost

RefinesDispatcher == D!Init /\ [][D!Next \/ torn' # {}]_(D!vars)

(* The counter that decides whether Submit signals counts exactly the      *)
(* workers between their two updates of it (sched.go 108, 221-227).        *)
ParkedIsExact ==
  parked = Cardinality({w \in Workers : wpc[w] \in {"select", "asleep", "woken", "leave"}})

(* A Stop that was called returns, whatever the workers were doing, and    *)
(* every Submit that was waiting for room or begins later is let go        *)
(* (sched.go 129-136, 233-237).                                            *)
StopLetsEveryoneGo ==
  /\ phase = "stopping" ~> phase = "joined"
  /\ \A p \in Callers : done /\ spc[p] # "idle" ~> spc[p] = "idle"

(* Under unending traffic no event is left in a ring that is not torn: its *)
(* worker is woken and the batch limit keeps a busy ring from starving     *)
(* another one that the same worker owns (sched.go 108-113, 178-189).      *)
(* Handlers that go on panicking may starve it: a panic starts the round   *)
(* over at the first ring.                                                 *)
Traffic == []<><<\E p \in Callers : CheckParked(p)>>_vars
Panics == []<><<\E w \in Workers : HandlerPanics(w)>>_vars

DeliveredUnderTraffic ==
  Traffic => \/ Panics
             \/ \A e \in Events :
                  e \in Queued(rings) ~> e \notin Queued(rings) \/ phase # "running"

(* Everything is at rest although a caller waits for room: every worker    *)
(* sleeps, or waits for room itself in its handler's Submit.  The events   *)
(* that are stuck are in the ring of a worker that waits behind its own    *)
(* full ring, or came after the ring's owner had looked and before it      *)
(* counted as parked; or nothing is stuck, and a panic skipped the         *)
(* announcement of the room that its event had made.                       *)
AtRest == \A w \in Workers : wpc[w] = "asleep" \/ spc[w] = "blocked"

Jam ==
  /\ AtRest
  /\ (\E r \in RingIds : rings[r] # << >>) \/ silent

(* A caller stays blocked for room for good in such a jam only, or while   *)
(* handlers panic again and again, or with a ring that was torn: as long   *)
(* as a worker can take something, the blocked are woken one by one ("the  *)
(* consumer's taking wakes it", sched.go 126-143, 195-205).                *)
BlockedOnlyInJam ==
  \A p \in Callers :
    <>[](spc[p] = "blocked") => Panics \/ <>[]Jam \/ <>(torn # {})
=============================================================================
