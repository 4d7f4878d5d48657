----------------------------- MODULE BusLifecycle ---------------------------
(***************************************************************************)
(* The life of a bus of internal/impl/sync/bus.go, in its synchronous mode *)
(* ("sync") and its asynchronous one ("pool"), and of one of               *)
(* internal/impl/async/bus.go ("async"): what Emit, EmitMatch and their    *)
(* batches count and report, Stats, the errors of asynchronous handlers,   *)
(* Close and Drain.  The scheduler is Dispatcher, which ShardedScheduler   *)
(* implements until a ring of it is torn.                                  *)
(*                                                                         *)
(* Each event has one handler, which returns nil ("ok") or an error,       *)
(* panics, or waits for ever, for the Close it calls itself or something   *)
(* else; that it runs at all is the subject of Subscriptions.  Errors are  *)
(* numbered in the order they are reported.                                *)
(***************************************************************************)
EXTENDS Integers, Sequences, SequencesExt, FiniteSetsExt

CONSTANTS
  Emitters,
  Plans,     \* records: the kind of bus; calls[g], the calls of emitter g, records of
             \* their op, of one event or of a batch, and its events; closers, those
             \* that close it; and observers, which of {"Stats", "ClearError"} are called
  Events,    \* the events in a plan, each in one place of it only
  Nils,      \* those that are nil pointers
  Closers, Drainers,   \* Drainers: the closers that call Drain with a timeout
  Blocking,  \* the events whose handler, on a worker, may never return
  ErrCap,    \* the capacity of errChan, 1024 in the code
  Slots,     \* the slots of a per-CPU counter are 1 .. Slots
  SlotOf,    \* SlotOf[g]: the slot that emitter g adds to
  WorkerSlot \* that of the workers

ASSUME BusAssumption ==
  /\ IsFiniteSet(Emitters)
  /\ \A p \in Plans :
       /\ p.kind \in {"sync", "pool", "async"}
       /\ p.calls \in [Emitters -> Seq([op : {"emit", "match"}, batch : BOOLEAN,
                                        events : Seq(Events)])]
       /\ \A g \in Emitters : \A i \in DOMAIN p.calls[g] :
            p.calls[g][i].batch \/ Len(p.calls[g][i].events) = 1
       /\ p.closers \subseteq Closers /\ p.observers \subseteq {"Stats", "ClearError"}
  /\ Nils \subseteq Events /\ Blocking \subseteq Events \ Nils
  /\ Drainers \subseteq Closers
  /\ ErrCap \in Nat \ {0} /\ Slots \in Nat \ {0}
  /\ WorkerSlot \in 1 .. Slots /\ SlotOf \in [Emitters -> 1 .. Slots]

VARIABLES
  plan, closed,
  free, offered, queued, running, dropped, phase,   \* of Dispatcher
  begun,     \* the running events that passed dispatchAsync's look at closed
  stuck,     \* those whose handler never returns
  epc, call, \* where emitter g is, and in which of its calls
  op, todo,  \* "emit" or "match", and the events of the call still to go
  count,     \* count[k][s]: slot s of the counter k
  uncounted, \* history: the events that ended in no counter
  entered,   \* history: the events that a call of the async bus let in
  errChan, errDone, lastErr,
  hpc, held, \* where errorHandler is, and the error it holds
  reported,  \* how many errors were reported
  byWorkers, \* history: those of them that handlers on workers caused
  stored,    \* history: those that got to lastErr
  overflowed,\* history: an error found errChan full
  dpc,       \* where closer d is
  spc, sum, low   \* Stats: how far, the sums, and the totals when it began

D == INSTANCE Dispatcher
kind == plan.kind

schedVars == <<free, offered, queued, running, dropped, phase>>
workVars == <<begun, stuck>>
emitVars == <<epc, call, op, todo>>
countVars == <<count, uncounted, entered>>
errVars == <<errChan, lastErr, hpc, held, reported, byWorkers, stored, overflowed>>
statsVars == <<spc, sum, low>>
lifeVars == <<plan, closed, schedVars, workVars, emitVars, countVars, errDone, errVars, dpc,
              statsVars>>

Counters == {"emitted", "processed", "panics"}
SumOver(slots, f) == MapThenSumSet(LAMBDA s : f[s], slots)
Total(k) == SumOver(1 .. Slots, count[k])
Add(k, slot, n) == count' = [count EXCEPT ![k][slot] = @ + n]

LifeInit ==
  /\ plan \in Plans /\ closed = FALSE
  /\ D!Init
  /\ begun = {} /\ stuck = {}
  /\ epc = [g \in Emitters |-> "idle"] /\ call = [g \in Emitters |-> 1]
  /\ op = [g \in Emitters |-> "emit"] /\ todo = [g \in Emitters |-> << >>]
  /\ count = [k \in Counters |-> [s \in 1 .. Slots |-> 0]]
  /\ uncounted = 0 /\ entered = 0
  /\ errChan = << >> /\ errDone = FALSE /\ lastErr = 0
  /\ hpc = IF kind = "pool" THEN "select" ELSE "none"
  /\ held = 0 /\ reported = 0 /\ byWorkers = {} /\ stored = {} /\ overflowed = FALSE
  /\ dpc = [d \in Closers |-> "idle"]
  /\ spc = 0 /\ sum = [k \in Counters |-> 0] /\ low = [k \in Counters |-> 0]
-----------------------------------------------------------------------------
(* reportError: a send that does not block, or lastErr at once.            *)
Report(fromWorker) ==
  /\ reported' = reported + 1
  /\ byWorkers' = IF fromWorker THEN byWorkers \cup {reported'} ELSE byWorkers
  /\ \/ /\ Len(errChan) < ErrCap
        /\ errChan' = Append(errChan, reported')
        /\ UNCHANGED <<lastErr, stored, overflowed>>
     \/ /\ Len(errChan) = ErrCap
        /\ lastErr' = reported'
        /\ stored' = stored \cup {reported'}
        /\ overflowed' = TRUE
        /\ UNCHANGED errChan
  /\ UNCHANGED <<hpc, held>>

(* The handler of e ends on a worker. The async bus drops the error; a     *)
(* panic reaches the scheduler's recover, and OnPanic.                     *)
Outcomes(e) == IF e \in Nils THEN {"panic"} ELSE {"ok", "error", "panic"}

WorkerEndsCountsAll(e, o) ==   \* mutant: processed is added to in a defer
  /\ e \in begun \ stuck
  /\ D!Finish(e)
  /\ begun' = begun \ {e}
  /\ count' = [count EXCEPT !["processed"][WorkerSlot] = @ + 1,
                            !["panics"][WorkerSlot] = IF o = "panic" THEN @ + 1 ELSE @]
  /\ IF kind = "pool" /\ o # "ok" THEN Report(TRUE) ELSE UNCHANGED errVars
  /\ UNCHANGED <<plan, closed, stuck, emitVars, uncounted, entered, errDone, dpc, statsVars>>

WorkerEnds(e, o) ==
  /\ e \in begun \ stuck
  /\ D!Finish(e)
  /\ begun' = begun \ {e}
  /\ Add(IF o = "panic" THEN "panics" ELSE "processed", WorkerSlot, 1)
  /\ IF kind = "pool" /\ o # "ok" THEN Report(TRUE) ELSE UNCHANGED errVars
  /\ UNCHANGED <<plan, closed, stuck, emitVars, uncounted, entered, errDone, dpc, statsVars>>

(* dispatchAsync of the sync bus returns at once when the bus is closed.   *)
WorkerTakes(e) ==
  /\ D!Take(e)
  /\ begun' = IF kind = "pool" /\ closed THEN begun ELSE begun \cup {e}
  /\ UNCHANGED <<plan, closed, stuck, emitVars, countVars, errDone, errVars, dpc, statsVars>>

WorkerSkips(e) ==
  /\ e \in running \ begun
  /\ D!Finish(e)
  /\ uncounted' = uncounted + 1
  /\ UNCHANGED <<plan, closed, workVars, emitVars, count, entered, errDone, errVars, dpc,
                 statsVars>>

(* A handler on a worker calls Close first, which waits for the worker, or *)
(* waits for something else.                                               *)
HandlerBlocks(e) ==
  /\ e \in (begun \cap Blocking) \ stuck
  /\ closed' \in {closed, TRUE}
  /\ stuck' = stuck \cup {e}
  /\ UNCHANGED <<plan, schedVars, begun, emitVars, countVars, errDone, errVars, dpc, statsVars>>
-----------------------------------------------------------------------------
(***************************************************************************)
(* Emit, EmitBatch, EmitMatch, EmitMatchBatch.                             *)
(***************************************************************************)
(* The sync bus counts the events of a call before the first, except that  *)
(* EmitMatchBatch in asynchronous mode counts them one by one. Emit and    *)
(* EmitMatch ignore nil; a batch of one nil is not ignored.                *)
Start(g) ==
  /\ epc[g] = "idle" /\ call[g] \in DOMAIN plan.calls[g]
  /\ LET o == plan.calls[g][call[g]].op
         events == plan.calls[g][call[g]].events
         ignored == ~plan.calls[g][call[g]].batch /\ events[1] \in Nils
     IN /\ todo' = [todo EXCEPT ![g] = IF ignored THEN << >> ELSE events]
        /\ IF ~ignored /\ (kind = "sync" \/ (kind = "pool" /\ o = "emit"))
             THEN Add("emitted", SlotOf[g], Len(events))
             ELSE UNCHANGED count
        /\ op' = [op EXCEPT ![g] = o]
  /\ call' = [call EXCEPT ![g] = @ + 1]
  /\ epc' = [epc EXCEPT ![g] = "each"]
  /\ UNCHANGED <<plan, closed, schedVars, workVars, uncounted, entered, errDone, errVars,
                 dpc, statsVars>>

Inline(g) == kind = "sync" \/ op[g] = "match"

(* The async bus looks at closed, and passes over nil, for each event.     *)
Each(g) ==
  /\ epc[g] = "each" /\ todo[g] # << >>
  /\ IF kind = "async" /\ (closed \/ Head(todo[g]) \in Nils)
       THEN /\ todo' = [todo EXCEPT ![g] = Tail(@)]
            /\ UNCHANGED <<epc, count, entered>>
       ELSE /\ epc' = [epc EXCEPT ![g] = IF Inline(g) THEN "inline" ELSE "submit"]
            /\ IF kind = "pool" /\ op[g] = "match"
                 THEN Add("emitted", SlotOf[g], 1)
                 ELSE UNCHANGED count
            /\ entered' = IF kind = "async" THEN entered + 1 ELSE entered
            /\ UNCHANGED todo
  /\ UNCHANGED <<plan, closed, schedVars, workVars, call, op, uncounted, errDone, errVars,
                 dpc, statsVars>>

Submit(g) ==
  /\ epc[g] = "submit"
  /\ D!Submit(Head(todo[g]))
  /\ epc' = [epc EXCEPT ![g] = "sent"]
  /\ UNCHANGED <<plan, closed, workVars, call, op, todo, countVars, errDone, errVars, dpc,
                 statsVars>>

(* Submit returns when the event is queued or dropped.                     *)
Sent(g) ==
  /\ epc[g] = "sent" /\ Head(todo[g]) \notin offered
  /\ todo' = [todo EXCEPT ![g] = Tail(@)]
  /\ epc' = [epc EXCEPT ![g] = "each"]
  /\ UNCHANGED <<plan, closed, schedVars, workVars, call, op, countVars, errDone, errVars,
                 dpc, statsVars>>

(* The handler ends on the caller's own goroutine: an error ends the batch *)
(* but in the asynchronous mode of the sync bus, which reports it; a panic *)
(* ends it always, and only the sync bus recovers and counts it.           *)
EndInline(g, o) ==
  LET aborts == o = "panic" \/ (o = "error" /\ kind # "pool")
      rest == IF aborts /\ kind = "sync" THEN Len(todo[g]) - 1 ELSE 0
      in == CASE o = "panic" /\ kind # "async" -> "panics"
              [] kind = "pool" \/ (kind = "async" /\ ~aborts) -> "processed"
              [] OTHER -> "none"
  IN /\ epc[g] = "inline"
     /\ todo' = [todo EXCEPT ![g] = IF aborts THEN << >> ELSE Tail(@)]
     /\ epc' = [epc EXCEPT ![g] = "each"]
     /\ IF in = "none" THEN UNCHANGED count ELSE Add(in, SlotOf[g], 1)
     /\ uncounted' = uncounted + rest + (IF in = "none" THEN 1 ELSE 0)
     /\ IF kind = "pool" /\ o = "error" THEN Report(FALSE) ELSE UNCHANGED errVars
     /\ UNCHANGED <<plan, closed, schedVars, workVars, call, op, entered, errDone, dpc,
                    statsVars>>

EmitReturns(g) ==
  /\ epc[g] = "each" /\ todo[g] = << >>
  /\ epc' = [epc EXCEPT ![g] = "idle"]
  /\ UNCHANGED <<plan, closed, schedVars, workVars, call, op, todo, countVars, errDone,
                 errVars, dpc, statsVars>>

(* The scheduler finds room for an event, or its submitter gives up.       *)
Room(e) ==
  /\ D!Queue(e) \/ D!Drop(e)
  /\ UNCHANGED <<plan, closed, workVars, emitVars, countVars, errDone, errVars, dpc, statsVars>>
-----------------------------------------------------------------------------
(***************************************************************************)
(* Close and Drain. A Drain calls Close in a goroutine of its own, which   *)
(* goes on when the timer fires.                                           *)
(***************************************************************************)
CloseStart(d) ==
  /\ d \in plan.closers /\ dpc[d] = "idle"
  /\ closed' = TRUE
  /\ dpc' = [dpc EXCEPT ![d] = IF closed THEN "returned" ELSE "stop"]
  /\ UNCHANGED <<plan, schedVars, workVars, emitVars, countVars, errDone, errVars, statsVars>>

(* Who set closed stops the scheduler, a handler too.                      *)
StopScheduler ==
  /\ kind # "sync" /\ closed
  /\ D!Stop
  /\ UNCHANGED <<plan, closed, workVars, emitVars, countVars, errDone, errVars, dpc, statsVars>>

CloseEndsErrorsFirst(d) ==   \* mutant: errDone is closed before the workers have gone
  /\ dpc[d] \in {"stop", "timedOut"}
  /\ IF errDone THEN kind = "sync" \/ phase = "joined" ELSE TRUE
  /\ errDone' = TRUE
  /\ dpc' = IF errDone THEN [dpc EXCEPT ![d] = "returned"] ELSE dpc
  /\ UNCHANGED <<plan, closed, schedVars, workVars, emitVars, countVars, errVars, statsVars>>

CloseEnds(d) ==
  /\ dpc[d] \in {"stop", "timedOut"}
  /\ kind = "sync" \/ phase = "joined"
  /\ errDone' = (kind = "pool")
  /\ dpc' = [dpc EXCEPT ![d] = "returned"]
  /\ UNCHANGED <<plan, closed, schedVars, workVars, emitVars, countVars, errVars, statsVars>>

DrainIgnoresTimer(d) == FALSE /\ UNCHANGED lifeVars   \* mutant: Drain waits for Close
DrainTimesOut(d) ==
  /\ d \in Drainers /\ dpc[d] = "stop"
  /\ dpc' = [dpc EXCEPT ![d] = "timedOut"]
  /\ UNCHANGED <<plan, closed, schedVars, workVars, emitVars, countVars, errDone, errVars,
                 statsVars>>
-----------------------------------------------------------------------------
(* errorHandler: receives, and stores under errMu. When it has seen        *)
(* errDone it goes on until errChan is empty.                              *)
ReceiveError ==
  /\ hpc \in {"select", "drain"} /\ errChan # << >>
  /\ held' = Head(errChan)
  /\ errChan' = Tail(errChan)
  /\ hpc' = IF hpc = "drain" THEN "drainStore" ELSE "store"
  /\ UNCHANGED <<plan, closed, schedVars, workVars, emitVars, countVars, errDone, lastErr,
                 reported, byWorkers, stored, overflowed, dpc, statsVars>>

StoreError ==
  /\ hpc \in {"store", "drainStore"}
  /\ lastErr' = held
  /\ stored' = stored \cup {held}
  /\ held' = 0
  /\ hpc' = IF hpc = "store" THEN "select" ELSE "drain"
  /\ UNCHANGED <<plan, closed, schedVars, workVars, emitVars, countVars, errDone, errChan,
                 reported, byWorkers, overflowed, dpc, statsVars>>

SeeErrDone ==
  /\ \/ hpc = "select" /\ errDone /\ hpc' = "drain"
     \/ hpc = "drain" /\ errChan = << >> /\ hpc' = "gone"
  /\ UNCHANGED <<plan, closed, schedVars, workVars, emitVars, countVars, errDone, errChan,
                 lastErr, held, reported, byWorkers, stored, overflowed, dpc, statsVars>>

ClearError ==
  /\ "ClearError" \in plan.observers /\ lastErr # 0
  /\ lastErr' = 0
  /\ UNCHANGED <<plan, closed, schedVars, workVars, emitVars, countVars, errDone, errChan,
                 hpc, held, reported, byWorkers, stored, overflowed, dpc, statsVars>>
-----------------------------------------------------------------------------
(* Stats reads the counters one after the other, slot by slot.             *)
ReadOrder == <<"emitted", "processed", "panics">>

StatsBegin ==
  /\ "Stats" \in plan.observers /\ spc = 0
  /\ spc' = 1
  /\ low' = [k \in Counters |-> Total(k)]
  /\ UNCHANGED <<plan, closed, schedVars, workVars, emitVars, countVars, errDone, errVars,
                 dpc, sum>>

StatsReadsFirst ==   \* mutant: the first slot is read for all of them
  /\ spc \in 1 .. 3 * Slots
  /\ LET k == ReadOrder[((spc - 1) \div Slots) + 1]
     IN sum' = [sum EXCEPT ![k] = @ + count[k][1]]
  /\ spc' = spc + 1
  /\ UNCHANGED <<plan, closed, schedVars, workVars, emitVars, countVars, errDone, errVars,
                 dpc, low>>

StatsRead ==
  /\ spc \in 1 .. 3 * Slots
  /\ LET k == ReadOrder[((spc - 1) \div Slots) + 1]
         s == ((spc - 1) % Slots) + 1
     IN sum' = [sum EXCEPT ![k] = @ + count[k][s]]
  /\ spc' = spc + 1
  /\ UNCHANGED <<plan, closed, schedVars, workVars, emitVars, countVars, errDone, errVars,
                 dpc, low>>
-----------------------------------------------------------------------------
Emitter(g) ==
  \/ Start(g)
  \/ Each(g)
  \/ Submit(g)
  \/ Sent(g)
  \/ \E o \in {"ok", "error", "panic"} :
       /\ todo[g] # << >> => o \in Outcomes(Head(todo[g]))
       /\ EndInline(g, o)
  \/ EmitReturns(g)

Worker(e) == WorkerSkips(e) \/ \E o \in Outcomes(e) : WorkerEnds(e, o)

ErrorHandler == ReceiveError \/ StoreError \/ SeeErrDone

LifeNext ==
  \/ \E g \in Emitters : Emitter(g)
  \/ \E e \in Events : WorkerTakes(e) \/ HandlerBlocks(e) \/ Worker(e) \/ Room(e)
  \/ \E d \in Closers : CloseStart(d) \/ CloseEnds(d) \/ DrainTimesOut(d)
  \/ StopScheduler
  \/ ErrorHandler \/ ClearError
  \/ StatsBegin \/ StatsRead

LifeSpec == LifeInit /\ [][LifeNext]_lifeVars

(* Handlers return, timers fire, and a Close that has begun goes on, as    *)
(* does the error handler.                                                 *)
FairSpec ==
  /\ LifeSpec
  /\ \A e \in Events : WF_lifeVars(Worker(e))
  /\ \A d \in Closers : WF_lifeVars(CloseEnds(d)) /\ WF_lifeVars(DrainTimesOut(d))
  /\ WF_lifeVars(StopScheduler) /\ WF_lifeVars(ErrorHandler)
-----------------------------------------------------------------------------
LifeTypeOK ==
  /\ \A g \in Emitters : epc[g] \in {"idle", "each", "submit", "sent", "inline"}
  /\ begun \subseteq running /\ stuck \subseteq begun
  /\ hpc \in {"none", "select", "store", "drain", "drainStore", "gone"}
  /\ Len(errChan) <= ErrCap /\ lastErr \in 0 .. reported
  /\ \A d \in Closers : dpc[d] \in {"idle", "stop", "timedOut", "returned"}

(* The events of g's call that are counted, and are neither in the         *)
(* scheduler nor handled.                                                  *)
InCall(g) ==
  IF kind = "async" \/ (kind = "pool" /\ op[g] = "match")
    THEN IF epc[g] \in {"submit", "inline"} THEN 1 ELSE 0
    ELSE Len(todo[g]) - (IF epc[g] = "sent" THEN 1 ELSE 0)

(* Each event that a call counts in, the async bus aside, which keeps no   *)
(* count of them, ends as processed or as a panic, once, unless: it is     *)
(* dropped by a Submit that Stop released or skipped after Close; it ran   *)
(* in the caller, where the sync bus counts no end and the async bus no    *)
(* failure; or it came after a failure in a batch of the sync bus, whose   *)
(* Stats claim it was processed (sync/bus.go 395-416, 447-453).            *)
CountersAgree ==
  (IF kind = "async" THEN entered ELSE Total("emitted"))
    = Total("processed") + Total("panics") + uncounted
      + Cardinality(offered \cup queued \cup running \cup dropped)
      + SumOver(Emitters, [g \in Emitters |-> InCall(g)])

(* Stats gives for each counter a value it had while Stats ran, or passed  *)
(* through, although the slots are read at different times. As emitted is  *)
(* read before processed, Processed may come out greater; it is never      *)
(* greater than what was emitted when Stats returns (util.go 59-66,        *)
(* sync/bus.go 447-459).                                                   *)
StatsInWindow ==
  spc > 3 * Slots =>
    /\ \A k \in Counters : low[k] <= sum[k] /\ sum[k] <= Total(k)
    /\ kind = "pool" => sum["processed"] + sum["panics"] <= Total("emitted")

(* LastError is the newest error that was stored, or none after            *)
(* ClearError, unless errChan ran full: then older ones follow. And when   *)
(* the error handler has gone, every error of a handler on a worker was    *)
(* stored (sync/bus.go 112-120, 467-475, 516-538).                         *)
ErrorsAreKept ==
  /\ ~overflowed => lastErr = 0 \/ \A n \in stored : n <= lastErr
  /\ hpc = "gone" => byWorkers \subseteq stored

(* Drain returns whatever the handlers do, after Close or in time. Close   *)
(* returns once all handlers do: one that calls Close first, on a worker,  *)
(* waits for itself for ever (sync/bus.go 462-499, async/bus.go 295-320).  *)
CloseReturns ==
  \A d \in Closers :
    dpc[d] = "stop" ~> \/ dpc[d] = "returned"
                       \/ d \in Drainers /\ dpc[d] = "timedOut"
                       \/ d \notin Drainers /\ stuck # {}
=============================================================================
