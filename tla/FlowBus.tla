------------------------------ MODULE FlowBus ------------------------------
(***************************************************************************)
(* The flow bus (flow/bus.go): emitters push events into the ring of the   *)
(* shard of their type, or of another shard, or process them themselves;   *)
(* one consumer per shard takes batches, woken by a notification, by a     *)
(* ticker or by Close; Close and Drain wait for the consumers.             *)
(*                                                                         *)
(* A ring is a bounded sequence, as FlowRing implements it. A push claims  *)
(* its place and publishes the event in a second step; a popBatch, which   *)
(* stops at the first unpublished place, is one step. An event stands for  *)
(* one place in one call, and its handlers are one step: they return or,   *)
(* for a panicky event, panic; while they run they may emit events, which  *)
(* is the emitters of Within. Which handlers those are is                  *)
(* FlowSubscriptions. A pipeline stage that panics is a panicky first      *)
(* event; one that returns an error changes nothing here.                  *)
(***************************************************************************)
EXTENDS Integers, Sequences, FiniteSets, SequencesExt

CONSTANTS
  NumShards,
  Cap,        \* slots of a ring
  BatchSz,
  Emitters,
  Calls,      \* Calls[g]: the batches g emits, one call each; Emit's has one event
  Nil,        \* a nil event in a batch
  Events,
  ShardOf,    \* ShardOf[e]: getShard of the type of e
  Panicky,    \* the events whose handler panics
  Within,     \* emitter g is the handlers of the event Within[g]
  Closers     \* goroutines that call Drain, or Close

EmittedOnce ==
  \A g, h \in Emitters : \A k \in DOMAIN Calls[g], l \in DOMAIN Calls[h] :
    \A i \in DOMAIN Calls[g][k], j \in DOMAIN Calls[h][l] :
      Calls[g][k][i] = Calls[h][l][j] /\ Calls[g][k][i] # Nil => <<g, k, i>> = <<h, l, j>>

ASSUME FlowBusAssumption ==
  /\ NumShards \in Nat \ {0, 1} /\ Cap \in Nat \ {0} /\ BatchSz \in Nat \ {0}
  /\ ShardOf \in [Events -> 0 .. NumShards - 1]
  /\ Panicky \subseteq Events /\ Nil \notin Events
  /\ Calls \in [Emitters -> Seq(Seq(Events \cup {Nil}) \ {<< >>})]
  /\ EmittedOnce
  /\ DOMAIN Within \subseteq Emitters /\ Within \in [DOMAIN Within -> Events]
  /\ \A g \in DOMAIN Within, e \in Panicky : \A b \in ToSet(Calls[g]) : e \notin ToSet(b)

Shards == 0 .. NumShards - 1

VARIABLES
  queue,     \* queue[s]: the ring of shard s
  token,     \* token[s]: whether notifyChs[s] holds a signal
  cpc,       \* where the consumer of s is
  batch,     \* batch[s]: the events it took and did not handle yet
  taken,     \* taken[s]: how many it took
  closing,   \* closing[s]: whether it found done closed
  epc,       \* where emitter g is
  call,      \* call[g]: how many of its calls g has begun
  todo,      \* todo[g]: the events of the call that are not placed yet
  touched,   \* touched[g]: the shards to notify
  try,       \* try[g]: the next shard emitSlow tries
  slowMu,    \* whether slowMu is locked
  closed, done,
  dpc,       \* where closer d is
  emitted, processed, panics,
  accepted,  \* history: the events of the calls that did not find the bus closed
  handled,   \* history: the events handled, in order
  lost,      \* history: the events a panic took away
  slowed,    \* history: the events that left the way of their shard
  owed       \* owed[d]: history, the events gone by d's Drain, or seen by a consumer

consumerVars == <<cpc, batch, taken, closing>>
emitterVars == <<epc, call, todo, touched, try>>
closerVars == <<closed, done, dpc, owed>>
stats == <<emitted, processed, panics>>
vars == <<queue, token, consumerVars, emitterVars, slowMu, closerVars, stats,
          accepted, handled, lost, slowed>>

Init ==
  /\ queue = [s \in Shards |-> << >>]
  /\ token = [s \in Shards |-> FALSE]
  /\ cpc = [s \in Shards |-> "poll"]
  /\ batch = [s \in Shards |-> << >>]
  /\ taken = [s \in Shards |-> 0]
  /\ closing = [s \in Shards |-> FALSE]
  /\ epc = [g \in Emitters |-> "idle"]
  /\ call = [g \in Emitters |-> 0]
  /\ todo = [g \in Emitters |-> << >>]
  /\ touched = [g \in Emitters |-> {}]
  /\ try = [g \in Emitters |-> 0]
  /\ slowMu = FALSE
  /\ closed = FALSE /\ done = FALSE
  /\ dpc = [d \in Closers |-> "idle"]
  /\ emitted = 0 /\ processed = 0 /\ panics = 0
  /\ accepted = {} /\ handled = << >> /\ lost = {} /\ slowed = {}
  /\ owed = [d \in Closers |-> {}]
-----------------------------------------------------------------------------
(* Emitters: Emit, and EmitBatch with its loop. A place is unpublished     *)
(* while the emitter that claimed it is at "publish".                      *)
CanPush(s) == Len(queue[s]) < Cap
Push(s, e) == queue' = [queue EXCEPT ![s] = Append(@, e)]
Unpublished == {Head(todo[g]) : g \in {h \in Emitters : epc[h] = "publish"}}

(* What popBatch finds: the events before the first unpublished place.     *)
Ready(s) ==
  LET gaps == {i \in DOMAIN queue[s] : queue[s][i] \in Unpublished}
  IN IF gaps = {} THEN queue[s] ELSE SubSeq(queue[s], 1, Min(gaps) - 1)

(* The event whose handlers run, in a consumer or in an emitter; and the   *)
(* calls they make: they return when all of those have.                    *)
Handling(e) ==
  \/ \E s \in Shards : cpc[s] = "handle" /\ batch[s] # << >> /\ Head(batch[s]) = e
  \/ \E g \in Emitters : epc[g] = "single" /\ Head(todo[g]) = e
Inside(e) == {g \in DOMAIN Within : Within[g] = e}
HandlersReturn(e) == \A g \in Inside(e) : epc[g] = "idle" /\ call[g] = Len(Calls[g])
HandlersPanic(e) == \A g \in Inside(e) : epc[g] = "idle"

EmitStart(g) ==
  /\ epc[g] = "idle" /\ call[g] < Len(Calls[g])
  /\ g \in DOMAIN Within => Handling(Within[g])
  /\ call' = [call EXCEPT ![g] = @ + 1]
  /\ \/ /\ closed
        /\ UNCHANGED <<epc, todo, emitted, accepted>>
     \/ /\ ~closed
        /\ emitted' = emitted + Len(Calls[g][call'[g]])
        /\ accepted' = accepted \cup (ToSet(Calls[g][call'[g]]) \ {Nil})
        /\ todo' = [todo EXCEPT ![g] = Calls[g][call'[g]]]
        /\ epc' = [epc EXCEPT ![g] = "push"]
  /\ UNCHANGED <<queue, token, consumerVars, touched, try, slowMu, closerVars,
                 processed, panics, handled, lost, slowed>>

(* The loop goes on, or the shards are notified.                           *)
Advance(g) ==
  /\ todo' = [todo EXCEPT ![g] = Tail(@)]
  /\ epc' = [epc EXCEPT ![g] = IF Tail(todo[g]) = << >> THEN "notify" ELSE "push"]

(* A nil event of a batch is passed over.                                  *)
EmitSkip(g) ==
  /\ epc[g] = "push" /\ Head(todo[g]) = Nil
  /\ Advance(g)
  /\ UNCHANGED <<queue, token, consumerVars, call, touched, try, slowMu, closerVars, stats,
                 accepted, handled, lost, slowed>>

(* The event is in a ring, or handled.                                     *)
Placed(g) ==
  /\ Advance(g)
  /\ touched' = [touched EXCEPT ![g] = @ \cup {ShardOf[Head(todo[g])]}]

(* Mutant: the first ring with room is taken.                              *)
EmitPushAnywhere(g) ==
  /\ epc[g] = "push" /\ Head(todo[g]) # Nil
  /\ \/ \E s \in Shards :
          /\ CanPush(s) /\ \A t \in 0 .. s - 1 : ~CanPush(t)
          /\ Push(s, Head(todo[g]))
          /\ epc' = [epc EXCEPT ![g] = "publish"]
          /\ UNCHANGED <<todo, touched, try>>
     \/ /\ \A s \in Shards : ~CanPush(s)
        /\ epc' = [epc EXCEPT ![g] = "slow"]
        /\ try' = [try EXCEPT ![g] = 0]
        /\ UNCHANGED <<queue, todo, touched>>
  /\ UNCHANGED <<token, consumerVars, call, slowMu, closerVars, stats, accepted,
                 handled, lost, slowed>>

EmitPush(g) ==
  /\ epc[g] = "push" /\ Head(todo[g]) # Nil
  /\ LET e == Head(todo[g])
         s == ShardOf[e]
     IN \/ /\ CanPush(s)
           /\ Push(s, e)
           /\ epc' = [epc EXCEPT ![g] = "publish"]
           /\ UNCHANGED <<todo, touched, try>>
        \/ /\ ~CanPush(s)
           /\ epc' = [epc EXCEPT ![g] = "slow"]
           /\ try' = [try EXCEPT ![g] = 0]
           /\ UNCHANGED <<queue, todo, touched>>
  /\ UNCHANGED <<token, consumerVars, call, slowMu, closerVars, stats, accepted,
                 handled, lost, slowed>>

(* Mutant: the event goes to every other ring that has room.               *)
SlowTryGoesOn(g) ==
  /\ epc[g] = "slow" /\ try[g] < NumShards
  /\ LET e == Head(todo[g])
         s == try[g]
     IN /\ IF s # ShardOf[e] /\ CanPush(s) THEN Push(s, e) ELSE UNCHANGED queue
        /\ slowed' = slowed \cup {e}
        /\ try' = [try EXCEPT ![g] = @ + 1]
  /\ UNCHANGED <<token, consumerVars, epc, call, todo, touched, slowMu,
                 closerVars, stats, accepted, handled, lost>>

(* emitSlow: the other rings are tried in turn.                            *)
SlowTry(g) ==
  /\ epc[g] = "slow" /\ try[g] < NumShards
  /\ LET e == Head(todo[g])
         s == try[g]
     IN \/ /\ s # ShardOf[e] /\ CanPush(s)
           /\ Push(s, e)
           /\ slowed' = slowed \cup {e}
           /\ epc' = [epc EXCEPT ![g] = "publish"]
           /\ UNCHANGED <<todo, touched, try>>
        \/ /\ s = ShardOf[e] \/ ~CanPush(s)
           /\ try' = [try EXCEPT ![g] = @ + 1]
           /\ UNCHANGED <<queue, slowed, epc, todo, touched>>
  /\ UNCHANGED <<token, consumerVars, call, slowMu, closerVars, stats, accepted,
                 handled, lost>>

(* The push stores the event and its sequence number.                      *)
Publish(g) ==
  /\ epc[g] = "publish"
  /\ Placed(g)
  /\ UNCHANGED <<queue, token, consumerVars, call, try, slowMu, closerVars, stats,
                 accepted, handled, lost, slowed>>

(* processSingle: the handler runs in the emitter, with slowMu locked.     *)
SingleLock(g) ==
  /\ epc[g] = "slow" /\ try[g] = NumShards /\ ~slowMu
  /\ slowMu' = TRUE
  /\ epc' = [epc EXCEPT ![g] = "single"]
  /\ UNCHANGED <<queue, token, consumerVars, call, todo, touched, try, closerVars,
                 stats, accepted, handled, lost, slowed>>

SingleHandle(g) ==
  /\ epc[g] = "single" /\ Head(todo[g]) \notin Panicky
  /\ HandlersReturn(Head(todo[g]))
  /\ handled' = Append(handled, Head(todo[g]))
  /\ slowed' = slowed \cup {Head(todo[g])}
  /\ slowMu' = FALSE
  /\ processed' = processed + 1
  /\ Placed(g)
  /\ UNCHANGED <<queue, token, consumerVars, call, try, closerVars, emitted,
                 panics, accepted, lost>>

(* Nothing recovers the panic here and nothing unlocks slowMu: it goes     *)
(* through Emit to the caller, and the rest of the batch is not emitted.   *)
SinglePanics(g) ==
  /\ epc[g] = "single" /\ Head(todo[g]) \in Panicky
  /\ HandlersPanic(Head(todo[g]))
  /\ lost' = lost \cup (ToSet(todo[g]) \ {Nil})
  /\ todo' = [todo EXCEPT ![g] = << >>]
  /\ touched' = [touched EXCEPT ![g] = {}]
  /\ epc' = [epc EXCEPT ![g] = "idle"]
  /\ UNCHANGED <<queue, token, consumerVars, call, try, slowMu, closerVars, stats,
                 accepted, handled, slowed>>

Notify(g) ==
  /\ epc[g] = "notify"
  /\ token' = [s \in Shards |-> token[s] \/ s \in touched[g]]
  /\ touched' = [touched EXCEPT ![g] = {}]
  /\ epc' = [epc EXCEPT ![g] = "idle"]
  /\ UNCHANGED <<queue, consumerVars, call, todo, try, slowMu, closerVars, stats,
                 accepted, handled, lost, slowed>>
-----------------------------------------------------------------------------
(* Consumers. The pop after a wakeup and the pop at the top of the loop do *)
(* the same.                                                               *)
Pop(s) ==
  /\ cpc[s] = "poll" /\ Ready(s) # << >>
  /\ LET n == Min({Len(Ready(s)), BatchSz}) IN
       /\ batch' = [batch EXCEPT ![s] = SubSeq(queue[s], 1, n)]
       /\ queue' = [queue EXCEPT ![s] = SubSeq(@, n + 1, Len(@))]
       /\ taken' = [taken EXCEPT ![s] = n]
  /\ cpc' = [cpc EXCEPT ![s] = "handle"]
  /\ UNCHANGED <<token, closing, emitterVars, slowMu, closerVars, stats, accepted,
                 handled, lost, slowed>>

(* Mutant: the consumer waits again when it has drained its ring.          *)
PopNothingWaits(s) ==
  /\ cpc[s] = "poll" /\ Ready(s) = << >>
  /\ cpc' = [cpc EXCEPT ![s] = "wait"]
  /\ UNCHANGED <<queue, token, batch, taken, closing, emitterVars, slowMu,
                 closerVars, stats, accepted, handled, lost, slowed>>

PopNothing(s) ==
  /\ cpc[s] = "poll" /\ Ready(s) = << >>
  /\ cpc' = [cpc EXCEPT ![s] = IF closing[s] THEN "exited" ELSE "wait"]
  /\ UNCHANGED <<queue, token, batch, taken, closing, emitterVars, slowMu,
                 closerVars, stats, accepted, handled, lost, slowed>>

(* Mutant: the consumer does not look into its ring when the ticker ticks. *)
WakeByNotificationOnly(s) ==
  /\ cpc[s] = "wait"
  /\ \/ UNCHANGED <<token, cpc>>
     \/ /\ token[s] /\ token' = [token EXCEPT ![s] = FALSE]
        /\ cpc' = [cpc EXCEPT ![s] = "poll"]
  /\ UNCHANGED <<queue, batch, taken, closing, emitterVars, slowMu, closerVars,
                 stats, accepted, handled, lost, slowed>>

Wake(s) ==
  /\ cpc[s] = "wait"
  /\ \/ UNCHANGED token
     \/ token[s] /\ token' = [token EXCEPT ![s] = FALSE]
  /\ cpc' = [cpc EXCEPT ![s] = "poll"]
  /\ UNCHANGED <<queue, batch, taken, closing, emitterVars, slowMu, closerVars,
                 stats, accepted, handled, lost, slowed>>

(* Mutant: the consumer leaves what is in its ring.                        *)
SeeDoneLeaves(s) ==
  /\ cpc[s] = "wait" /\ done
  /\ cpc' = [cpc EXCEPT ![s] = "exited"]
  /\ UNCHANGED <<queue, token, batch, taken, closing, emitterVars, slowMu,
                 closerVars, stats, accepted, handled, lost, slowed>>

SeeDone(s) ==
  /\ cpc[s] = "wait" /\ done
  /\ closing' = [closing EXCEPT ![s] = TRUE]
  /\ cpc' = [cpc EXCEPT ![s] = "poll"]
  /\ UNCHANGED <<queue, token, batch, taken, emitterVars, slowMu, closerVars,
                 stats, accepted, handled, lost, slowed>>

Handle(s) ==
  /\ cpc[s] = "handle" /\ batch[s] # << >> /\ Head(batch[s]) \notin Panicky
  /\ HandlersReturn(Head(batch[s]))
  /\ handled' = Append(handled, Head(batch[s]))
  /\ batch' = [batch EXCEPT ![s] = Tail(@)]
  /\ UNCHANGED <<queue, token, cpc, taken, closing, emitterVars, slowMu,
                 closerVars, stats, accepted, lost, slowed>>

(* safeProcessBatch recovers the panic, processBatch does not go on.       *)
HandlerPanics(s) ==
  /\ cpc[s] = "handle" /\ batch[s] # << >> /\ Head(batch[s]) \in Panicky
  /\ HandlersPanic(Head(batch[s]))
  /\ panics' = panics + 1
  /\ lost' = lost \cup ToSet(batch[s])
  /\ batch' = [batch EXCEPT ![s] = << >>]
  /\ taken' = [taken EXCEPT ![s] = 0]
  /\ cpc' = [cpc EXCEPT ![s] = "poll"]
  /\ UNCHANGED <<queue, token, closing, emitterVars, slowMu, closerVars, emitted,
                 processed, accepted, handled, slowed>>

BatchDone(s) ==
  /\ cpc[s] = "handle" /\ batch[s] = << >>
  /\ processed' = processed + taken[s]
  /\ taken' = [taken EXCEPT ![s] = 0]
  /\ cpc' = [cpc EXCEPT ![s] = "poll"]
  /\ UNCHANGED <<queue, token, batch, closing, emitterVars, slowMu, closerVars,
                 emitted, panics, accepted, handled, lost, slowed>>
-----------------------------------------------------------------------------
(* Close, and Drain, which runs Close in a goroutine of its own and        *)
(* answers nil when that returns. A Drain that gives up after its timeout  *)
(* changes nothing: Close goes on. One that finds the bus closed answers   *)
(* at once, whatever is left: nothing is owed to it.                       *)
Drain(d) ==
  /\ dpc[d] = "idle"
  /\ owed' = [owed EXCEPT ![d] =
       IF closed THEN {}
       ELSE ToSet(handled) \cup lost \cup UNION {ToSet(batch[s] \o Ready(s)) : s \in Shards}]
  /\ dpc' = [dpc EXCEPT ![d] = IF closed THEN "returned" ELSE "close"]
  /\ closed' = TRUE
  /\ UNCHANGED <<queue, token, consumerVars, emitterVars, slowMu, done,
                 stats, accepted, handled, lost, slowed>>

CloseDone(d) ==
  /\ dpc[d] = "close"
  /\ done' = TRUE
  /\ dpc' = [dpc EXCEPT ![d] = "wait"]
  /\ UNCHANGED <<queue, token, consumerVars, emitterVars, slowMu, closed,
                 owed, stats, accepted, handled, lost, slowed>>

CloseWait(d) ==
  /\ dpc[d] = "wait" /\ \A s \in Shards : cpc[s] = "exited"
  /\ dpc' = [dpc EXCEPT ![d] = "returned"]
  /\ UNCHANGED <<queue, token, consumerVars, emitterVars, slowMu, closed, done,
                 owed, stats, accepted, handled, lost, slowed>>
-----------------------------------------------------------------------------
Emitter(g) ==
  \/ EmitSkip(g)
  \/ EmitPush(g)
  \/ SlowTry(g)
  \/ Publish(g)
  \/ SingleLock(g)
  \/ SingleHandle(g)
  \/ SinglePanics(g)
  \/ Notify(g)

Consumer(s) ==
  \/ Pop(s)
  \/ PopNothing(s)
  \/ Wake(s)
  \/ SeeDone(s)
  \/ Handle(s)
  \/ HandlerPanics(s)
  \/ BatchDone(s)

Closer(d) == CloseDone(d) \/ CloseWait(d)

Next ==
  \/ \E g \in Emitters : EmitStart(g) \/ Emitter(g)
  \/ \E s \in Shards : Consumer(s)
  \/ \E d \in Closers : Drain(d) \/ Closer(d)

Spec == Init /\ [][Next]_vars

(* A goroutine that can run does; the ticker goes on ticking; a select     *)
(* that finds done closed over and over takes that branch some time, for   *)
(* it chooses at random; a handler goes on to its next call.               *)
FairSpec ==
  /\ Spec
  /\ \A g \in Emitters : WF_vars(Emitter(g))
  /\ \A g \in DOMAIN Within : WF_vars(EmitStart(g))
  /\ \A s \in Shards : WF_vars(Consumer(s)) /\ SF_vars(SeeDone(s))
  /\ \A d \in Closers : WF_vars(Closer(d))
-----------------------------------------------------------------------------
TypeOK ==
  /\ \A s \in Shards :
       /\ Len(queue[s]) <= Cap /\ Len(batch[s]) <= taken[s] /\ taken[s] <= BatchSz
       /\ cpc[s] \in {"poll", "wait", "handle", "exited"}
       /\ token[s] \in BOOLEAN /\ closing[s] \in BOOLEAN
  /\ \A g \in Emitters :
       /\ epc[g] \in {"idle", "push", "publish", "slow", "single", "notify"}
       /\ epc[g] \in {"push", "publish", "slow", "single"} <=> todo[g] # << >>
       /\ touched[g] \subseteq Shards /\ try[g] \in 0 .. NumShards
  /\ \A d \in Closers : dpc[d] \in {"idle", "close", "wait", "returned"}
  /\ processed <= emitted

(* Each event that an emitter has begun with is in exactly one place: none *)
(* is handled twice and none disappears, whichever ring or emitter takes   *)
(* it (flow/bus.go 496-539).                                               *)
Count(seq, e) == Cardinality({i \in DOMAIN seq : seq[i] = e})
Places(e) ==
  LET queues == {s \in Shards : e \in ToSet(queue[s] \o batch[s])}
      hands == {g \in Emitters : e \in ToSet(todo[g]) \ Unpublished}
  IN Cardinality(queues) + Cardinality(hands) + Count(handled, e)
       + (IF e \in lost THEN 1 ELSE 0)
EventsAccountedFor == \A e \in Events : Places(e) = IF e \in accepted THEN 1 ELSE 0

(* The events of one emitter and one shard are handled in the order they   *)
(* were emitted, those apart that found the ring of the shard full.        *)
Place(e) == CHOOSE k \in DOMAIN handled : handled[k] = e
EmittedBefore(g, e, f) ==
  \E k, l \in DOMAIN Calls[g] : \E i \in DOMAIN Calls[g][k], j \in DOMAIN Calls[g][l] :
    /\ Calls[g][k][i] = e /\ Calls[g][l][j] = f
    /\ k < l \/ (k = l /\ i < j)
HandledInOrder ==
  \A g \in Emitters, e, f \in ToSet(handled) \ slowed :
    EmittedBefore(g, e, f) /\ ShardOf[e] = ShardOf[f] => Place(e) < Place(f)

(* A Drain that answers nil has waited for the events emitted before it    *)
(* ("等待队列排空或超时", flow/bus.go 614), but for those that a push under  *)
(* way keeps from the consumers' sight: popBatch stops at a slot claimed   *)
(* and not published, and the consumer takes that for an empty ring. And   *)
(* it is the Drain that closes the bus: a later one does not wait.         *)
DrainWaitsForReady ==
  \A d \in Closers : dpc[d] = "returned" => owed[d] \subseteq ToSet(handled) \cup lost

(* Two ways to wait for slowMu for good: a panic in processSingle left it  *)
(* locked, or the handlers that wait for it run with it locked.            *)
Stuck(g) ==
  /\ epc[g] = "slow" /\ try[g] = NumShards /\ slowMu
  /\ \/ \A h \in Emitters : epc[h] # "single"
     \/ \E h \in Emitters : epc[h] = "single" /\ g \in Inside(Head(todo[h]))

(* While the bus is open, the events emitted are all handled, or lost to a *)
(* panic, some time, also those that went to a ring whose consumer was not *)
(* notified (flow/bus.go 511, 532), unless an Emit is stuck: its event and *)
(* those behind the handler it is called in wait with it.                  *)
UnderWay == accepted \ (ToSet(handled) \cup lost)
EventsAreHandled ==
  UnderWay # {} ~> UnderWay = {} \/ closed \/ \E g \in Emitters : Stuck(g)

(* Emit returns whatever consumers and closers do, also when every ring is *)
(* full and nobody empties them any more, unless somebody is stuck with    *)
(* processSingle's lock; Close returns whatever emitters do, and handlers  *)
(* that emit or panic, unless a handler's own Emit is stuck (flow/bus.go   *)
(* 361-397, 605-612). A handler that itself calls Close would wait for the *)
(* consumer it runs on; handlers here do not.                              *)
CallsReturn ==
  /\ \A g \in Emitters :
       epc[g] # "idle" ~> epc[g] = "idle" \/ \E h \in Emitters : Stuck(h)
  /\ \A d \in Closers :
       dpc[d] # "idle" ~> dpc[d] = "returned" \/ \E g \in DOMAIN Within : Stuck(g)
=============================================================================
