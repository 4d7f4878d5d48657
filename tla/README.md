# A TLA+ verification project for yakevent

yakevent is an in-process event bus for Go with three implementations behind one
interface (`core.Bus`): **sync** (handlers run in the caller, with an
asynchronous mode), **async** (events go through per-P SPSC rings to a fixed set
of workers) and **flow** (events go through sharded MPSC rings to one consumer
per shard, which takes batches). This directory models what their correctness
depends on, checks it with TLC on small instances and proves what matters most of
the rings, the scheduler, the matcher, subscriptions and delivery, the accounts and errors
of a bus, the flow bus, the middleware and the arena with TLAPS.

Run things in this directory: `tlc -config <run>.cfg <MC module>` (`PROJECT.json`
says which), and `tlapm` on the `*_proofs` modules.

## 1. Inventory

| Component | State | Operations | Talks to |
|---|---|---|---|
| SPSC ring, `internal/support/spsc` | slots, head, tail, each side's cached copy of the other cursor | Enqueue, Dequeue | called by the scheduler; plain memory between a producer and a consumer |
| Sharded scheduler, `internal/support/sched` | rings, `parked`, `sem`, `backpressureCh`, `stop`/`done` | Submit, submitSlow, workerLoop, Stop | rings; handlers (callbacks), which may submit |
| Pattern matcher, `core/matcher.go` | trie with reference counts, exact set, versioned cache | Add, Remove, Match, HasMatch | called by all buses, from On/Off and from emitters or consumers |
| Subscriptions and delivery of sync and async | copy-on-write snapshot, mutex, ids | On, Off, Emit, EmitMatch (and Unsafe forms) | matcher, handlers |
| Lifecycle and errors of sync and async | closed, counters, errChan, lastErr | Emit and the batches, Close, Drain, Stats, LastError, ClearError | scheduler, errorHandler goroutine |
| Flow ring, `RB` in `impl/flow` | slots with sequence numbers, head, tail | push, popBatch | many emitters, one consumer |
| Flow subscriptions | snapshot swapped by compare-and-swap | On, Off, the dispatch of processBatch and processSingle | matcher, handlers, stages |
| Flow bus | rings, notify channels, consumers, slowMu, counters | Emit, EmitBatch, emitSlow, processSingle, consumer, Close, Drain | ring, subscriptions; handlers, which may emit |
| Worker pool, `wpool` | channels, done, closed | Submit, worker, Stop | the timeout middleware |
| Event and arena pools, `support/pool` | current chunk, its offset, pools, the arena flag | Acquire, Release, AllocData | package API |
| Middleware (recoverer, retry, timeout, logging) | a goroutine, a channel and a timer per call | wraps a handler | handlers, worker pool |
| Counters, `util` | one cell per P | Add, Read | Stats |
| Advisor, profiles, factory, package API | the arena flag | Advise, Build, New, Scenario, Option | constructors of the buses |

The hard behaviours are: memory that goroutines touch with no lock (both rings,
the matcher's cache, the arena's chunks); sleeping and waking (lost, misdirected
and missing wake-ups); full rings, with emitters that block or process events
themselves; panics in the middle of a batch; answers that come after their
timeout; copy-on-write snapshots that are read apart from the matcher; counters
and errors that several goroutines write; and shutdown while all of that goes
on. `PROJECT.json` lists every such hazard at its line, with the properties that
watch it or the reason why none does.

## 2. Modules

| Module | Models | Composition |
|---|---|---|
| `BoundedFifo` | what a ring promises: a bounded queue | abstract specification |
| `SPSCRing` | `spsc.go`, one memory access per step | refines `BoundedFifo` |
| `FlowRing` | `RB` of `flow/bus.go`, one atomic access per step | refines `BoundedFifo` |
| `Dispatcher` | what the scheduler promises to a bus, and the worker pool to timeout | abstract specification |
| `ShardedScheduler` | `sched.go` | uses a ring as `SPSCRing` shows it to be; refines `Dispatcher` until a ring is torn |
| `TrieMatcher` | `matcher.go` | |
| `Delivery` | what `Subscriptions` and `FlowSubscriptions` share: patterns, subscriptions, and the matcher as its users see it | abstracts `TrieMatcher` |
| `Subscriptions` | On/Off/Emit/EmitMatch of `sync/bus.go` and `async/bus.go` | extends `Delivery` |
| `BusLifecycle` | counting, errors, Stats, Close and Drain of `sync/bus.go` and `async/bus.go`, and the counters of `util.go` | an instance of `Dispatcher` inside |
| `FlowSubscriptions` | On/Off/dispatch of `flow/bus.go` | extends `Delivery` |
| `FlowBus` | emitters, consumers, handlers that emit, Close and Drain of `flow/bus.go` | uses rings as `FlowRing` implements them |
| `Factory` | `optimize/*`, the constructors' defaults, `api.go`'s choices | operators only |
| `EventPool` | the arena of `pool.go` and the flag that builds set | extends `Factory` |
| `Middleware` | `retry`, `timeout` and `recoverer` chained, over `wpool.go` | its pool refines `Dispatcher` |
| `*_proofs` | theorems about the modules they extend | |

Each `MC*` module gives its module's constants values for TLC.

### How state and actions correspond to the code

**SPSCRing.** `head`, `tail`, `cachedHead`, `cachedTail` and `buf` are the
fields; the cursors wrap at `Wrap`, which stands for 2^64 and is a multiple of
the size. Enqueue is EnqueueLoadTail, EnqueueLoadHead, EnqueueWrite,
EnqueuePublish; Dequeue is DequeueStart, DequeueLoadTail, DequeueTake,
DequeueClear, DequeueRelease. A goroutine in `Unpinned` may enter Enqueue while
another is inside, as submitSlow's scan does; the others enter one at a time, which is
what pinning the P gives. Atomic loads and stores are sequentially consistent,
as Go's are. The history `met` tells that two calls of Enqueue have overlapped. Up to
then everything is claimed, for unpinned callers too; afterwards nothing but the types,
and `PublishesItsOwn` is false.

**ShardedScheduler.** `spc[p]` is where a caller is in Submit/submitSlow, and
`wpc[w]` where a worker is in workerLoop; handlers run on workers and may
submit, so a worker has both. `sem` with `sleepers` and `bp` with `roomQueue`
are Go channels with their queue of blocked receivers: a send hands over to the
first receiver, else is buffered, else dropped. `phase` is how far Stop is.
`Batch` stands for 32 and `IdleLimit` for 4096+256 rounds. A pinned Enqueue is one step.
One of submitSlow's scan is two, `ScanEnter` and `ScanRing`, and an Enqueue of somebody
else into the same ring between the two (`Meets`) puts the ring into `torn`: from then on
an Enqueue there may accept or refuse, and a Dequeue may give any event, again or never,
the zero value, or nothing, which covers whatever the overlap of the two leaves behind
(slots overwritten or swapped, tail set back). As a `Dispatcher`, the
events in callers' hands are offered, those in rings queued, those in workers'
hands running, those a released Submit gives up dropped.

**FlowRing.** Every atomic access of push and popBatch is a step. The abstract
queue is the *claimed* indices: a push takes effect at its compare-and-swap. A
popBatch that stops at a claimed and unpublished slot is a stutter; this is where
the ring is weaker than a queue, and `FlowBus` keeps that weakness (`Ready`).

**TrieMatcher.** A node is the path that leads to it; `nodes`, `ref` and `isEnd`
are the trie. Add and Remove are split where a reader without the lock can look
in between (trie, exact set, version); Match into its exact look, its version
load, its cache look, its walk under the read lock and its store. Walk, HasWalk,
Released and Pruned are the recursive and iterative algorithms as operators on
paths. Segments are model values, `*` and `**` two of them.

**Delivery.** The matcher is `ref` and `exact`, its reference counts and exact
patterns, in the steps of `TrieMatcher` that a caller can tell apart. Match looks at the
exact patterns with no lock, where a hit stands alone, and later gives what the
references are at one moment (`Merged`): that of the walk, which waits for the trie's
lock, or for an answer of the cache some moment since the exact look, which is what
`Sound` and its lemma `HitIsRight` prove of `TrieMatcher`. Add and Remove change the
trie, the exact patterns and the version under that lock, so that the new exact entry
is seen before the new reference: two steps each. A pattern in `TooDeep` has more than
16 segments: Add turns it away without a word, so there is neither an entry nor a
reference of it, and the bus's On goes on as if there were.

**Subscriptions.** `subs` is the snapshot's `byID`, from which the flattened
handlers and `singleKey` are computed. On stores the snapshot and then adds to the
matcher (`OnStore`, `OnExact`, `OnAdd`), Off removes and then stores (`OffRemove`,
`OffCount`, `OffStore`), both under `mu`; EmitMatch loads the snapshot and then asks the
matcher (`EmitMatchLoad`, `EmitMatchExact`, `EmitMatchMerge`). The last Off of a pattern
calls Remove once for each subscription left: the first call deletes the exact
entry, and only the last can take the last reference, so `OffCount` stands for the end
of all of them. Emit and the async dispatch read the snapshot once. `sure`, `gone`,
`throughout` and `sometime` are history: which subscriptions were certainly or
possibly there during a call.

**BusLifecycle.** A *plan* is a bus of one kind and what its emitters, closers and
observers call. An emitter goes through the events of a call: counted first, then
submitted (`Submit`, `Sent`) or run in place (`Inline`). Emit and EmitMatch ignore a nil;
a batch does not, also when a nil is all it has (`batch`), except on the async bus. A worker's event goes
through WorkerTakes, the look at `closed`, and WorkerEnds, with what that counts and
reports. `hpc` is errorHandler, `dpc[d]` a closer, which is Close or a Drain with
its timer; `spc` is Stats, which reads slot by slot. Where the events are in the
scheduler is the state of `Dispatcher`, whose steps the actions take.

**FlowSubscriptions.** On and Off are compare-and-swap loops (`gen` identifies the
snapshot pointer), with the matcher's Add before the loop (`FlowOnAdd`, `OnCount`) and
its Remove inside it (`FlowOffRemove`, `FlowOffCount`); an Off begins with the first
load of its loop (`Look`), for the call changes nothing before it. No mutex of the bus
keeps these apart, only the trie's (`TrieIsFree`). A consumer's dispatch loads the
snapshot and then, if there is a wildcard, asks the matcher (`DispatchExact`,
`DispatchMerge`). Its operators that have a counterpart in `Subscriptions` are named
`Flow...`, so that one module of proofs can extend both, as those of `BusLifecycle` that
have one in `EventPool` are named `Life...`.

**FlowBus.** An emitter walks through push, publish, slow, single and notify; a
consumer through poll, handle and wait; `Drain` is Close too, for Drain runs Close
in a goroutine of its own, and its timeout changes nothing of the bus's state. A
push claims its place (`EmitPush`, `SlowTry`) and publishes it later (`Publish`); a
consumer sees the events before the first unpublished place. An emitter `g` with a
`Within[g]` is the handlers of that event: it starts only while they run
(`Handling`), in a consumer or in an emitter that processes the event itself, and
they return only when its calls have (`HandlersReturn`). An event stands for one place
in one call (`EmittedOnce`), so that where it is and what became of it can be said of the
event; a nil in a batch is passed over (`EmitSkip`). `handled`, `lost`, `slowed`,
`accepted` and `owed` are history; a Drain that finds the bus closed is owed nothing.

**Factory and EventPool.** A profile is a record; `Advise`, `Build` and `Option`
compute from it the bus with its workers, rings, shards, batch and ticker, through the
constructors' defaults. In `EventPool` the bus that was built last is `bus`, and its
arena field is the one flag of the process. AllocData is AllocData (flag and current
chunk read), Alloc, Lock, AllocAgain, TakeChunk, Publish, AllocFirst, PutChunk;
`slices` is history, the slices cut since their chunk was taken into use.

**Middleware.** The handler of one attempt is the task `<<call, attempt>>`, with its
outcome in `run` and the content of its channel of one place in `answer`. The caller
goes through start, (send,) wait and decide; TimerFires may come at any time. `shards`,
`closed`, `done` and `shut` are the worker pool, `spc` its Stop. `crashed` is a panic
that nobody recovered. As a `Dispatcher`, the tasks in the shards are queued, those on
the workers running, and all others free; none is offered or dropped, for Submit does
not wait for room. A worker that has a task which hangs is running it for good.

## 3. Runs

| Run | Instance | Shows |
|---|---|---|
| `spsc` | size 2, cursors modulo 4, two producers of which one does not pin its P, two values; up to the first overlap of two Enqueues | slots are never raced for (`NoSlotRace`) and are cleared when free (`FreeSlotsAreZero`), the ring implements `BoundedFifo` (`RefinesFifo`), and the oldest item is returned (`OldestIsReturned`) |
| `spsc_scan` | the same, and on from there; a violation is expected | two writers of one ring: a producer publishes a slot that the other has overwritten (`PublishesItsOwn`) |
| `sched` | 1 producer, 1 worker that owns 2 rings of 1, 3 events, one whose handler may submit and panic, the unpinned scan, Stop at any time | `parked` is exact (`ParkedIsExact`); until a ring is torn the scheduler implements `Dispatcher` (`RefinesDispatcher`); with Submits that never end no ring starves (`DeliveredUnderTraffic`); a caller stays blocked for room only when everything is at rest (`BlockedOnlyInJam`); Stop returns and everyone is let go, torn rings or not (`StopLetsEveryoneGo`) |
| `flow_ring` | capacity 2, batch 2, two producers, at most 4 claims | a slot has one owner (`SlotsExclusive`), sequence numbers tell claimed, published and free (`SequenceBarrier`), the ring implements `BoundedFifo` (`RefinesFifo`), the oldest item is taken (`OldestIsTaken`) |
| `trie` | five patterns (exact, `*`, `**`, an inner node, one too deep), two event types, four changes, one reader | both walks find exactly what covers an event type (`LookupsAgree`), no dead branch (`TrieIsTidy`), no stale answer from the cache (`CacheIsCoherent`), no pattern missed that was there throughout (`MatchIsSound`) |
| `subs_race` | two clients, three subscriptions, an exact pattern, a wildcard over it, one that is too deep, and the empty event type; Match, Add and Remove in two steps each | delivery is sound (`DeliveryIsSound`) and as complete as the code makes it (`EmitIsComplete`, `EmitMatchIsComplete`) |
| `flow_subs` | two changers, a consumer, three subscriptions, two event types, a pattern that is too deep; Match, Add and Remove in two steps each | no lost update (`NoLostUpdate`), no handler twice or after its Off (`DispatchIsSound`), and dispatch is complete but for the exceptions below (`DispatchIsComplete`) |
| `flow_bus_race` | two emitters, one with a batch and a nil in it, a handler that emits, two shards of 2, a panicking event, one Drain | events are accounted for (`EventsAccountedFor`), the order of a shard's ring is kept (`HandledInOrder`), Drain waits for what was ready (`DrainWaitsForReady`) |
| `flow_bus_live` | an emitter whose batch fills both shards of 1 and panics on the slow path, a handler that emits, one Close | everything emitted while the bus is open is handled though emitSlow notifies the wrong shard (`EventsAreHandled`); Emit and Close return (`CallsReturn`) |
| `event_pool` | two clients, two chunks of 8 bytes aligned to 2, each taken into use twice; machines of 1, 3 and 4 CPUs, the package's profiles and five at the edges | slices do not overlap (`SlicesDisjoint`), a chunk is put aside once and when used up (`RetiredChunksAreUsed`), nil is answered only in the window after a switch (`NilOnlyWhenOvertaken`), every profile gives a bus that can run (`BuildsAreRunnable`) |
| `middleware` | two calls, one retry, a pool of one worker and a queue of one, five chains | late answers are not mistaken (`AnswerIsOwn`), panics stay in where they should (`PanicStaysIn`), the pool implements `Dispatcher`, by which nothing runs after Stop (`PoolIsDispatcher`), calls and Stop return (`CallsReturn`) |
| `bus_life` | nine plans over the three kinds of bus, two emitters, two closers, an errChan of one, two counter slots | the counters account for every event (`CountersAgree`), Stats reads values the counters passed through (`StatsInWindow`), workers' errors are kept and in order (`ErrorsAreKept`), Close and Drain return (`CloseReturns`) |

### What the code does otherwise than its comments say

The properties make room for these; each exception is a conjunct or a disjunct that
the comment above the property names, or a hypothesis of the run. Taking the
exception out makes TLC show the scenario.

Scheduler and its rings:

- submitSlow's scan enqueues without pinning (sched.go 121-125), although spsc.go 6-9
  says that the scheduler keeps each ring to one writer: `spsc_scan` shows two writers, of
  which one overwrites the slot that the other then publishes. This is the finding in
  `PROJECT.json`. Nothing is promised of such a ring (`met` in the properties of
  `SPSCRing`, `torn` in those of `ShardedScheduler`): events are lost, handled twice, or
  are the zero value.
- A worker may park over an event whose Submit saw nobody parked, with nobody on the
  way to wake it: the event waits for the next Submit (the hypothesis `Traffic` of
  `DeliveredUnderTraffic`; `Dispatcher` does not promise that a queued event is taken).
- The one semaphore may wake a worker that does not own the ring; and rings that fill
  up while all workers park leave the next caller blocked without having woken anybody,
  for submitSlow blocks before Submit's wake-up. So do handlers that submit while their
  own worker's ring is full. This is the deadlock `Jam`; `BlockedOnlyInJam` says that a
  caller stays blocked in no other case.
- A handler's panic skips the signal for the room that its event made (`silent` in
  `Jam`), and starts the round over at the first ring, so handlers that go
  on panicking starve the others (`Panics` in `DeliveredUnderTraffic` and
  `BlockedOnlyInJam`).

Matcher and subscriptions:

- Remove deletes the exact entry of a pattern that still has references; its
  events are then answered with wildcards too (`LookupsAgree`).
- EmitMatch reads the snapshot and the matcher at two moments: an On of the exact
  pattern in between leaves the event with no handler although a wildcard covers
  it (`EmitMatchIsComplete`). The same On can be found by its exact entry before its
  reference is there.
- An event type that itself has a segment `*` or `**` gets the same pattern from the walk
  more than once, for the literal child is looked up apart from the wildcard's
  (`LookupsAgree` asks for "once" of exact event types; `Delivery` leaves such event types
  out, so that what is said of delivery is not said of them).
- On accepts a pattern of more than 16 segments and the matcher does not: EmitMatch never
  reaches its subscribers, nor does the flow bus while anybody has a wildcard, whereas
  Emit, and the flow bus otherwise, does (`TooDeep` in `EmitMatchIsComplete` and
  `DispatchIsComplete`).
- References stay behind in the matcher of sync and async: the last Off of a
  pattern removes one reference for each subscriber left, not for each Add.
- An event of type `""` takes the single-type path of a sync or async bus with
  several types and reaches nobody (`EmitIsComplete`).
- Emit of sync and async looks at exact types only (`Addressed`), while the
  README's example emits to a wildcard with it.
- Off of the flow bus removes the pattern from the matcher once per try of its
  compare-and-swap (`Overremoved`), and with one exact pattern its handlers get
  events of every type (`HasSingleKey` in `DispatchIsSound`).

Flow bus:

- A panic in a batch takes the rest of the batch with it, and what the batch had
  handled is not counted (`lost`).
- A panic in processSingle leaves slowMu locked, and a handler that emits there while
  the rings are full locks it a second time: who waits for it then waits for good, and
  when that is a handler's Emit in a consumer, so do the consumer and Close (`Stuck`).
- Drain returns nil with an event left in a ring, behind a slot that is claimed and
  not published (not `owed` in `DrainWaitsForReady`), and a second Drain answers nil
  while the first one waits (it is `owed` nothing).

Sync and async buses:

- Emit on a closed bus with a pool goes on counting; events still queued at Close are
  skipped or left behind, and Drain returns nil all the same (`uncounted`, `queued` and
  `dropped` in `CountersAgree`).
- EmitBatch and EmitMatchBatch of the sync bus, in both modes, count a nil event and panic
  on it, where Emit and EmitMatch ignore it.
- The sync bus's Stats claim that a batch was processed although it ended early, and
  the async bus's EmitMatch recovers nothing and counts no failure (`uncounted`).
- Stats reads Emitted before Processed, so Processed may be the greater
  (`StatsInWindow`).
- Once errChan ran full, older errors overtake newer ones, and an error received before
  a ClearError is stored after it (`overflowed` in `ErrorsAreKept`).
- A handler on a worker that calls Close never returns, nor does that Close; a later
  Drain finds the bus closed and answers nil at once (`stuck` in `CloseReturns`).

Arena and middleware:

- AllocData answers nil to the client that switched chunks when others fill the new one
  first (`NilOnlyWhenOvertaken`); a chunk is put back while slices of it are in use, so a
  later switch hands the same bytes out again (`slices` forgets a chunk's slices then);
  and building any bus sets the arena flag for all of them (`BuildBus`).
- A panic behind timeout is in another goroutine, so that a recoverer outside timeout
  does not stop it and the process ends; Submit on a pool that is being stopped panics in
  the caller (`PanicStaysIn`).
- A handler runs again, or twice at once, after its timeout (`expired` in `AnswerIsOwn`).
- retry's first wait is not clamped to MaxInterval, and Release keeps an event's ID,
  Source and Metadata (read in the code; no property is about them).

### Bounds, and why they are enough

- `spsc` ends at the first overlap (`NotMet`), since every property of the run is void from
  there on. `sched` goes on after a ring is torn, but no Submit begins any more
  (`QuietOnceTorn`): `StopLetsEveryoneGo` and `ParkedIsExact` are still to hold, of all that
  is under way by then. What a torn ring gives, if anything, is `e1` (`TornGivesFirst`), the
  event whose handler may submit, return or panic; those of the others can do no more.
- `sched` has one worker and one producer, whose Submit and that of a handler are two
  callers of one ring, the least that can tear it. `ParkedCounter`, `Implements` and
  `JamHasAReason` are for any numbers of each.
- In `flow_subs` only the first subscription may be of the pattern that is too deep
  (`DeepOnce`). The matcher never holds it, so a second one repeats the first one's part;
  the theorems of `Delivery_proofs` have no such bound.
- Rings of 1 or 2 places are full, empty and wrapped within a few steps, and the
  emitters and events outnumber their places. In the code a flow ring is four
  batches long; none of the properties depends on that, and with the short
  rings the slow paths are reached with few events. A bus of flow has at least
  two shards, and so have the runs.
- `Wrap = 4` for `Size = 2` makes the cursors wrap in every other round; the
  proof removes both bounds.
- `MaxTail`, `MaxVer`, `MaxRefs`, `MaxId` and `MaxEra` bound counters that only grow.
  Their values let each operation happen before, during and after each other one at
  least once: the hardest scenarios found (a lost compare-and-swap that removes a
  shared reference, a wildcard hidden by an On in mid-call, a chunk that comes back)
  need two or three of a kind.
- `IdleLimit` is 1: a worker spins one round before it parks.
  More rounds repeat the same look at the rings.
- A chunk of four aligned units and requests of one to three fill up, leave a rest too
  small for one client and big enough for another, and are switched within three calls.
  The profiles have negative, zero and uneven fields, where Advise and Build round.
- `MaxRetries = 1` gives an attempt whose answer is late and one that may mistake it; a
  queue of one is full with the second call.
- The plans of `bus_life` have each operation on each kind of bus that treats it in a
  way of its own, a batch with a nil event, and closers that run against each other.
- In `FlowBus`, the events that a handler emits do not panic themselves
  (`FlowBusAssumption`), so that a panic ends in the goroutine it began in.
- Symmetry is used for interchangeable clients, changers, producers, chunks and events,
  only in runs without liveness properties.
- Deadlock is checked except where the system may really stop: after Stop or Close,
  when the finite list of calls is at an end, when the trie's number of changes is used
  up, when no chunk may be taken into use any more, or when a panic ended the process.

### Fairness

Weak fairness of each goroutine's next step stands for the Go scheduler, and for
handlers that return. A consumer of the flow bus wakes by its ticker, which goes
on ticking: the weak fairness of `Consumer`. Its select chooses at random among
the ready cases, so one that finds `done` closed again and again takes that case
in the end: strong fairness of `SeeDone`. `slowMu` is taken under weak fairness. A
handler that emits goes on to its next call (`EmitStart` of the emitters in `Within`).
In `Middleware`, a handler ends or hangs for good, and a timer fires in time if nothing
else ends the wait: the weak fairness of `Caller`. In `BusLifecycle`, a worker goes on
with the event it took, unless its handler is one in `Blocking` and stuck; the scheduler
goes on with Stop, and a Drain's timer fires. Nothing obliges it to take a queued event. Nobody is obliged to emit, to submit, to call Close or
to call Stop; `DeliveredUnderTraffic` takes unending Submits as a hypothesis.

## 4. Proofs

All are proved for every value of the constants under the named assumption of the
module; the assumptions say what the code's constructors ensure (sizes are positive, a
ring's modulus is a multiple of its size, and the like).

`SPSCRing_proofs`, for any callers, pinned or not: `TypeCorrect` (`TypeOK`); and, until two
Enqueues have overlapped, `Discipline` (`IInv`), `RaceFree` (`NoSlotRace`),
`NothingRetained` (`FreeSlotsAreZero`) and `Implements` (`RefinesFifo`). `NoSlotRace` is
not inductive: that a producer about to write is not at the consumer's slot follows from
how far apart the cursors can be, and that depends on how stale the cached cursors are.
`IInv` says that, as long as `met` is false, one producer is inside (`OneWriter`), the
four cursors lie in the order cachedHead, head, cachedTail, tail and at most `Size` apart
on the circle (`CursorOrder`), what each program counter has established
(`ProducerInside`, `ConsumerInside`), and what the used slots hold. No theorem but one
assumes that the callers pin: `PinnedNeverMeet` says that if all did, as `Submit` and
`submitSlow`'s retry do and its scan does not, Enqueues would never overlap, and all of
the above would hold for good.

`FlowRing_proofs`: `OneOwner` (`SlotsExclusive`) and `Barrier` (`SequenceBarrier`), for
any number of producers, which compete for claims. The inductive invariant `RingInv`
says of the window of `Cap` indices from the consumer's on: those below tail are claimed
by one producer, with the old number in their slot, or published (`Claims`,
`Published`); those above carry the number of their round (`Free`); a producer whose
compare-and-swap can still succeed has room (`Loaded`); and what the consumer takes is
published (`Taking`). For `Implements` (`RefinesFifo`), with the items that claims carry
(`Carries`) and the fact that no slot is behind (`NoneBehind`), a successful
compare-and-swap is Accept, a push that finds its slot behind is Refuse, the consumer's
last store for a slot is Poll.

`ShardedScheduler_proofs`: `ParkedCounter` (`ParkedIsExact`), torn rings or not. A signal
moves the head of the semaphore's queue, so the counter stays exact only if that queue
holds sleeping workers, each once (`SleepersSleep`, part of `WorkerInv`). The other two
hold until a ring is torn. `Implements` (`RefinesDispatcher`) rests on `EventInv`, which
says that an event is in one place only and who holds what at which line, and on
`WorkerInv`, by which Stop's wait has seen all workers leave. `JamHasAReason` is the
safety half of `BlockedOnlyInJam`: when everything is at rest although a caller is
blocked and nobody was woken to retry, an event is stuck in a ring or a panic skipped an
announcement, and each worker that is blocked in its handler's Submit waits behind the
ring it was working on. It rests on two more: `RoomInv`, which also covers a caller that
is still on its way to block and a signal that lies in the channel, and `JamInv`, which
says what a worker that blocks inside a handler has left in its ring.

`TrieMatcher_proofs`, for any patterns, event types, bound and number of readers:
`TypeCorrect` (`TypeOK`), `Coherent` (`CacheIsCoherent`), `Tidy` (`TrieIsTidy`), `Lookups`
(`LookupsAgree`) and `Sound` (`MatchIsSound`).

- Coherence rests on `CacheInv`: no version comes from the future (`Versions`), and a
  reader between its walk and its store holds what a walk would find now, unless the
  version it loaded before is out of date (`WalkedIsCurrent`). While a writer is at work
  an entry of the current version may be wrong; the new version comes before the lock is
  released, which makes it useless. What the walk computes does not matter here.
- That no dead branch stays behind is inductive together with the facts that each node's
  parent is a node (`Rooted`) and that no counter outlives its node (`Counted`): `TidyInv`.
  Remove's walk back to the root takes away the nodes below the last one that is still
  needed, and no other.
- What the walks find is shown by induction on the segments still to come. The library's
  induction theorems take an operator, so `InductionOverNat` states induction for a *set*
  of numbers, by well-foundedness, and `RecursionSolved` gives from it that a recursion on
  a node and a depth has a solution, so that the recursive function the walk is defined by
  is that solution (`WalkIsWalk`, `HasWalkIsWalk`). `Reach(e, n, x)` says that the pattern
  x, which passes through node n, accepts what is left of e there; the walk from n answers
  with the live patterns it reaches (`WalkFinds`), each once if e is exact, for the three
  children it asks (literal, `*`, `**`) then lead to different patterns. `HasWalkFinds` says
  that the other walk tells whether there is one.
- `MatchIsSound` is about a Match between any steps of the writer. An answer of the
  current version, in the cache or on its way there, is right of the patterns that are
  live now (`CurrentIsRight`); when the writer makes it wrong the version goes on, and the
  reader that still compares with the older version it loaded finds an answer that was
  right at some moment since it began (`HitIsRight`, `Tracked`).

`Accounting_proofs`, about `EventPool` and `BusLifecycle`, which both add up over a set.
The sum is a fold, which takes the elements in an order that nothing is known of; `SumsExist`
and the lemmas after it show, by induction on the size of the set, that the order does
not matter and what a change of one term does to the sum.

- `BytesApart` (`SlicesDisjoint`), `PutAsideOnce` (`RetiredChunksAreUsed`) and
  `NilIsOvertaken` (`NilOnlyWhenOvertaken`), of `EventPool`. `PoolInv` says that every slice
  ends at or below its chunk's offset (`SlicesInv`), which only moves up while the chunk is
  in use; who holds the lock where (`LockInv`); and that a chunk is put aside by one client
  and then by none until it is taken again (`AsideInv`). A chunk is more than half used
  then, because the request that did not fit is at most half a chunk, and halves are
  aligned. For `NilIsOvertaken`, `SumInv` says that the lengths of a chunk's slices add up
  to its offset.
- `BuildsRun` (`BuildsAreRunnable`), of `EventPool` with `Factory`, for any profiles and any
  number of CPUs. `RoundUp` doubles 1 until it is enough. `Doubled` is a recursive function;
  `DoubledIs` shows that it satisfies its recursion, and `RoundUpIs` from it that the doubling
  ends, in a power of two no less than the size asked for. Advise, Option and Build are
  followed through their branches, and the constructors' clamps give the rest: a worker at
  least, and a ring that holds a batch, whatever the caller's fields were.
- `CountersBalance` (`CountersAgree`), of `BusLifecycle`, for any finite set of emitters,
  any plans and any slots. The balance is inductive with what the position in a call says
  of the events still to do (`CallsGoOn`) and with the scheduler's places being apart and
  finite (`PlacesInv`), which makes the cardinality of their union move by one with each
  Submit and Finish. Each action is shown to keep it by what it adds to the counters, to the
  scheduler and to the calls (`Balances`).
- `StatsReadsWithin` (`StatsInWindow`): what Stats has read of a counter is at most what the
  slots it read hold now, and together with the slots it has not read it is at least the
  total that there was when Stats began (`Between`). No step takes anything from a slot
  (`Up`). That no more is handled than was emitted then follows from the balance.
- `NoErrorIsLost` (`ErrorsAreKept`): an error of a worker is stored, held by errorHandler or
  in errChan (`OnTheWay`); errorHandler leaves only after `errDone`, which is closed after the
  workers have gone (`Closing`), and when errChan is empty, so none can come later. Until one
  finds errChan full, the errors are stored in the order of their numbers (`InOrder`).

`Delivery_proofs`, for any patterns, whatever the wildcards cover, as long as an exact
pattern covers its own event type and no other:

- `DeliverySound` (`DeliveryIsSound`), `EmitComplete` (`EmitIsComplete`) and
  `EmitMatchComplete` (`EmitMatchIsComplete`), of `Subscriptions`. `BusInv` says what On and
  Off keep in order: who is between its two stores has the mutex (`Exclusive`), a number that
  is being made is new and nobody else's (`MakingNew`), one that is being removed is known
  (`LeavingKnown`), the snapshot lists each pattern with its own subscriptions
  (`ListedUnderPattern`) and all that On has returned (`SureListed`), and the matcher has
  a reference for each pattern that is certainly there (`MatcherServes`), as well as the
  exact patterns that are listed, but for the one that the mutex's holder is in the
  middle of (`Midway`). `CallsInv` adds
  what a call under way knows (`CallOf`): the snapshot it loaded, and that the handlers it
  has run with those it has still to run are the ones it should (`PlanOf`, `ReachOf`). That
  the single-type path gives what the map would is `FastPath`, true but for the empty string.
- `NothingLost` (`NoLostUpdate`), `DispatchSound` (`DispatchIsSound`) and `DispatchComplete`
  (`DispatchIsComplete`), of `FlowSubscriptions`. `SubsInv` says that subscriptions have one
  number each (`Numbered`), that a snapshot loaded is the current one as long as the pointer
  has not changed (`Loaded`), and which numbers are on their way in and out (`AddingNew`,
  `RemovingKnown`). `MatcherInv` counts: a pattern that no Off removed twice and that is not too deep has a reference
  for each subscription of it (`Left`) whose On is past the count (`Remaining`), and an
  exact entry is of a pattern with a subscription left (`Referenced`). `DispatchInv` says what a consumer's snapshot
  holds of those there throughout (`Dispatching`, `LoadedOnce`).
- What Match answers may be out of date when it is used. It is enough (`MatchAnswers`,
  `AnswerIsRight`) that it names each covering pattern once, and those that are there all
  through, but for wildcards under an exact pattern that may be there: an exact hit does,
  for no other exact pattern covers the event (`ExactAlone`), and so do the patterns that
  have references later (`MergedOnce`).
- Both gather handlers pattern by pattern: `Flattened` says, by induction over a set of
  numbers, what the concatenation of a sequence of sequences contains, and when it contains
  nothing twice.

`FlowBus_proofs`, for any shards, sizes, emitters, handlers that emit and closers:
`BusConserves` (`EventsAccountedFor`), `BusKeepsOrder` (`HandledInOrder`) and `DrainKeepsWord`
(`DrainWaitsForReady`). That events are accounted for is not inductive: a step may lose an
event only by having it in two places before. `BusInv` says in which one an event is
(`Exclusive`: rings, batches, emitters' hands, handled, lost, and none of them twice), what
an emitter at each line still has to place (`Counters`, `EndOfCall`), and that what
was accepted is of calls that were begun, so that the events of a new call are new
(`Begun`). For the order,
`OrderInv` adds that an event that did not leave the way of its shard is in the ring or the
batch of that shard (`Home`), and that the one emitted first is ahead wherever the other one
is (`InOrder`), also from the ring to the batch and to what was handled. For Drain,
`DrainInv` adds that what a closer is owed is handled, lost, or with a consumer that has not
left, in its batch or visible to it (`Shutdown`): a consumer leaves only after it found
`done` closed and then its ring with nothing visible.

`Middleware_proofs`: `AnswersAreOwn` (`AnswerIsOwn`), `PanicsStayIn` (`PanicStaysIn`),
`PoolImplements` (`PoolIsDispatcher`) and `StoppedPoolIsQuiet` (no handler runs once Stop has
returned), from `ChainInv`: an answer is what its own attempt's
handler ended with (`Answers`); attempts to come are untouched, and one given up without its
timer ended in a way that is worth a retry (`Attempts`); a pool's shards hold tasks nobody
has begun, each once (`Waiting`), which is why a worker runs no task twice; and Stop goes
through its steps in order (`OnWorkers`, `Stopping`). For `PoolImplements`, `OnePlace` adds
that two workers never have the same task and that tasks go to workers only with a pool: a
send is Submit, WorkerTakes is Take, the end of a handler on a worker is Finish, the steps
of Stop up to the wait are those of `Dispatcher`, and everything else is a stutter, handlers
that hang and panics that end the process included.

Only model-checked are the liveness properties (`OldestIsReturned`, `OldestIsTaken`,
`DeliveredUnderTraffic`, `BlockedOnlyInJam`, `StopLetsEveryoneGo`, `EventsAreHandled`,
`CloseReturns` and both `CallsReturn`): temporal proofs under fairness, and ENABLED, are out of the prover's reach.
Every safety property and every refinement that a run checks is proved.

## 5. Not modelled

- Two workers under fairness: with two rings and a blocked caller TLC does not finish in
  reasonable time. That a wake-up may go to a worker that does not own the ring is
  therefore listed as a hazard without a property.
- What exactly an SPSC ring does after two Enqueues have overlapped: the scheduler takes
  anything from it. `BusLifecycle` speaks of `Dispatcher`, so that what is shown of the
  sync and async buses' counters, errors and Close is shown of a scheduler without a torn
  ring; with one the counters do not balance.
- Stats' depth and the batch counter of the flow bus, which are diagnostics read from
  counters at different times, and its Flush, which sleeps.
- A panic in an event that another event's handler emits (flow): it would go through both.
  A handler that calls Close or Drain of its own flow bus: it waits for the consumer it
  runs on, and `CallsReturn` does not speak of it.
- Acquire and Release of events, which hand over to a sync.Pool, and slice pools.
- The length of intervals and the growth of retry's; logging.
- The switchable locks, which do nothing when they are made for one goroutine; the package
  functions that pass their call to the default bus; cache-line padding and prewarming,
  which change no result.
- A change of GOMAXPROCS after the scheduler was made: two Ps then share a ring, which is
  the case of a member in `Unpinned` of `SPSCRing`.
