------------------------------ MODULE EventPool -----------------------------
(***************************************************************************)
(* The arena of internal/support/pool/pool.go: AllocData cuts slices off   *)
(* the current chunk without a lock; whoever finds it full switches to     *)
(* another chunk under the lock and gives the old one to a sync.Pool,      *)
(* where the next switch may find it, while the slices cut from it are     *)
(* still in use.  Every bus that is built sets the one flag for all.       *)
(*                                                                         *)
(* A slice lives on in the event that carries it, so slices are never      *)
(* given back.  The history slices holds those that were cut since their   *)
(* chunk was taken into use last.                                          *)
(***************************************************************************)
EXTENDS Factory, FiniteSetsExt

CONSTANTS
  Cpus,       \* numbers of CPUs a machine may have
  Profiles,   \* the profiles callers pass to Option, besides the package's own
  Clients,
  Chunks,     \* the chunks there can be
  ChunkSize,  \* 64 * 1024 in the code
  Align,      \* 8 in the code
  Sizes,      \* the lengths that clients ask for
  MaxEra,     \* how often a chunk is taken into use, at most
  NoClient,
  NoChunk

Half == ChunkSize \div 2

ASSUME PoolAssumption ==
  /\ Align \in Nat \ {0} /\ ChunkSize \in Nat
  /\ ChunkSize = 2 * Half /\ Half % Align = 0
  /\ Sizes \subseteq Nat /\ Cpus \subseteq Nat \ {0}
  /\ \A p \in Profiles :
       p.arena \in BOOLEAN /\ {p.conc, p.tps, p.cores, p.timeout} \subseteq Int
  /\ NoClient \notin Clients /\ NoChunk \notin Chunks
  /\ Chunks # {}

VARIABLES
  cpus,      \* runtime.NumCPU()
  bus,       \* the bus that was built last; its arena is the flag enableArena
  current,   \* currentArena
  offset,    \* offset[c]
  pooled,    \* pooled[c]: how often chunk c is in chunkPool
  era,       \* era[c]: how often c was taken into use; 0 before it exists
  lock,      \* who holds arenaLock
  pc,
  size,      \* size[p]: the n of p's AllocData
  arena,     \* arena[p]: p's local variable arena, then newChunk
  oldChunk,
  slices     \* history: the live slices, as [chunk, from, to]

busVars == <<cpus, bus>>
callVars == <<pc, size, arena, oldChunk>>
vars == <<busVars, current, offset, pooled, era, lock, callVars, slices>>

Aligned(n) == ((n + Align - 1) \div Align) * Align

(* sync.Pool's Get: a chunk that is in the pool, or a new one.             *)
Gettable == {c \in Chunks : (pooled[c] > 0 \/ era[c] = 0) /\ era[c] < MaxEra}

Init ==
  /\ cpus \in Cpus
  /\ bus = Option(Sync(cpus), cpus)
  /\ current \in Chunks
  /\ offset = [c \in Chunks |-> 0]
  /\ pooled = [c \in Chunks |-> 0]
  /\ era = [c \in Chunks |-> IF c = current THEN 1 ELSE 0]
  /\ lock = NoClient
  /\ pc = [p \in Clients |-> "idle"]
  /\ size = [p \in Clients |-> 0]
  /\ arena = [p \in Clients |-> NoChunk]
  /\ oldChunk = [p \in Clients |-> NoChunk]
  /\ slices = {}

Fits(p) == offset[arena[p]] + Aligned(size[p]) <= ChunkSize

CutUnaligned(p) ==   \* mutant: the offset advances by n
  LET c == arena[p]
      to == offset[c] + size[p]
  IN /\ Fits(p)
     /\ offset' = [offset EXCEPT ![c] = to]
     /\ slices' = slices \cup
          {[chunk |-> c, from |-> offset[c], to |-> offset[c] + Aligned(size[p])]}

(* Alloc, at its successful compare-and-swap.                              *)
Cut(p) ==
  LET c == arena[p]
      to == offset[c] + Aligned(size[p])
  IN /\ Fits(p)
     /\ offset' = [offset EXCEPT ![c] = to]
     /\ slices' = slices \cup {[chunk |-> c, from |-> offset[c], to |-> to]}

(* The call is over, and its local variables are gone.                     *)
Return(p) ==
  /\ pc' = [pc EXCEPT ![p] = "idle"]
  /\ size' = [size EXCEPT ![p] = 0]
  /\ arena' = [arena EXCEPT ![p] = NoChunk]

(* AllocData reads the flag and the current chunk. Larger requests, and    *)
(* all when the flag is off, are left to the heap.                         *)
AllocData(p, n) ==
  /\ pc[p] = "idle" /\ bus.arena /\ n <= Half
  /\ size' = [size EXCEPT ![p] = n]
  /\ arena' = [arena EXCEPT ![p] = current]
  /\ pc' = [pc EXCEPT ![p] = "alloc"]
  /\ UNCHANGED <<busVars, current, offset, pooled, era, lock, oldChunk, slices>>

Alloc(p) ==
  /\ pc[p] = "alloc"
  /\ \/ Cut(p) /\ Return(p)
     \/ /\ ~Fits(p)
        /\ pc' = [pc EXCEPT ![p] = "lock"]
        /\ UNCHANGED <<offset, size, arena, slices>>
  /\ UNCHANGED <<busVars, current, pooled, era, lock, oldChunk>>

Lock(p) ==
  /\ pc[p] = "lock" /\ lock = NoClient
  /\ lock' = p
  /\ arena' = [arena EXCEPT ![p] = current]
  /\ pc' = [pc EXCEPT ![p] = "again"]
  /\ UNCHANGED <<busVars, current, offset, pooled, era, size, oldChunk, slices>>

AllocNotAgain(p) ==   \* mutant: switches without looking at the current chunk again
  /\ pc[p] = "again"
  /\ pc' = [pc EXCEPT ![p] = "switch"]
  /\ UNCHANGED <<busVars, current, offset, pooled, era, lock, size, arena, oldChunk,
                 slices>>

AllocAgain(p) ==
  /\ pc[p] = "again"
  /\ \/ Cut(p) /\ lock' = NoClient /\ Return(p)
     \/ /\ ~Fits(p)
        /\ pc' = [pc EXCEPT ![p] = "switch"]
        /\ UNCHANGED <<offset, lock, size, arena, slices>>
  /\ UNCHANGED <<busVars, current, pooled, era, oldChunk>>

TakeChunkAsItIs(p) ==   \* mutant: the offset is not reset
  /\ pc[p] = "switch"
  /\ \E c \in Gettable :
       /\ pooled' = [pooled EXCEPT ![c] = IF @ > 0 THEN @ - 1 ELSE 0]
       /\ era' = [era EXCEPT ![c] = @ + 1]
       /\ slices' = {s \in slices : s.chunk # c}
       /\ arena' = [arena EXCEPT ![p] = c]
  /\ pc' = [pc EXCEPT ![p] = "publish"]
  /\ UNCHANGED <<busVars, current, offset, lock, size, oldChunk>>

(* chunkPool.Get and offset.Store(0).                                      *)
TakeChunk(p) ==
  /\ pc[p] = "switch"
  /\ \E c \in Gettable :
       /\ pooled' = [pooled EXCEPT ![c] = IF @ > 0 THEN @ - 1 ELSE 0]
       /\ era' = [era EXCEPT ![c] = @ + 1]
       /\ offset' = [offset EXCEPT ![c] = 0]
       /\ slices' = {s \in slices : s.chunk # c}
       /\ arena' = [arena EXCEPT ![p] = c]
  /\ pc' = [pc EXCEPT ![p] = "publish"]
  /\ UNCHANGED <<busVars, current, lock, size, oldChunk>>

Publish(p) ==
  /\ pc[p] = "publish"
  /\ oldChunk' = [oldChunk EXCEPT ![p] = current]
  /\ current' = arena[p]
  /\ pc' = [pc EXCEPT ![p] = "fill"]
  /\ UNCHANGED <<busVars, offset, pooled, era, lock, size, arena, slices>>

(* The new chunk is public already: if others have filled it, the answer   *)
(* is nil.                                                                 *)
AllocFirst(p) ==
  /\ pc[p] = "fill"
  /\ Cut(p) \/ (~Fits(p) /\ UNCHANGED <<offset, slices>>)
  /\ lock' = NoClient
  /\ pc' = [pc EXCEPT ![p] = "put"]
  /\ UNCHANGED <<busVars, current, pooled, era, size, arena, oldChunk>>

PutChunk(p) ==
  /\ pc[p] = "put"
  /\ pooled' = [pooled EXCEPT ![oldChunk[p]] = @ + 1]
  /\ oldChunk' = [oldChunk EXCEPT ![p] = NoChunk]
  /\ Return(p)
  /\ UNCHANGED <<busVars, current, offset, era, lock, slices>>

(* Any bus that is built sets the flag for all; the package's own init     *)
(* builds the first.                                                       *)
BuildBus ==
  /\ \E profile \in PackageProfiles(cpus) \cup Profiles : bus' = Option(profile, cpus)
  /\ UNCHANGED <<cpus, current, offset, pooled, era, lock, callVars, slices>>

Client(p) ==
  \/ \E n \in Sizes : AllocData(p, n)
  \/ Alloc(p)
  \/ Lock(p)
  \/ AllocAgain(p)
  \/ TakeChunk(p)
  \/ Publish(p)
  \/ AllocFirst(p)
  \/ PutChunk(p)

Next == BuildBus \/ \E p \in Clients : Client(p)

Spec == Init /\ [][Next]_vars
-----------------------------------------------------------------------------
(* Where the locations matter, types.                                      *)
TypeOK ==
  /\ cpus \in Cpus /\ bus.arena \in BOOLEAN
  /\ current \in Chunks
  /\ offset \in [Chunks -> 0 .. ChunkSize]
  /\ pooled \in [Chunks -> Nat]
  /\ era \in [Chunks -> Nat]
  /\ lock \in Clients \cup {NoClient}
  /\ pc \in [Clients -> {"idle", "alloc", "lock", "again", "switch", "publish", "fill", "put"}]
  /\ size \in [Clients -> Nat]
  /\ \A p \in Clients : Aligned(size[p]) \in 0 .. Half
  /\ arena \in [Clients -> Chunks \cup {NoChunk}]
  /\ oldChunk \in [Clients -> Chunks \cup {NoChunk}]

(* No two slices share a byte, however many clients cut from a chunk that  *)
(* others are replacing or have put aside (pool.go 25-37, 91-107), those   *)
(* apart that were cut before and after the chunk was taken into use       *)
(* again: the pool gives a chunk out while its slices are in use.          *)
SlicesDisjoint ==
  \A s, t \in slices :
    s # t /\ s.chunk = t.chunk => s.to <= t.from \/ t.to <= s.from

(* A chunk is put aside once, when it could not serve a request any more,  *)
(* and never while it is in use, however many clients found it full        *)
(* together (pool.go 95-107).                                              *)
Retiring(c) == {p \in Clients : oldChunk[p] = c}
RetiredChunksAreUsed ==
  \A c \in Chunks :
    pooled[c] > 0 \/ Retiring(c) # {} =>
      /\ offset[c] > Half
      /\ c # current
      /\ pooled[c] + Cardinality(Retiring(c)) = 1

(* AllocData answers nil, which its contract leaves out ("transparent to   *)
(* the caller", pool.go 6), only to a client whose new chunk others filled *)
(* before it cut its own slice (pool.go 104-105).                          *)
NilOnlyWhenOvertaken ==
  \A p \in Clients :
    pc[p] = "fill" /\ ~Fits(p) =>
      MapThenSumSet(LAMBDA s : s.to - s.from, {s \in slices : s.chunk = arena[p]})
        + Aligned(size[p]) > ChunkSize

Runnable(b) ==
  \/ b.impl = "sync"
  \/ /\ b.impl = "async" /\ b.workers >= 1
     /\ PowerOfTwo(b.rings) /\ PowerOfTwo(b.ringSize)
  \/ /\ b.impl = "flow" /\ b.batchSz \in 1 .. b.ringSize /\ b.timeout > 0
     /\ PowerOfTwo(b.shards) /\ PowerOfTwo(b.ringSize)

(* Every profile, the package's or a caller's, with fields of any size,    *)
(* gives a bus whose parts can run: a worker at least, rings of a power of *)
(* two, a batch that fits its ring, a ticker that ticks (NewTicker and     *)
(* NewSPSCRing panic otherwise).                                           *)
BuildsAreRunnable == Runnable(bus)
=============================================================================
