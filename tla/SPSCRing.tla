----------------------------- MODULE SPSCRing ------------------------------
(***************************************************************************)
(* The lock-free ring of internal/support/spsc/spsc.go, one action per     *)
(* access to shared memory.  One consumer (the worker that owns the ring)  *)
(* calls Dequeue; Goroutines call Enqueue.  Those that call it between     *)
(* runtime.procPin and runtime.procUnpin exclude each other, because they  *)
(* run on the one P the ring belongs to; the callers in Unpinned do not    *)
(* (the scan at the top of submitSlow, sched.go 121-125).  The ring can    *)
(* bear one of these only while no two calls of Enqueue overlap: met       *)
(* records that two did.  From then on tail may go back and slots may be   *)
(* overwritten, and nothing but the types is claimed any more, so reading  *)
(* tail and cachedHead, which is plain memory, is one step.                *)
(*                                                                         *)
(* The cursors are uint64 counters that wrap: they live in 0..Wrap-1.      *)
(***************************************************************************)
EXTENDS Integers, Sequences

CONSTANTS
  Goroutines,  \* the callers of Enqueue
  Unpinned,    \* those that call it without pinning their P
  Values,      \* what is stored
  Zero,        \* the zero value of the element type
  Size,        \* number of slots, mask + 1
  Wrap         \* the cursors' modulus, 2^64 in the code

(* The code asks for a power of two, which is how Size comes to divide     *)
(* Wrap; nothing else of it is used.                                       *)
ASSUME RingAssumption ==
  /\ Unpinned \subseteq Goroutines
  /\ Zero \notin Values
  /\ Size \in Nat \ {0}
  /\ Wrap \in Nat
  /\ Size < Wrap
  /\ \E k \in 1 .. Wrap : Wrap = k * Size

VARIABLES
  head,        \* next slot to read; written by the consumer
  cachedTail,  \* the consumer's copy of tail
  tail,        \* next slot to write; written by the producer
  cachedHead,  \* the producer's copy of head
  buf,         \* the slots
  pc,          \* pc[g]: the next access of g's Enqueue, or "idle"
  localTail,   \* localTail[g]: the tail that g's Enqueue loaded
  arg,         \* arg[g]: the value of g's Enqueue
  ok,          \* ok[g]: the result of g's last Enqueue
  met,         \* history: two calls of Enqueue have overlapped
  cpc,         \* the next access of the consumer's Dequeue, or "idle"
  taken,       \* the value that Dequeue read from its slot
  got          \* the result of the last Dequeue

producerVars == <<tail, cachedHead, pc, localTail, arg, ok, met>>
consumerVars == <<head, cachedTail, cpc, taken, got>>
vars == <<producerVars, consumerVars, buf>>

Cursor == 0 .. Wrap - 1
Slots == 0 .. Size - 1

(* uint64 arithmetic and the masking of a cursor to a slot.                *)
Add(c, n) == IF c + n < Wrap THEN c + n ELSE c + n - Wrap
Sub(a, b) == IF a >= b THEN a - b ELSE a - b + Wrap
Slot(c) == c % Size

FullLate(t, h) == Sub(t, h) > Size   \* mutant: off by one
Full(t, h) == Sub(t, h) > Size - 1

Init ==
  /\ head = 0 /\ cachedTail = 0 /\ tail = 0 /\ cachedHead = 0
  /\ buf = [s \in Slots |-> Zero]
  /\ pc = [g \in Goroutines |-> "idle"]
  /\ localTail = [g \in Goroutines |-> 0]
  /\ arg = [g \in Goroutines |-> Zero]
  /\ ok = [g \in Goroutines |-> FALSE]
  /\ met = FALSE
  /\ cpc = "idle" /\ taken = Zero /\ got = Zero
-----------------------------------------------------------------------------
(* Enqueue.  A pinned caller gets in only when no other pinned caller is   *)
(* inside: that is all procPin gives.                                      *)
MayEnter(g) ==
  \/ g \in Unpinned
  \/ \A h \in Goroutines \ Unpinned : pc[h] = "idle"

EnqueueLoadTail(g, v) ==
  /\ pc[g] = "idle"
  /\ MayEnter(g)
  /\ localTail' = [localTail EXCEPT ![g] = tail]
  /\ arg' = [arg EXCEPT ![g] = v]
  /\ pc' = [pc EXCEPT ![g] = IF Full(tail, cachedHead) THEN "loadHead" ELSE "write"]
  /\ met' = (met \/ \E h \in Goroutines \ {g} : pc[h] # "idle")
  /\ UNCHANGED <<tail, cachedHead, ok, consumerVars, buf>>

EnqueueLoadHeadGivesUp(g) ==   \* mutant: trusts the stale cachedHead
  /\ pc[g] = "loadHead"
  /\ cachedHead' = head
  /\ pc' = [pc EXCEPT ![g] = "idle"]
  /\ ok' = [ok EXCEPT ![g] = FALSE]
  /\ UNCHANGED <<tail, localTail, arg, met, consumerVars, buf>>

EnqueueLoadHead(g) ==
  /\ pc[g] = "loadHead"
  /\ cachedHead' = head
  /\ IF Full(localTail[g], head)
       THEN /\ pc' = [pc EXCEPT ![g] = "idle"]
            /\ ok' = [ok EXCEPT ![g] = FALSE]
       ELSE /\ pc' = [pc EXCEPT ![g] = "write"]
            /\ UNCHANGED ok
  /\ UNCHANGED <<tail, localTail, arg, met, consumerVars, buf>>

EnqueueWrite(g) ==
  /\ pc[g] = "write"
  /\ buf' = [buf EXCEPT ![Slot(localTail[g])] = arg[g]]
  /\ pc' = [pc EXCEPT ![g] = "publish"]
  /\ UNCHANGED <<tail, cachedHead, localTail, arg, ok, met, consumerVars>>

EnqueuePublish(g) ==
  /\ pc[g] = "publish"
  /\ tail' = Add(localTail[g], 1)
  /\ pc' = [pc EXCEPT ![g] = "idle"]
  /\ ok' = [ok EXCEPT ![g] = TRUE]
  /\ UNCHANGED <<cachedHead, localTail, arg, met, consumerVars, buf>>
-----------------------------------------------------------------------------
(* Dequeue.  Only the consumer writes head, so reading it is no step.      *)
DequeueStart ==
  /\ cpc = "idle"
  /\ cpc' = IF head = cachedTail THEN "loadTail" ELSE "take"
  /\ UNCHANGED <<head, cachedTail, taken, got, producerVars, buf>>

DequeueTrustsCache ==   \* mutant: never reloads tail
  /\ cpc = "loadTail"
  /\ got' = Zero
  /\ cpc' = "idle"
  /\ UNCHANGED <<head, cachedTail, taken, producerVars, buf>>

DequeueLoadTail ==
  /\ cpc = "loadTail"
  /\ cachedTail' = tail
  /\ IF head = tail
       THEN cpc' = "idle" /\ got' = Zero
       ELSE cpc' = "take" /\ UNCHANGED got
  /\ UNCHANGED <<head, taken, producerVars, buf>>

DequeueTake ==
  /\ cpc = "take"
  /\ taken' = buf[Slot(head)]
  /\ cpc' = "clear"
  /\ UNCHANGED <<head, cachedTail, got, producerVars, buf>>

DequeueNoClear ==   \* mutant: leaves the reference in the slot
  /\ cpc = "clear"
  /\ cpc' = "release"
  /\ UNCHANGED <<head, cachedTail, taken, got, producerVars, buf>>

DequeueClear ==
  /\ cpc = "clear"
  /\ buf' = [buf EXCEPT ![Slot(head)] = Zero]
  /\ cpc' = "release"
  /\ UNCHANGED <<head, cachedTail, taken, got, producerVars>>

DequeueRelease ==
  /\ cpc = "release"
  /\ head' = Add(head, 1)
  /\ got' = taken
  /\ cpc' = "idle"
  /\ UNCHANGED <<cachedTail, taken, producerVars, buf>>
-----------------------------------------------------------------------------
Enqueue(g) ==
  \/ \E v \in Values : EnqueueLoadTail(g, v)
  \/ EnqueueLoadHead(g)
  \/ EnqueueWrite(g)
  \/ EnqueuePublish(g)

Dequeue ==
  \/ DequeueStart
  \/ DequeueLoadTail
  \/ DequeueTake
  \/ DequeueClear
  \/ DequeueRelease

Next == (\E g \in Goroutines : Enqueue(g)) \/ Dequeue

Spec == Init /\ [][Next]_vars

(* The consumer of a ring polls it again and again (workerLoop); nobody is *)
(* obliged to call Enqueue.                                                *)
FairSpec == Spec /\ WF_vars(Dequeue)
-----------------------------------------------------------------------------
(* Types.                                                                  *)
TypeOK ==
  /\ {head, cachedTail, tail, cachedHead} \subseteq Cursor
  /\ buf \in [Slots -> Values \cup {Zero}]
  /\ pc \in [Goroutines -> {"idle", "loadHead", "write", "publish"}]
  /\ localTail \in [Goroutines -> Cursor]
  /\ arg \in [Goroutines -> Values \cup {Zero}]
  /\ ok \in [Goroutines -> BOOLEAN]
  /\ met \in BOOLEAN
  /\ cpc \in {"idle", "loadTail", "take", "clear", "release"}
  /\ {taken, got} \subseteq Values \cup {Zero}

(* As long as no two calls of Enqueue have overlapped, the producer that   *)
(* is about to write a slot and the consumer that is about to read or      *)
(* clear one never mean the same slot: buf is plain memory (spsc.go 73,    *)
(* 92-93), so this is freedom from data races.                             *)
NoSlotRace ==
  \A g \in Goroutines :
    ~met /\ pc[g] = "write" /\ cpc \in {"take", "clear"}
      => Slot(localTail[g]) # Slot(head)

(* What a producer is about to publish is still the value it wrote: no     *)
(* other writer got at its slot.  This is the single-writer rule that the  *)
(* ring's comment says the scheduler keeps (spsc.go 6-9), and with a       *)
(* caller that does not pin its P it is broken (sched.go 121-125).         *)
PublishesItsOwn ==
  \A g \in Goroutines : pc[g] = "publish" => buf[Slot(localTail[g])] = arg[g]

(* As long as no two calls of Enqueue have overlapped, slots that hold     *)
(* nothing to be read are zeroed: the ring does not keep consumed events   *)
(* reachable (spsc.go 93, "help GC").  A slot counts as used from the      *)
(* producer's write to the consumer's clear.                               *)
FreeSlotsAreZero ==
  ~met =>
    \A i \in 0 .. Size - 1 :
      \/ i < Sub(tail, head) /\ ~(i = 0 /\ cpc = "release")
      \/ i = Sub(tail, head) /\ \E g \in Goroutines : pc[g] = "publish"
      \/ buf[Slot(Add(head, i))] = Zero

(* The strengthening of these that every step preserves until two calls    *)
(* overlap: one producer is inside; the four cursors lie in the order      *)
(* cachedHead, head, cachedTail, tail, at most Size apart; and each side's *)
(* program counter agrees with the cursors.                                *)
OneWriter ==
  \A g, h \in Goroutines : pc[g] # "idle" /\ pc[h] # "idle" => g = h

CursorOrder ==
  /\ Sub(tail, cachedTail) <= Sub(tail, head)
  /\ Sub(tail, head) <= Sub(tail, cachedHead)
  /\ Sub(tail, cachedHead) <= Size

ProducerInside ==
  \A g \in Goroutines :
    /\ pc[g] # "idle" => localTail[g] = tail /\ arg[g] \in Values
    /\ pc[g] \in {"write", "publish"} => Sub(tail, cachedHead) < Size

ConsumerInside ==
  /\ cpc \in {"take", "clear", "release"} => head # cachedTail
  /\ cpc = "clear" => taken = buf[Slot(head)]
  /\ cpc = "release" => taken \in Values

UsedSlotsHoldValues ==
  \A i \in 0 .. Size - 1 :
    i < Sub(tail, head) /\ ~(i = 0 /\ cpc = "release")
      => buf[Slot(Add(head, i))] \in Values

Disciplined ==
  /\ OneWriter
  /\ CursorOrder
  /\ ProducerInside
  /\ ConsumerInside
  /\ UsedSlotsHoldValues
  /\ PublishesItsOwn

IInv == ~met => Disciplined
-----------------------------------------------------------------------------
(* The queue that the ring stands for: the published slots from head on.   *)
(* An item leaves it when head is stored, after its slot was cleared.      *)
Contents ==
  [i \in 1 .. Sub(tail, head) |->
     IF i = 1 /\ cpc = "release" THEN taken ELSE buf[Slot(Add(head, i - 1))]]

Fifo == INSTANCE BoundedFifo WITH
  Callers <- Goroutines, Items <- Values, Capacity <- Size, Nothing <- Zero,
  queue <- Contents, accepted <- ok

(* Until two calls of Enqueue overlap, every Enqueue and Dequeue takes     *)
(* effect atomically, as in BoundedFifo: a publication appends, a refusal  *)
(* happens only on a full ring, a Dequeue returns the oldest item or finds *)
(* the ring empty.                                                         *)
RefinesFifo == Fifo!Init /\ [][Fifo!Next \/ met']_(Fifo!vars)

(* While the consumer polls, whatever is oldest in the ring is returned    *)
(* unless two calls of Enqueue overlap: the consumer's stale copy of tail  *)
(* never hides an item for good.                                           *)
OldestIsReturned ==
  \A v \in Values :
    (~met /\ tail # head /\ Head(Contents) = v) ~> (got = v \/ met)
=============================================================================
