------------------------------ MODULE FlowRing -----------------------------
(***************************************************************************)
(* The multi-producer ring RB of internal/impl/flow/bus.go, one action per *)
(* atomic access.  Producers claim an index by a compare-and-swap on tail  *)
(* and publish the slot by its sequence number; the one consumer of the    *)
(* shard takes a batch, handing each slot back by its sequence number, and *)
(* stores head once at the end.                                            *)
(*                                                                         *)
(* A slot whose sequence number is k is free for the push that claims      *)
(* index k; k + 1 means that push has published it.  The 64-bit indices    *)
(* are natural numbers here: a producer would have to sleep through 2^64   *)
(* pushes to tell the difference.                                          *)
(***************************************************************************)
EXTENDS Integers, Sequences

CONSTANTS
  Producers,
  Items,
  Nil,      \* the nil pointer
  Cap,      \* number of slots; at least 4 in the code (4 * batchSz)
  Batch,    \* length of the consumer's batch
  MaxTail   \* bound of the model: no push starts once tail is MaxTail

ASSUME FlowRingAssumption ==
  /\ Nil \notin Items
  /\ Cap \in Nat /\ Cap >= 2
  /\ Batch \in Nat \ {0}
  /\ MaxTail \in Nat

VARIABLES
  tail,   \* next index to claim
  head,   \* next index to read, as the consumer last stored it
  seq,    \* seq[s]: the sequence number of slot s
  data,   \* data[s]: the pointer in slot s
  pc,     \* pc[p]: the next access of p's push, or "idle"
  claim,  \* claim[p]: the tail that p's push loaded, its index once claimed
  arg,    \* arg[p]: what p pushes
  ok,     \* ok[p]: the result of p's last push
  cpc,    \* the next access of popBatch, or "idle"
  n,      \* how many items popBatch has taken so far
  taken,  \* the item popBatch last read
  got     \* the item popBatch last put in its batch

producerVars == <<pc, claim, arg, ok>>
consumerVars == <<head, cpc, n, taken, got>>
vars == <<tail, seq, data, producerVars, consumerVars>>

Slots == 0 .. Cap - 1
Slot(k) == k % Cap

Init ==
  /\ tail = 0 /\ head = 0
  /\ seq = [s \in Slots |-> s]
  /\ data = [s \in Slots |-> Nil]
  /\ pc = [p \in Producers |-> "idle"]
  /\ claim = [p \in Producers |-> 0]
  /\ arg = [p \in Producers |-> Nil]
  /\ ok = [p \in Producers |-> FALSE]
  /\ cpc = "idle" /\ n = 0 /\ taken = Nil /\ got = Nil
-----------------------------------------------------------------------------
(* push                                                                    *)
LoadTail(p) ==
  /\ claim' = [claim EXCEPT ![p] = tail]
  /\ pc' = [pc EXCEPT ![p] = "loadSeq"]

PushStart(p, item) ==
  /\ pc[p] = "idle" /\ tail < MaxTail
  /\ LoadTail(p)
  /\ arg' = [arg EXCEPT ![p] = item]
  /\ UNCHANGED <<tail, seq, data, ok, consumerVars>>

PushAgain(p) ==
  /\ pc[p] = "again"
  /\ LoadTail(p)
  /\ UNCHANGED <<tail, seq, data, arg, ok, consumerVars>>

PushLoadSeq(p) ==
  /\ pc[p] = "loadSeq"
  /\ LET diff == seq[Slot(claim[p])] - claim[p] IN
       \/ diff = 0 /\ pc' = [pc EXCEPT ![p] = "cas"] /\ UNCHANGED <<claim, arg, ok>>
       \/ diff > 0 /\ pc' = [pc EXCEPT ![p] = "again"] /\ UNCHANGED <<claim, arg, ok>>
       \/ /\ diff < 0
          /\ pc' = [pc EXCEPT ![p] = "idle"]
          /\ ok' = [ok EXCEPT ![p] = FALSE]
          /\ arg' = [arg EXCEPT ![p] = Nil]
          /\ claim' = [claim EXCEPT ![p] = 0]
  /\ UNCHANGED <<tail, seq, data, consumerVars>>

PushClaimByStore(p) ==   \* mutant: stores tail instead of comparing and swapping
  /\ pc[p] = "cas"
  /\ tail' = claim[p] + 1
  /\ pc' = [pc EXCEPT ![p] = "storeData"]
  /\ UNCHANGED <<seq, data, claim, arg, ok, consumerVars>>

PushClaim(p) ==
  /\ pc[p] = "cas"
  /\ \/ /\ tail = claim[p]
        /\ tail' = tail + 1
        /\ pc' = [pc EXCEPT ![p] = "storeData"]
     \/ /\ tail # claim[p]
        /\ pc' = [pc EXCEPT ![p] = "again"]
        /\ UNCHANGED tail
  /\ UNCHANGED <<seq, data, claim, arg, ok, consumerVars>>

PushStoreData(p) ==
  /\ pc[p] = "storeData"
  /\ data' = [data EXCEPT ![Slot(claim[p])] = arg[p]]
  /\ pc' = [pc EXCEPT ![p] = "storeSeq"]
  /\ UNCHANGED <<tail, seq, claim, arg, ok, consumerVars>>

PushStoreSeq(p) ==
  /\ pc[p] = "storeSeq"
  /\ seq' = [seq EXCEPT ![Slot(claim[p])] = claim[p] + 1]
  /\ pc' = [pc EXCEPT ![p] = "idle"]
  /\ ok' = [ok EXCEPT ![p] = TRUE]
  /\ arg' = [arg EXCEPT ![p] = Nil]
  /\ claim' = [claim EXCEPT ![p] = 0]
  /\ UNCHANGED <<tail, data, consumerVars>>
-----------------------------------------------------------------------------
(* popBatch; next is the index it looks at.                                *)
next == head + n

PopStart ==
  /\ cpc = "idle"
  /\ n' = 0
  /\ cpc' = "loadSeq"
  /\ UNCHANGED <<tail, seq, data, producerVars, head, taken, got>>

PopLoadTail ==   \* mutant: trusts tail instead of the slot's sequence number
  /\ cpc = "loadSeq"
  /\ cpc' = IF n < Batch /\ next < tail THEN "loadData" ELSE "storeHead"
  /\ UNCHANGED <<tail, seq, data, producerVars, head, n, taken, got>>

PopLoadSeq ==
  /\ cpc = "loadSeq"
  /\ cpc' = IF n < Batch /\ seq[Slot(next)] = next + 1 THEN "loadData" ELSE "storeHead"
  /\ UNCHANGED <<tail, seq, data, producerVars, head, n, taken, got>>

PopLoadData ==
  /\ cpc = "loadData"
  /\ taken' = data[Slot(next)]
  /\ cpc' = "clear"
  /\ UNCHANGED <<tail, seq, data, producerVars, head, n, got>>

PopClear ==
  /\ cpc = "clear"
  /\ data' = [data EXCEPT ![Slot(next)] = Nil]
  /\ cpc' = "storeSeq"
  /\ UNCHANGED <<tail, seq, producerVars, head, n, taken, got>>

PopStoreSeqSameRound ==   \* mutant: forgets to add the capacity
  /\ cpc = "storeSeq"
  /\ seq' = [seq EXCEPT ![Slot(next)] = next]
  /\ got' = taken
  /\ taken' = Nil
  /\ n' = n + 1
  /\ cpc' = "loadSeq"
  /\ UNCHANGED <<tail, data, producerVars, head>>

PopStoreSeq ==
  /\ cpc = "storeSeq"
  /\ seq' = [seq EXCEPT ![Slot(next)] = next + Cap]
  /\ got' = taken
  /\ taken' = Nil
  /\ n' = n + 1
  /\ cpc' = "loadSeq"
  /\ UNCHANGED <<tail, data, producerVars, head>>

PopStoreFullBatch ==   \* mutant: stores head only after a full batch
  /\ cpc = "storeHead"
  /\ head' = IF n = Batch THEN head + n ELSE head
  /\ n' = 0
  /\ cpc' = "idle"
  /\ UNCHANGED <<tail, seq, data, producerVars, taken, got>>

PopStoreHead ==
  /\ cpc = "storeHead"
  /\ head' = head + n
  /\ n' = 0
  /\ cpc' = "idle"
  /\ UNCHANGED <<tail, seq, data, producerVars, taken, got>>
-----------------------------------------------------------------------------
Push(p) ==
  \/ PushAgain(p)
  \/ PushLoadSeq(p)
  \/ PushClaim(p)
  \/ PushStoreData(p)
  \/ PushStoreSeq(p)

Pop ==
  \/ PopStart
  \/ PopLoadSeq
  \/ PopLoadData
  \/ PopClear
  \/ PopStoreSeq
  \/ PopStoreHead

Next ==
  \/ \E p \in Producers : Push(p) \/ \E item \in Items : PushStart(p, item)
  \/ Pop

Spec == Init /\ [][Next]_vars

(* A push that began is run on, and the consumer of a shard keeps polling  *)
(* (notify channel and ticker).                                            *)
FairSpec == Spec /\ WF_vars(Pop) /\ \A p \in Producers : WF_vars(Push(p))
-----------------------------------------------------------------------------
(* Types.                                                                  *)
TypeOK ==
  /\ tail \in Nat /\ head \in Nat
  /\ seq \in [Slots -> Nat]
  /\ data \in [Slots -> Items \cup {Nil}]
  /\ pc \in [Producers -> {"idle", "loadSeq", "cas", "again", "storeData", "storeSeq"}]
  /\ claim \in [Producers -> Nat]
  /\ arg \in [Producers -> Items \cup {Nil}]
  /\ ok \in [Producers -> BOOLEAN]
  /\ cpc \in {"idle", "loadSeq", "loadData", "clear", "storeSeq", "storeHead"}
  /\ n \in 0 .. Batch
  /\ {taken, got} \subseteq Items \cup {Nil}

Claimed(p) == pc[p] \in {"storeData", "storeSeq"}

(* Nobody touches a slot that is somebody else's: two producers inside     *)
(* their claims mean different slots, and neither means the slot the       *)
(* consumer is taking from (flow/bus.go 80-82, 103-105).                   *)
SlotsExclusive ==
  /\ \A p, q \in Producers :
       Claimed(p) /\ Claimed(q) /\ p # q => Slot(claim[p]) # Slot(claim[q])
  /\ \A p \in Producers :
       Claimed(p) /\ cpc \in {"loadData", "clear", "storeSeq"}
         => Slot(claim[p]) # Slot(next)

(* The sequence numbers say what each slot is: from next to tail claimed   *)
(* or published, from tail on free.                                        *)
SequenceBarrier ==
  /\ next <= tail /\ tail <= next + Cap
  /\ \A k \in next .. tail - 1 :
       \/ seq[Slot(k)] = k /\ \E p \in Producers : Claimed(p) /\ claim[p] = k
       \/ seq[Slot(k)] = k + 1 /\ ~\E p \in Producers : Claimed(p) /\ claim[p] = k
  /\ \A k \in tail .. next + Cap - 1 : seq[Slot(k)] = k

(* The queue that the ring stands for: the claimed indices in order, each  *)
(* with what its push brings.                                              *)
ItemAt(k) ==
  IF \E p \in Producers : Claimed(p) /\ claim[p] = k
    THEN arg[CHOOSE p \in Producers : Claimed(p) /\ claim[p] = k]
    ELSE IF k = next /\ cpc \in {"clear", "storeSeq"} THEN taken ELSE data[Slot(k)]

Contents == [i \in 1 .. tail - next |-> ItemAt(next + i - 1)]

(* The result a push is bound to have, from its claim on.                  *)
Accepted == [p \in Producers |-> Claimed(p) \/ ok[p]]

Fifo == INSTANCE BoundedFifo WITH
  Callers <- Producers, Capacity <- Cap, Nothing <- Nil,
  queue <- Contents, accepted <- Accepted

(* A push takes effect when its compare-and-swap succeeds, is refused only *)
(* when Cap items are in the ring, and popBatch takes the items in the     *)
(* order of the claims.  A popBatch that stops at an unpublished slot is   *)
(* no step of the queue: unlike a Poll it may find nothing in a queue that *)
(* is not empty.                                                           *)
RefinesFifo == Fifo!Spec

(* A slow producer holds up the items behind its claim only until it       *)
(* publishes: the oldest item is always taken in the end.                  *)
OldestIsTaken ==
  \A item \in Items :
    (next < tail /\ ItemAt(next) = item) ~> (got = item)
=============================================================================
