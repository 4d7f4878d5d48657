--------------------------- MODULE FlowRing_proofs --------------------------
(* Theorems about FlowRing, for rings of every size, any number of         *)
(* producers and pushes without bound: whose a slot is, and that the ring  *)
(* implements BoundedFifo.                                                 *)
EXTENDS FlowRing, TLAPS

(***************************************************************************)
(* The arithmetic of slots.                                                *)
(***************************************************************************)
LEMMA Multiple ==
  ASSUME NEW s \in Nat, NEW m \in Int, 0 < s * m, s * m < s
  PROVE  FALSE
<1>1. CASE m <= 0
  <2>1. s * m <= 0 BY <1>1, SMT
  <2> QED BY <2>1
<1>2. CASE m >= 1
  <2>1. s * m >= s BY <1>2, SMT
  <2> QED BY <2>1
<1> QED BY <1>1, <1>2

LEMMA Division ==
  ASSUME NEW k \in Nat
  PROVE  /\ k \div Cap \in Int
         /\ k = Cap * (k \div Cap) + Slot(k)
         /\ Slot(k) \in Slots
BY FlowRingAssumption DEF Slot, Slots

LEMMA FirstRound ==
  ASSUME NEW k \in Nat, k < Cap
  PROVE  k \in Slots /\ Slot(k) = k
BY FlowRingAssumption DEF Slot, Slots

(* Indices less than a round apart have different slots.                   *)
LEMMA SlotsDiffer ==
  ASSUME NEW j \in Nat, NEW k \in Nat, j < k, k < j + Cap
  PROVE  Slot(j) # Slot(k)
<1> DEFINE qj == j \div Cap
           qk == k \div Cap
<1>1. Cap \in Nat BY FlowRingAssumption
<1>2. /\ qj \in Int /\ qk \in Int
      /\ j = Cap * qj + Slot(j)
      /\ k = Cap * qk + Slot(k)
      /\ Slot(j) \in Slots /\ Slot(k) \in Slots
  BY Division
<1> HIDE DEF qj, qk
<1>3. SUFFICES ASSUME Slot(j) = Slot(k) PROVE FALSE
  OBVIOUS
<1>4. k - j = Cap * (qk - qj) /\ qk - qj \in Int
  BY <1>1, <1>2, <1>3, SMT DEF Slots
<1>5. 0 < Cap * (qk - qj) /\ Cap * (qk - qj) < Cap
  BY <1>1, <1>4
<1> QED BY <1>1, <1>4, <1>5, Multiple

(* Division has one result.                                                *)
LEMMA SameRemainder ==
  ASSUME NEW s \in Nat \ {0}, NEW p \in Int, NEW q \in Int,
         NEW r \in 0 .. s - 1, NEW t \in 0 .. s - 1,
         s * p + r = s * q + t
  PROVE  r = t
<1>1. s * (p - q) = t - r BY SMT
<1>2. s * (q - p) = r - t BY SMT
<1> QED BY <1>1, <1>2, Multiple

(* A round on is the same slot again.                                      *)
LEMMA FullRound ==
  ASSUME NEW k \in Nat
  PROVE  Slot(k + Cap) = Slot(k)
<1>1. Cap \in Nat \ {0} /\ k + Cap \in Nat BY FlowRingAssumption
<1>2. PICK q \in Int, r \in 0 .. Cap - 1 : k = Cap * q + r /\ Slot(k) = r
  BY Division DEF Slots
<1>3. PICK p \in Int, t \in 0 .. Cap - 1 : k + Cap = Cap * p + t /\ Slot(k + Cap) = t
  <2>1. /\ (k + Cap) \div Cap \in Int
        /\ k + Cap = Cap * ((k + Cap) \div Cap) + Slot(k + Cap)
        /\ Slot(k + Cap) \in Slots
    BY <1>1, Division
  <2> QED BY <2>1, Zenon DEF Slots
<1>4. k + Cap = Cap * (q + 1) + r BY <1>1, <1>2, SMT
<1>5. q + 1 \in Int /\ Cap * p + t = Cap * (q + 1) + r BY <1>3, <1>4
<1>6. t = r BY <1>1, <1>5, SameRemainder
<1> QED BY <1>2, <1>3, <1>6
-----------------------------------------------------------------------------
(***************************************************************************)
(* The inductive invariant.                                                *)
(***************************************************************************)
Window == next <= tail /\ tail <= next + Cap

(* A producer inside its claim has a slot nobody has published or freed.   *)
ClaimsInside ==
  \A p \in Producers :
    Claimed(p) => next <= claim[p] /\ claim[p] < tail /\ seq[Slot(claim[p])] = claim[p]

ClaimsDiffer ==
  \A p, q \in Producers : Claimed(p) /\ Claimed(q) /\ p # q => claim[p] # claim[q]

Published ==
  \A k \in Nat :
    next <= k /\ k < tail =>
      seq[Slot(k)] = k + 1 \/ \E p \in Producers : Claimed(p) /\ claim[p] = k

Free == \A k \in Nat : tail <= k /\ k < next + Cap => seq[Slot(k)] = k

(* What a producer knows between its load of tail and its claim.           *)
Loaded ==
  \A p \in Producers :
    /\ pc[p] \in {"loadSeq", "cas"} => claim[p] <= tail
    /\ pc[p] = "cas" /\ claim[p] = tail => tail < next + Cap

(* What the consumer knows between its look at a slot and its release.     *)
Taking ==
  /\ cpc \in {"loadData", "clear", "storeSeq"} =>
       n < Batch /\ next < tail /\ seq[Slot(next)] = next + 1
  /\ cpc = "idle" => n = 0

Claims == ClaimsInside /\ ClaimsDiffer
RingInv == TypeOK /\ Window /\ Claims /\ Published /\ Free /\ Loaded /\ Taking

(* Different indices of one window of Cap have different slots.            *)
LEMMA WindowSlots ==
  ASSUME NEW h \in Nat, NEW j \in Nat, NEW k \in Nat,
         h <= j, j < h + Cap, h <= k, k < h + Cap, j # k
  PROVE  Slot(j) # Slot(k)
<1>1. Cap \in Nat BY FlowRingAssumption
<1>2. CASE j < k BY <1>1, <1>2, SlotsDiffer
<1>3. CASE k < j BY <1>1, <1>3, SlotsDiffer
<1> QED BY <1>2, <1>3

LEMMA TypesHold == TypeOK /\ Taking /\ [Next]_vars => TypeOK'
<1> SUFFICES ASSUME TypeOK, Taking, [Next]_vars PROVE TypeOK'
  OBVIOUS
<1> USE FlowRingAssumption
<1>0. \A k \in Nat : Slot(k) \in Slots
  BY Division
<1>1. ASSUME NEW p \in Producers, NEW item \in Items, PushStart(p, item) PROVE TypeOK'
  BY <1>1 DEF TypeOK, PushStart, LoadTail, consumerVars
<1>2. ASSUME NEW p \in Producers, PushAgain(p) PROVE TypeOK'
  BY <1>2 DEF TypeOK, PushAgain, LoadTail, consumerVars
<1>3. ASSUME NEW p \in Producers, PushLoadSeq(p) PROVE TypeOK'
  <2>1. /\ pc' \in [Producers -> {"idle", "loadSeq", "cas", "again", "storeData", "storeSeq"}]
        /\ claim' \in [Producers -> Nat]
        /\ arg' \in [Producers -> Items \cup {Nil}]
        /\ ok' \in [Producers -> BOOLEAN]
    <3> USE DEF TypeOK
    <3>1. CASE UNCHANGED <<claim, arg, ok>> BY <1>3, <3>1 DEF PushLoadSeq
    <3>2. CASE ~UNCHANGED <<claim, arg, ok>>
      <4>1. /\ pc' = [pc EXCEPT ![p] = "idle"]
            /\ ok' = [ok EXCEPT ![p] = FALSE]
            /\ arg' = [arg EXCEPT ![p] = Nil]
            /\ claim' = [claim EXCEPT ![p] = 0]
        BY <1>3, <3>2 DEF PushLoadSeq
      <4> QED BY <4>1
    <3> QED BY <3>1, <3>2
  <2> QED BY <1>3, <2>1 DEF TypeOK, PushLoadSeq, consumerVars
<1>4. ASSUME NEW p \in Producers, PushClaim(p) PROVE TypeOK'
  BY <1>4 DEF TypeOK, PushClaim, consumerVars
<1>5. ASSUME NEW p \in Producers, PushStoreData(p) PROVE TypeOK'
  BY <1>5 DEF TypeOK, PushStoreData, consumerVars
<1>6. ASSUME NEW p \in Producers, PushStoreSeq(p) PROVE TypeOK'
  <2>1. claim[p] + 1 \in Nat BY DEF TypeOK
  <2>2. seq' \in [Slots -> Nat] BY <1>6, <2>1 DEF TypeOK, PushStoreSeq
  <2> QED BY <1>6, <2>2 DEF TypeOK, PushStoreSeq, consumerVars
<1>7. CASE PopStart
  BY <1>7 DEF TypeOK, PopStart, producerVars
<1>8. CASE PopLoadSeq
  BY <1>8 DEF TypeOK, PopLoadSeq, producerVars
<1>9. CASE PopLoadData
  <2>1. next \in Nat BY DEF TypeOK, next
  <2>2. data[Slot(next)] \in Items \cup {Nil} BY <1>0, <2>1 DEF TypeOK
  <2> QED BY <1>9, <2>2 DEF TypeOK, PopLoadData, producerVars
<1>10. CASE PopClear
  BY <1>10 DEF TypeOK, PopClear, producerVars
<1>11. CASE PopStoreSeq
  <2>1. next + Cap \in Nat BY DEF TypeOK, next
  <2>2. n < Batch BY <1>11 DEF Taking, PopStoreSeq
  <2>3. n' \in 0 .. Batch BY <1>11, <2>2 DEF TypeOK, PopStoreSeq
  <2>4. seq' \in [Slots -> Nat] BY <1>11, <2>1 DEF TypeOK, PopStoreSeq
  <2> QED BY <1>11, <2>3, <2>4 DEF TypeOK, PopStoreSeq, producerVars
<1>12. CASE PopStoreHead
  BY <1>12 DEF TypeOK, PopStoreHead, producerVars
<1>13. CASE UNCHANGED vars
  BY <1>13 DEF TypeOK, vars, producerVars, consumerVars
<1> QED
  BY <1>1, <1>2, <1>3, <1>4, <1>5, <1>6, <1>7, <1>8, <1>9, <1>10, <1>11, <1>12, <1>13
  DEF Next, Push, Pop

(***************************************************************************)
(* The steps that move neither an index nor a sequence number.             *)
(***************************************************************************)
LEMMA QuietProducer ==
  ASSUME RingInv, UNCHANGED <<tail, head, n, cpc, seq>>,
         \A q \in Producers : Claimed(q)' = Claimed(q) /\ (Claimed(q) => claim'[q] = claim[q])
  PROVE  (Window /\ Claims /\ Published /\ Free /\ Taking)'
<1>1. next' = next BY DEF next
<1>2. Window' BY <1>1 DEF RingInv, Window
<1>3. ClaimsInside' BY <1>1 DEF RingInv, Claims, ClaimsInside
<1>4. ClaimsDiffer' BY DEF RingInv, Claims, ClaimsDiffer
<1>5. Published' BY <1>1 DEF RingInv, Published
<1>6. Free' BY <1>1 DEF RingInv, Free
<1>7. Taking' BY <1>1 DEF RingInv, Taking
<1> QED BY <1>2, <1>3, <1>4, <1>5, <1>6, <1>7 DEF Claims

LEMMA QuietConsumer ==
  ASSUME RingInv, UNCHANGED <<tail, seq, producerVars>>, next' = next
  PROVE  (Window /\ Claims /\ Published /\ Free /\ Loaded)'
<1>1. \A q \in Producers : Claimed(q)' = Claimed(q) BY DEF Claimed, producerVars
<1>2. Window' BY DEF RingInv, Window
<1>3. ClaimsInside' BY <1>1 DEF RingInv, Claims, ClaimsInside, producerVars
<1>4. ClaimsDiffer' BY <1>1 DEF RingInv, Claims, ClaimsDiffer, producerVars
<1>5. Published' BY <1>1 DEF RingInv, Published, producerVars
<1>6. Free' BY DEF RingInv, Free
<1>7. Loaded' BY DEF RingInv, Loaded, producerVars
<1> QED BY <1>2, <1>3, <1>4, <1>5, <1>6, <1>7 DEF Claims

(***************************************************************************)
(* The steps of push.                                                      *)
(***************************************************************************)
Rest == Window /\ Claims /\ Published /\ Free /\ Loaded /\ Taking

LEMMA LoadsTail ==
  ASSUME RingInv, NEW p \in Producers, ~Claimed(p), LoadTail(p),
         UNCHANGED <<tail, head, n, cpc, seq>>
  PROVE  Rest'
<1>1. \A q \in Producers : Claimed(q)' = Claimed(q) /\ (Claimed(q) => claim'[q] = claim[q])
  BY DEF RingInv, TypeOK, LoadTail, Claimed
<1>2. (Window /\ Claims /\ Published /\ Free /\ Taking)' BY <1>1, QuietProducer
<1>3. Loaded' BY DEF RingInv, TypeOK, Loaded, LoadTail, next
<1> QED BY <1>2, <1>3 DEF Rest

LEMMA LoadsSeq ==
  ASSUME RingInv, NEW p \in Producers, PushLoadSeq(p)
  PROVE  Rest'
<1>1. UNCHANGED <<tail, head, n, cpc, seq>> BY DEF PushLoadSeq, consumerVars
<1>2. \A q \in Producers : Claimed(q)' = Claimed(q) /\ (Claimed(q) => claim'[q] = claim[q])
  BY DEF RingInv, TypeOK, PushLoadSeq, Claimed
<1>3. (Window /\ Claims /\ Published /\ Free /\ Taking)' BY <1>1, <1>2, QuietProducer
<1>4. next' = next BY <1>1 DEF next
<1>5. ASSUME pc'[p] = "cas", claim'[p] = tail PROVE tail < next + Cap
  <2>1. seq[Slot(tail)] = tail
    <3>1. claim[p] \in Nat /\ Slot(claim[p]) \in Slots /\ seq[Slot(claim[p])] \in Nat
      BY Division DEF RingInv, TypeOK
    <3>2. pc' = [pc EXCEPT ![p] = "cas"] \/ pc' = [pc EXCEPT ![p] = "again"]
            \/ pc' = [pc EXCEPT ![p] = "idle"]
      BY DEF PushLoadSeq
    <3>3. seq[Slot(claim[p])] - claim[p] = 0 /\ claim' = claim
      BY <1>5, <3>2 DEF RingInv, TypeOK, PushLoadSeq
    <3>4. seq[Slot(claim[p])] = claim[p] BY <3>1, <3>3
    <3> QED BY <1>5, <3>3, <3>4
  <2>2. SUFFICES ASSUME tail = next + Cap PROVE FALSE
    BY FlowRingAssumption DEF RingInv, TypeOK, Window, next
  <2>3. next \in Nat /\ next < tail /\ Cap \in Nat /\ Cap >= 2
    BY <2>2, FlowRingAssumption DEF RingInv, TypeOK, next
  <2>4. Slot(tail) = Slot(next) BY <2>2, <2>3, FullRound
  <2>5. seq[Slot(next)] = next + 1 \/ seq[Slot(next)] = next
    BY <2>3 DEF RingInv, Published, Claims, ClaimsInside
  <2> QED BY <2>1, <2>2, <2>3, <2>4, <2>5
<1>6. Loaded'
  <2> SUFFICES ASSUME NEW q \in Producers
               PROVE  /\ pc'[q] \in {"loadSeq", "cas"} => claim'[q] <= tail
                      /\ pc'[q] = "cas" /\ claim'[q] = tail => tail < next + Cap
    BY <1>1, <1>4 DEF Loaded
  <2>1. CASE q = p
    BY <1>5, <2>1 DEF RingInv, TypeOK, Loaded, PushLoadSeq
  <2>2. CASE q # p
    BY <2>2 DEF RingInv, TypeOK, Loaded, PushLoadSeq
  <2> QED BY <2>1, <2>2
<1> QED BY <1>3, <1>6 DEF Rest

(* The compare-and-swap.                                                   *)
LEMMA ClaimsIndex ==
  ASSUME RingInv, NEW p \in Producers, PushClaim(p)
  PROVE  Rest'
<1> DEFINE Swapped == tail = claim[p] /\ tail' = tail + 1 /\ pc' = [pc EXCEPT ![p] = "storeData"]
<1>0. UNCHANGED <<head, n, cpc, seq, claim>> /\ pc[p] = "cas" BY DEF PushClaim, consumerVars
<1>1. CASE ~Swapped
  <2>1. tail' = tail /\ pc' = [pc EXCEPT ![p] = "again"] BY <1>1 DEF PushClaim
  <2>2. \A q \in Producers : Claimed(q)' = Claimed(q) /\ (Claimed(q) => claim'[q] = claim[q])
    BY <1>0, <2>1 DEF RingInv, TypeOK, Claimed
  <2>3. (Window /\ Claims /\ Published /\ Free /\ Taking)'
    BY <1>0, <2>1, <2>2, QuietProducer
  <2>4. Loaded' BY <1>0, <2>1 DEF RingInv, TypeOK, Loaded, next
  <2> QED BY <2>3, <2>4 DEF Rest
<1>2. CASE Swapped
  <2>1. next' = next /\ next \in Nat /\ tail \in Nat /\ Cap \in Nat
    BY <1>0, FlowRingAssumption DEF RingInv, TypeOK, next
  <2>2. tail < next + Cap /\ next <= tail
    BY <1>0, <1>2 DEF RingInv, Loaded, Window
  <2>3. seq[Slot(tail)] = tail BY <2>1, <2>2 DEF RingInv, Free
  <2>4. /\ \A q \in Producers \ {p} : Claimed(q)' = Claimed(q)
        /\ Claimed(p)' /\ ~Claimed(p)
    BY <1>0, <1>2 DEF RingInv, TypeOK, Claimed
  <2>5. \A q \in Producers : claim[q] \in Nat BY DEF RingInv, TypeOK
  <2>6. Window' BY <1>2, <2>1, <2>2 DEF Window
  <2>7. ClaimsInside'
    BY <1>0, <1>2, <2>1, <2>2, <2>3, <2>4, <2>5 DEF RingInv, Claims, ClaimsInside
  <2>8. ClaimsDiffer'
    <3>1. \A q \in Producers : Claimed(q) => claim[q] # claim[p]
      BY <1>2, <2>1, <2>5 DEF RingInv, Claims, ClaimsInside
    <3> QED BY <1>0, <2>4, <3>1 DEF RingInv, Claims, ClaimsDiffer
  <2>9. Published'
    <3> SUFFICES ASSUME NEW k \in Nat, next <= k, k < tail + 1
                 PROVE  seq[Slot(k)] = k + 1 \/ \E q \in Producers : Claimed(q)' /\ claim[q] = k
      BY <1>0, <1>2, <2>1 DEF Published
    <3>1. CASE k = tail BY <1>2, <2>4, <3>1
    <3>2. CASE k < tail
      <4>1. seq[Slot(k)] = k + 1 \/ \E q \in Producers : Claimed(q) /\ claim[q] = k
        BY <3>2 DEF RingInv, Published
      <4> QED BY <2>4, <4>1
    <3> QED BY <2>1, <3>1, <3>2
  <2>10. Free' BY <1>0, <1>2, <2>1 DEF RingInv, Free
  <2>11. Loaded'
    <3> SUFFICES ASSUME NEW q \in Producers
                 PROVE  /\ pc'[q] \in {"loadSeq", "cas"} => claim[q] <= tail + 1
                        /\ pc'[q] = "cas" => claim[q] # tail + 1
      BY <1>0, <1>2, <2>1 DEF Loaded
    <3>1. pc'[q] \in {"loadSeq", "cas"} => pc[q] = pc'[q]
      BY <1>2 DEF RingInv, TypeOK
    <3>2. pc'[q] \in {"loadSeq", "cas"} => claim[q] <= tail
      BY <3>1 DEF RingInv, Loaded
    <3> QED BY <2>1, <2>5, <3>2
  <2>12. Taking' BY <1>0, <1>2, <2>1 DEF RingInv, Taking
  <2> QED BY <2>6, <2>7, <2>8, <2>9, <2>10, <2>11, <2>12 DEF Rest, Claims
<1> QED BY <1>1, <1>2

LEMMA StoresData ==
  ASSUME RingInv, NEW p \in Producers, PushStoreData(p)
  PROVE  Rest'
<1>1. UNCHANGED <<tail, head, n, cpc, seq, claim>> /\ pc[p] = "storeData"
      /\ pc' = [pc EXCEPT ![p] = "storeSeq"]
  BY DEF PushStoreData, consumerVars
<1>2. \A q \in Producers : Claimed(q)' = Claimed(q) /\ (Claimed(q) => claim'[q] = claim[q])
  BY <1>1 DEF RingInv, TypeOK, Claimed
<1>3. (Window /\ Claims /\ Published /\ Free /\ Taking)' BY <1>1, <1>2, QuietProducer
<1>4. Loaded' BY <1>1 DEF RingInv, TypeOK, Loaded, next
<1> QED BY <1>3, <1>4 DEF Rest

(* The publication.                                                        *)
LEMMA StoresSeq ==
  ASSUME RingInv, NEW p \in Producers, PushStoreSeq(p)
  PROVE  Rest'
<1> DEFINE c == claim[p]
<1>1. /\ UNCHANGED <<tail, head, n, cpc>> /\ pc[p] = "storeSeq"
      /\ seq' = [seq EXCEPT ![Slot(c)] = c + 1]
      /\ pc' = [pc EXCEPT ![p] = "idle"]
      /\ claim' = [claim EXCEPT ![p] = 0]
  BY DEF PushStoreSeq, consumerVars
<1>2. next' = next /\ next \in Nat /\ tail \in Nat /\ Cap \in Nat /\ c \in Nat
  BY <1>1, FlowRingAssumption DEF RingInv, TypeOK, next
<1>3. Claimed(p) /\ next <= c /\ c < tail /\ seq[Slot(c)] = c
  BY <1>1 DEF RingInv, Claims, ClaimsInside, Claimed
<1>4. next <= tail /\ tail <= next + Cap BY DEF RingInv, Window
<1>5. /\ \A q \in Producers \ {p} : Claimed(q)' = Claimed(q) /\ claim'[q] = claim[q]
      /\ ~Claimed(p)'
  BY <1>1 DEF RingInv, TypeOK, Claimed
<1>6. ASSUME NEW k \in Nat, next <= k, k < next + Cap, k # c
      PROVE  seq'[Slot(k)] = seq[Slot(k)]
  <2>1. Slot(k) # Slot(c) BY <1>2, <1>3, <1>4, <1>6, WindowSlots
  <2>2. Slot(k) \in Slots BY Division
  <2> QED BY <1>1, <2>1, <2>2 DEF RingInv, TypeOK
<1>7. seq'[Slot(c)] = c + 1
  <2>1. Slot(c) \in Slots BY <1>2, Division
  <2> QED BY <1>1, <2>1 DEF RingInv, TypeOK
<1> HIDE DEF c
<1>8. \A q \in Producers : claim[q] \in Nat BY DEF RingInv, TypeOK
<1>9. Window' BY <1>1, <1>2, <1>4 DEF Window
<1>10. ClaimsInside'
  <2> SUFFICES ASSUME NEW q \in Producers, Claimed(q)'
               PROVE  next <= claim'[q] /\ claim'[q] < tail /\ seq'[Slot(claim'[q])] = claim'[q]
    BY <1>1, <1>2 DEF ClaimsInside
  <2>1. q # p /\ Claimed(q) /\ claim'[q] = claim[q] BY <1>5
  <2>2. next <= claim[q] /\ claim[q] < tail /\ seq[Slot(claim[q])] = claim[q]
    BY <2>1 DEF RingInv, Claims, ClaimsInside
  <2>3. claim[q] # c BY <1>3, <2>1 DEF RingInv, Claims, ClaimsDiffer, c
  <2>4. claim[q] < next + Cap BY <1>2, <1>4, <1>8, <2>2
  <2> QED BY <1>6, <1>8, <2>1, <2>2, <2>3, <2>4
<1>11. ClaimsDiffer' BY <1>5 DEF RingInv, Claims, ClaimsDiffer
<1>12. Published'
  <2> SUFFICES ASSUME NEW k \in Nat, next <= k, k < tail
               PROVE  seq'[Slot(k)] = k + 1 \/ \E q \in Producers : Claimed(q)' /\ claim'[q] = k
    BY <1>1, <1>2 DEF Published
  <2>1. CASE k = c BY <1>7, <2>1
  <2>2. CASE k # c
    <3>1. seq'[Slot(k)] = seq[Slot(k)] BY <1>2, <1>4, <1>6, <2>2
    <3>2. seq[Slot(k)] = k + 1 \/ \E q \in Producers : Claimed(q) /\ claim[q] = k
      BY DEF RingInv, Published
    <3>3. \A q \in Producers : claim[q] = k => q # p BY <2>2 DEF c
    <3> QED BY <1>5, <3>1, <3>2, <3>3
  <2> QED BY <2>1, <2>2
<1>13. Free'
  <2> SUFFICES ASSUME NEW k \in Nat, tail <= k, k < next + Cap PROVE seq'[Slot(k)] = k
    BY <1>1, <1>2 DEF Free
  <2>1. seq[Slot(k)] = k BY DEF RingInv, Free
  <2> QED BY <1>2, <1>3, <1>4, <1>6, <2>1
<1>14. Loaded'
  <2> SUFFICES ASSUME NEW q \in Producers
               PROVE  /\ pc'[q] \in {"loadSeq", "cas"} => claim'[q] <= tail
                      /\ pc'[q] = "cas" /\ claim'[q] = tail => tail < next + Cap
    BY <1>1, <1>2 DEF Loaded
  <2>1. pc'[q] \in {"loadSeq", "cas"} => pc[q] = pc'[q] /\ claim'[q] = claim[q]
    BY <1>1 DEF RingInv, TypeOK
  <2> QED BY <2>1 DEF RingInv, Loaded
<1>15. Taking'
  <2>1. ASSUME cpc \in {"loadData", "clear", "storeSeq"}
        PROVE  n < Batch /\ next < tail /\ seq'[Slot(next)] = next + 1
    <3>1. n < Batch /\ next < tail /\ seq[Slot(next)] = next + 1
      BY <2>1 DEF RingInv, Taking
    <3>2. next # c BY <1>2, <1>3, <3>1
    <3> QED BY <1>2, <1>4, <1>6, <3>1, <3>2
  <2> QED BY <1>1, <1>2, <2>1 DEF RingInv, Taking
<1> QED BY <1>9, <1>10, <1>11, <1>12, <1>13, <1>14, <1>15 DEF Rest, Claims

(***************************************************************************)
(* The steps of popBatch.                                                  *)
(***************************************************************************)
LEMMA Looks ==
  ASSUME RingInv, PopStart \/ PopLoadSeq \/ PopLoadData \/ PopClear \/ PopStoreHead
  PROVE  Rest'
<1>1. UNCHANGED <<tail, seq, producerVars>>
  BY DEF PopStart, PopLoadSeq, PopLoadData, PopClear, PopStoreHead
<1>2. next' = next
  <2>1. cpc = "idle" => n = 0 BY DEF RingInv, Taking
  <2>2. head \in Nat /\ n \in Nat BY DEF RingInv, TypeOK
  <2> QED
    BY <2>1, <2>2 DEF next, PopStart, PopLoadSeq, PopLoadData, PopClear, PopStoreHead
<1>3. (Window /\ Claims /\ Published /\ Free /\ Loaded)' BY <1>1, <1>2, QuietConsumer
<1>4. Taking'
  <2>1. CASE PopLoadSeq
    <3>1. n' = n /\ UNCHANGED <<tail, seq>> /\ cpc' \in {"loadData", "storeHead"}
          /\ (cpc' = "loadData" => n < Batch /\ seq[Slot(next)] = next + 1)
      BY <2>1 DEF PopLoadSeq
    <3>2. ASSUME seq[Slot(next)] = next + 1 PROVE next < tail
      <4>1. next \in Nat /\ tail \in Nat /\ Cap \in Nat /\ Cap >= 2 /\ next <= tail
        BY FlowRingAssumption DEF RingInv, TypeOK, Window, next
      <4>2. next = tail => seq[Slot(next)] = next BY <4>1 DEF RingInv, Free
      <4> QED BY <3>2, <4>1, <4>2
    <3> QED BY <1>2, <3>1, <3>2 DEF Taking
  <2>2. CASE PopStart \/ PopLoadData \/ PopClear \/ PopStoreHead
    BY <1>1, <1>2, <2>2
    DEF RingInv, Taking, PopStart, PopLoadData, PopClear, PopStoreHead
  <2> QED BY <2>1, <2>2
<1> QED BY <1>3, <1>4 DEF Rest

(* The release of a slot.                                                  *)
LEMMA Releases ==
  ASSUME RingInv, PopStoreSeq
  PROVE  Rest'
<1> DEFINE h == next
<1>1. /\ UNCHANGED <<tail, head, producerVars>> /\ cpc = "storeSeq" /\ cpc' = "loadSeq"
      /\ seq' = [seq EXCEPT ![Slot(h)] = h + Cap] /\ n' = n + 1
  BY DEF PopStoreSeq
<1>2. h \in Nat /\ tail \in Nat /\ Cap \in Nat /\ Cap >= 2
  BY FlowRingAssumption DEF RingInv, TypeOK, next
<1>3. next' = h + 1 BY <1>1 DEF RingInv, TypeOK, next
<1>4. h < tail /\ tail <= h + Cap /\ seq[Slot(h)] = h + 1
  BY <1>1 DEF RingInv, Taking, Window
<1>5. ASSUME NEW k \in Nat, h < k, k < h + Cap
      PROVE  seq'[Slot(k)] = seq[Slot(k)]
  <2>1. Slot(k) # Slot(h) BY <1>2, <1>5, SlotsDiffer
  <2>2. Slot(k) \in Slots BY Division
  <2> QED BY <1>1, <2>1, <2>2 DEF RingInv, TypeOK
<1>6. seq'[Slot(h + Cap)] = h + Cap
  <2>1. Slot(h) \in Slots BY <1>2, Division
  <2>2. seq'[Slot(h)] = h + Cap BY <1>1, <2>1 DEF RingInv, TypeOK
  <2>3. Slot(h + Cap) = Slot(h) BY <1>2, FullRound
  <2> QED BY <2>2, <2>3
<1>7. \A q \in Producers : claim[q] \in Nat /\ Claimed(q)' = Claimed(q)
  BY <1>1 DEF RingInv, TypeOK, Claimed, producerVars
<1>8. ASSUME NEW q \in Producers, Claimed(q)
      PROVE  h < claim[q] /\ claim[q] < tail /\ seq[Slot(claim[q])] = claim[q]
  <2>1. h <= claim[q] /\ claim[q] < tail /\ seq[Slot(claim[q])] = claim[q]
    BY <1>8 DEF RingInv, Claims, ClaimsInside
  <2>2. claim[q] # h BY <1>2, <1>4, <2>1
  <2> QED BY <1>2, <1>7, <2>1, <2>2
<1> HIDE DEF h
<1>9. Window' BY <1>1, <1>2, <1>3, <1>4 DEF Window
<1>10. ClaimsInside'
  <2> SUFFICES ASSUME NEW q \in Producers, Claimed(q)
               PROVE  h + 1 <= claim[q] /\ claim[q] < tail /\ seq'[Slot(claim[q])] = claim[q]
    BY <1>1, <1>3, <1>7 DEF ClaimsInside, producerVars
  <2>1. h < claim[q] /\ claim[q] < tail /\ seq[Slot(claim[q])] = claim[q] BY <1>8
  <2>2. claim[q] \in Nat BY <1>7
  <2> QED BY <1>2, <1>4, <1>5, <2>1, <2>2
<1>11. ClaimsDiffer' BY <1>1, <1>7 DEF RingInv, Claims, ClaimsDiffer, producerVars
<1>12. Published'
  <2> SUFFICES ASSUME NEW k \in Nat, h + 1 <= k, k < tail
               PROVE  seq'[Slot(k)] = k + 1 \/ \E q \in Producers : Claimed(q) /\ claim[q] = k
    BY <1>1, <1>3, <1>7 DEF Published, producerVars
  <2>1. seq[Slot(k)] = k + 1 \/ \E q \in Producers : Claimed(q) /\ claim[q] = k
    BY <1>2 DEF RingInv, Published, h
  <2> QED BY <1>2, <1>4, <1>5, <2>1
<1>13. Free'
  <2> SUFFICES ASSUME NEW k \in Nat, tail <= k, k < h + 1 + Cap PROVE seq'[Slot(k)] = k
    BY <1>1, <1>3 DEF Free
  <2>1. CASE k = h + Cap BY <1>6, <2>1
  <2>2. CASE k # h + Cap
    <3>1. k < h + Cap BY <1>2, <2>2
    <3>2. seq[Slot(k)] = k BY <3>1 DEF RingInv, Free, h
    <3> QED BY <1>2, <1>4, <1>5, <3>1, <3>2
  <2> QED BY <2>1, <2>2
<1>14. Loaded'
  <2> SUFFICES ASSUME NEW q \in Producers
               PROVE  /\ pc[q] \in {"loadSeq", "cas"} => claim[q] <= tail
                      /\ pc[q] = "cas" /\ claim[q] = tail => tail < h + 1 + Cap
    BY <1>1, <1>3 DEF Loaded, producerVars
  <2> QED BY <1>2, <1>4 DEF RingInv, Loaded
<1>15. Taking' BY <1>1 DEF Taking
<1> QED BY <1>9, <1>10, <1>11, <1>12, <1>13, <1>14, <1>15 DEF Rest, Claims
-----------------------------------------------------------------------------
LEMMA Initially == Init => RingInv
<1> SUFFICES ASSUME Init PROVE RingInv
  OBVIOUS
<1> USE FlowRingAssumption DEF Init
<1>1. TypeOK BY DEF TypeOK, Slots
<1>2. Window BY DEF Window, next
<1>3. \A p \in Producers : ~Claimed(p) BY DEF Claimed
<1>4. Claims /\ Published
  BY <1>3 DEF Claims, ClaimsInside, ClaimsDiffer, Published, next
<1>5. Free
  <2> SUFFICES ASSUME NEW k \in Nat, k < Cap PROVE seq[Slot(k)] = k
    BY DEF Free, next
  <2>1. k \in Slots /\ Slot(k) = k BY FirstRound
  <2> QED BY <2>1
<1>6. Loaded /\ Taking BY DEF Loaded, Taking
<1> QED BY <1>1, <1>2, <1>4, <1>5, <1>6 DEF RingInv

LEMMA Stays == RingInv /\ [Next]_vars => RingInv'
<1> SUFFICES ASSUME RingInv, [Next]_vars PROVE Rest'
  BY TypesHold DEF RingInv, Rest
<1>1. ASSUME NEW p \in Producers, NEW item \in Items, PushStart(p, item) PROVE Rest'
  <2>1. ~Claimed(p) /\ LoadTail(p) /\ UNCHANGED <<tail, head, n, cpc, seq>>
    BY <1>1 DEF PushStart, Claimed, consumerVars
  <2> QED BY <2>1, LoadsTail
<1>2. ASSUME NEW p \in Producers, PushAgain(p) PROVE Rest'
  <2>1. ~Claimed(p) /\ LoadTail(p) /\ UNCHANGED <<tail, head, n, cpc, seq>>
    BY <1>2 DEF PushAgain, Claimed, consumerVars
  <2> QED BY <2>1, LoadsTail
<1>3. ASSUME NEW p \in Producers, PushLoadSeq(p) PROVE Rest'
  BY <1>3, LoadsSeq
<1>4. ASSUME NEW p \in Producers, PushClaim(p) PROVE Rest'
  BY <1>4, ClaimsIndex
<1>5. ASSUME NEW p \in Producers, PushStoreData(p) PROVE Rest'
  BY <1>5, StoresData
<1>6. ASSUME NEW p \in Producers, PushStoreSeq(p) PROVE Rest'
  BY <1>6, StoresSeq
<1>7. CASE Pop BY <1>7, Looks, Releases DEF Pop
<1>8. CASE UNCHANGED vars
  <2>1. UNCHANGED <<tail, seq, producerVars, head, n, cpc>> BY <1>8 DEF vars, consumerVars
  <2>2. next' = next BY <2>1 DEF next
  <2>3. (Window /\ Claims /\ Published /\ Free /\ Loaded)' BY <2>1, <2>2, QuietConsumer
  <2>4. Taking' BY <2>1, <2>2 DEF RingInv, Taking
  <2> QED BY <2>3, <2>4 DEF Rest
<1> QED BY <1>1, <1>2, <1>3, <1>4, <1>5, <1>6, <1>7, <1>8 DEF Next, Push

LEMMA Invariance == Spec => []RingInv
<1>1. Init => RingInv BY Initially
<1>2. RingInv /\ [Next]_vars => RingInv' BY Stays
<1> QED BY <1>1, <1>2, PTL DEF Spec

LEMMA Apart == RingInv => SlotsExclusive
<1> SUFFICES ASSUME RingInv PROVE SlotsExclusive
  OBVIOUS
<1>1. next \in Nat /\ tail \in Nat /\ Cap \in Nat /\ tail <= next + Cap
      /\ \A p \in Producers : claim[p] \in Nat
  BY FlowRingAssumption DEF RingInv, TypeOK, Window, next
<1>2. \A p \in Producers :
        Claimed(p) => /\ next <= claim[p] /\ claim[p] < next + Cap
                      /\ seq[Slot(claim[p])] = claim[p]
  BY <1>1 DEF RingInv, Claims, ClaimsInside
<1>3. ASSUME NEW p \in Producers, NEW q \in Producers, Claimed(p), Claimed(q), p # q
      PROVE  Slot(claim[p]) # Slot(claim[q])
  <2>1. claim[p] # claim[q] BY <1>3 DEF RingInv, Claims, ClaimsDiffer
  <2> QED BY <1>1, <1>2, <1>3, <2>1, WindowSlots
<1>4. ASSUME NEW p \in Producers, Claimed(p), cpc \in {"loadData", "clear", "storeSeq"}
      PROVE  Slot(claim[p]) # Slot(next)
  <2>1. seq[Slot(next)] = next + 1 BY <1>4 DEF RingInv, Taking
  <2>2. claim[p] # next BY <1>1, <1>2, <1>4, <2>1
  <2> QED BY <1>1, <1>2, <1>4, <2>2, WindowSlots
<1> QED BY <1>3, <1>4 DEF SlotsExclusive

(* A slot has one owner at a time: no two producers between their claim    *)
(* and their publication write to the same slot, and none to the slot the  *)
(* consumer is taking from (flow/bus.go 79-82, 101-107).                   *)
THEOREM OneOwner == Spec => []SlotsExclusive
BY Apart, Invariance, PTL

(* The sequence number of each slot tells whether its index is claimed,    *)
(* published or free, and no claim runs past a full ring (flow/bus.go      *)
(* 76-87, 101-107).                                                        *)
THEOREM Barrier == Spec => []SequenceBarrier
<1>1. RingInv => SequenceBarrier
  <2> SUFFICES ASSUME RingInv PROVE SequenceBarrier
    OBVIOUS
  <2>1. next \in Nat /\ tail \in Nat /\ Cap \in Nat
    BY FlowRingAssumption DEF RingInv, TypeOK, next
  <2>2. next <= tail /\ tail <= next + Cap BY DEF RingInv, Window
  <2>3. ASSUME NEW k \in next .. tail - 1
        PROVE  \/ seq[Slot(k)] = k /\ \E p \in Producers : Claimed(p) /\ claim[p] = k
               \/ seq[Slot(k)] = k + 1 /\ ~\E p \in Producers : Claimed(p) /\ claim[p] = k
    <3>1. k \in Nat /\ next <= k /\ k < tail BY <2>1
    <3>2. seq[Slot(k)] = k + 1 \/ \E p \in Producers : Claimed(p) /\ claim[p] = k
      BY <3>1 DEF RingInv, Published
    <3>3. \A p \in Producers : Claimed(p) /\ claim[p] = k => seq[Slot(k)] = k
      BY DEF RingInv, Claims, ClaimsInside
    <3> QED BY <3>1, <3>2, <3>3
  <2>4. \A k \in tail .. next + Cap - 1 : seq[Slot(k)] = k
    BY <2>1 DEF RingInv, Free
  <2> QED BY <2>2, <2>3, <2>4 DEF SequenceBarrier
<1> QED BY <1>1, Invariance, PTL

(***************************************************************************)
(* What the items are while they are on their way.                         *)
(***************************************************************************)
(* What is in a claimed slot, or in the consumer's hands; and no slot is   *)
(* behind the indices that were claimed.                                   *)
Carries ==
  /\ \A p \in Producers :
       /\ pc[p] # "idle" => arg[p] \in Items
       /\ pc[p] = "storeSeq" => data[Slot(claim[p])] = arg[p]
  /\ cpc = "clear" => taken = data[Slot(next)]

NoneBehind == \A k \in Nat : k < tail => seq[Slot(k)] >= k

LEMMA Numbers ==
  RingInv => /\ next \in Nat /\ tail \in Nat /\ Cap \in Nat /\ Cap >= 2
             /\ \A p \in Producers : claim[p] \in Nat
             /\ next <= tail /\ tail <= next + Cap
             /\ \A k \in Nat : Slot(k) \in Slots /\ seq[Slot(k)] \in Nat
BY FlowRingAssumption, Division DEF RingInv, TypeOK, Window, next

LEMMA NoneBehindStays == RingInv /\ NoneBehind /\ [Next]_vars => NoneBehind'
<1> SUFFICES ASSUME RingInv, NoneBehind, [Next]_vars PROVE NoneBehind'
  OBVIOUS
<1>0. /\ next \in Nat /\ tail \in Nat /\ Cap \in Nat /\ next <= tail /\ tail <= next + Cap
      /\ \A p \in Producers : claim[p] \in Nat
      /\ \A k \in Nat : Slot(k) \in Slots /\ seq[Slot(k)] \in Nat
  BY Numbers
<1>1. CASE UNCHANGED <<tail, seq>> BY <1>1 DEF NoneBehind
<1>2. ASSUME NEW p \in Producers, PushClaim(p) PROVE NoneBehind'
  <2>1. CASE tail' = tail + 1 /\ tail = claim[p] /\ pc[p] = "cas"
    <3>1. tail < next + Cap BY <2>1 DEF RingInv, Loaded
    <3>2. seq[Slot(tail)] = tail BY <1>0, <3>1 DEF RingInv, Free
    <3> QED BY <1>0, <1>2, <2>1, <3>2 DEF NoneBehind, PushClaim
  <2>2. CASE tail' = tail BY <1>2, <2>2 DEF NoneBehind, PushClaim
  <2> QED BY <1>2, <2>1, <2>2 DEF PushClaim
<1>3. ASSUME NEW p \in Producers, PushStoreSeq(p) PROVE NoneBehind'
  <2>1. /\ tail' = tail /\ Claimed(p)
        /\ seq' = [seq EXCEPT ![Slot(claim[p])] = claim[p] + 1]
    BY <1>3 DEF PushStoreSeq, Claimed
  <2>2. seq[Slot(claim[p])] = claim[p] BY <2>1 DEF RingInv, Claims, ClaimsInside
  <2> SUFFICES ASSUME NEW k \in Nat, k < tail PROVE seq'[Slot(k)] >= k
    BY <2>1 DEF NoneBehind
  <2>3. seq[Slot(k)] >= k BY DEF NoneBehind
  <2>4. CASE Slot(k) = Slot(claim[p])
    <3>1. seq'[Slot(k)] = claim[p] + 1 BY <1>0, <2>1, <2>4 DEF RingInv, TypeOK
    <3> QED BY <1>0, <2>2, <2>3, <2>4, <3>1
  <2>5. CASE Slot(k) # Slot(claim[p])
    BY <1>0, <2>1, <2>3, <2>5 DEF RingInv, TypeOK
  <2> QED BY <2>4, <2>5
<1>4. CASE PopStoreSeq
  <2>1. tail' = tail /\ seq' = [seq EXCEPT ![Slot(next)] = next + Cap]
    BY <1>4 DEF PopStoreSeq
  <2> SUFFICES ASSUME NEW k \in Nat, k < tail PROVE seq'[Slot(k)] >= k
    BY <2>1 DEF NoneBehind
  <2>2. CASE Slot(k) = Slot(next)
    <3>1. seq'[Slot(k)] = next + Cap BY <1>0, <2>1, <2>2 DEF RingInv, TypeOK
    <3> QED BY <1>0, <3>1
  <2>3. CASE Slot(k) # Slot(next)
    <3>1. seq'[Slot(k)] = seq[Slot(k)] BY <1>0, <2>1, <2>3 DEF RingInv, TypeOK
    <3> QED BY <3>1 DEF NoneBehind
  <2> QED BY <2>2, <2>3
<1> QED
  BY <1>1, <1>2, <1>3, <1>4
  DEF Next, Push, Pop, vars, consumerVars, PushStart, PushAgain, PushLoadSeq, PushStoreData,
      PopStart, PopLoadSeq, PopLoadData, PopClear, PopStoreHead

LEMMA CarriesStays == RingInv /\ Carries /\ [Next]_vars => Carries'
<1> SUFFICES ASSUME RingInv, Carries, [Next]_vars PROVE Carries'
  OBVIOUS
<1>0. /\ next \in Nat /\ \A p \in Producers : claim[p] \in Nat
      /\ \A k \in Nat : Slot(k) \in Slots
  BY Numbers
<1>t. /\ pc \in [Producers -> {"idle", "loadSeq", "cas", "again", "storeData", "storeSeq"}]
      /\ claim \in [Producers -> Nat] /\ arg \in [Producers -> Items \cup {Nil}]
      /\ data \in [Slots -> Items \cup {Nil}]
  BY DEF RingInv, TypeOK
<1>n. UNCHANGED <<head, n>> => next' = next BY DEF next
<1>a. SlotsExclusive BY Apart
<1>1. ASSUME NEW p \in Producers, NEW item \in Items, PushStart(p, item) PROVE Carries'
  BY <1>1, <1>n, <1>t DEF Carries, PushStart, LoadTail, consumerVars
<1>2. ASSUME NEW p \in Producers, PushAgain(p) PROVE Carries'
  BY <1>2, <1>n, <1>t DEF Carries, PushAgain, LoadTail, consumerVars
<1>3. ASSUME NEW p \in Producers, PushLoadSeq(p) PROVE Carries'
  <2>1. /\ UNCHANGED <<data, head, n, cpc, taken>> /\ pc[p] = "loadSeq"
        /\ \A q \in Producers : q # p => pc'[q] = pc[q] /\ claim'[q] = claim[q] /\ arg'[q] = arg[q]
        /\ pc'[p] = "idle" \/ (pc'[p] \in {"cas", "again"} /\ arg'[p] = arg[p])
    BY <1>3, <1>t DEF PushLoadSeq, consumerVars
  <2> QED BY <1>n, <2>1 DEF Carries
<1>4. ASSUME NEW p \in Producers, PushClaim(p) PROVE Carries'
  BY <1>4, <1>n, <1>t DEF Carries, PushClaim, consumerVars
<1>5. ASSUME NEW p \in Producers, PushStoreData(p) PROVE Carries'
  <2>1. /\ UNCHANGED <<head, n, cpc, taken, arg, claim>> /\ pc[p] = "storeData" /\ Claimed(p)
        /\ pc' = [pc EXCEPT ![p] = "storeSeq"]
        /\ data' = [data EXCEPT ![Slot(claim[p])] = arg[p]]
    BY <1>5 DEF PushStoreData, consumerVars, Claimed
  <2>2. data'[Slot(claim[p])] = arg[p] BY <1>0, <1>t, <2>1
  <2>3. ASSUME NEW q \in Producers, q # p, pc[q] = "storeSeq"
        PROVE  data'[Slot(claim[q])] = data[Slot(claim[q])]
    <3>1. Slot(claim[q]) # Slot(claim[p]) BY <1>a, <2>1, <2>3 DEF SlotsExclusive, Claimed
    <3> QED BY <1>0, <1>t, <2>1, <3>1
  <2>4. ASSUME cpc = "clear" PROVE data'[Slot(next)] = data[Slot(next)]
    <3>1. Slot(next) # Slot(claim[p]) BY <1>a, <2>1, <2>4 DEF SlotsExclusive
    <3> QED BY <1>0, <1>t, <2>1, <3>1
  <2> QED BY <1>n, <1>t, <2>1, <2>2, <2>3, <2>4 DEF Carries
<1>6. ASSUME NEW p \in Producers, PushStoreSeq(p) PROVE Carries'
  BY <1>6, <1>n, <1>t DEF Carries, PushStoreSeq, consumerVars
<1>7. CASE PopStart \/ PopLoadSeq \/ PopLoadData \/ PopStoreSeq \/ PopStoreHead
  BY <1>7, <1>n DEF Carries, PopStart, PopLoadSeq, PopLoadData, PopStoreSeq, PopStoreHead,
                    producerVars
<1>8. CASE PopClear
  <2>1. /\ UNCHANGED producerVars /\ cpc = "clear" /\ cpc' = "storeSeq"
        /\ data' = [data EXCEPT ![Slot(next)] = Nil]
    BY <1>8 DEF PopClear
  <2>2. ASSUME NEW q \in Producers, pc[q] = "storeSeq"
        PROVE  data'[Slot(claim[q])] = data[Slot(claim[q])]
    <3>1. Slot(claim[q]) # Slot(next) BY <1>a, <2>1, <2>2 DEF SlotsExclusive, Claimed
    <3> QED BY <1>0, <1>t, <2>1, <3>1
  <2> QED BY <2>1, <2>2 DEF Carries, producerVars
<1>9. CASE UNCHANGED vars
  BY <1>9, <1>n DEF Carries, vars, producerVars, consumerVars
<1> QED
  BY <1>1, <1>2, <1>3, <1>4, <1>5, <1>6, <1>7, <1>8, <1>9 DEF Next, Push, Pop
-----------------------------------------------------------------------------
(***************************************************************************)
(* The items of the ring, without the choice of a producer.                *)
(***************************************************************************)
Unclaimed(k) == \A p \in Producers : Claimed(p) => claim[p] # k

Plain(k) == IF k = next /\ cpc \in {"clear", "storeSeq"} THEN taken ELSE data[Slot(k)]

ItemFacts ==
  /\ \A p \in Producers : Claimed(p) => ItemAt(claim[p]) = arg[p]
  /\ \A k \in Nat : Unclaimed(k) => ItemAt(k) = Plain(k)

LEMMA ItemsAre == RingInv => ItemFacts
<1> SUFFICES ASSUME RingInv PROVE ItemFacts
  OBVIOUS
<1>1. ASSUME NEW p \in Producers, Claimed(p) PROVE ItemAt(claim[p]) = arg[p]
  <2> DEFINE c == CHOOSE q \in Producers : Claimed(q) /\ claim[q] = claim[p]
  <2>1. c \in Producers /\ Claimed(c) /\ claim[c] = claim[p] BY <1>1
  <2>2. c = p BY <1>1, <2>1 DEF RingInv, Claims, ClaimsDiffer
  <2>3. ItemAt(claim[p]) = arg[c] BY <1>1 DEF ItemAt
  <2> QED BY <2>2, <2>3
<1>2. ASSUME NEW k \in Nat, Unclaimed(k) PROVE ItemAt(k) = Plain(k)
  BY <1>2 DEF ItemAt, Unclaimed, Plain
<1> QED BY <1>1, <1>2 DEF ItemFacts

(* An item stays what it is while its claim, or its slot, does.            *)
LEMMA ItemStays ==
  ASSUME ItemFacts, ItemFacts', NEW k \in Nat,
         \A q \in Producers :
           /\ (Claimed(q) /\ claim[q] = k)' <=> (Claimed(q) /\ claim[q] = k)
           /\ Claimed(q) /\ claim[q] = k => arg'[q] = arg[q],
         Unclaimed(k) => Plain(k)' = Plain(k)
  PROVE  ItemAt(k)' = ItemAt(k)
<1>1. CASE Unclaimed(k)
  <2>1. Unclaimed(k)' BY <1>1 DEF Unclaimed
  <2>2. ItemAt(k)' = Plain(k)' BY <2>1 DEF ItemFacts
  <2>3. ItemAt(k) = Plain(k) BY <1>1 DEF ItemFacts
  <2> QED BY <1>1, <2>2, <2>3
<1>2. CASE ~Unclaimed(k)
  <2>1. PICK q \in Producers : Claimed(q) /\ claim[q] = k BY <1>2 DEF Unclaimed
  <2>2. (Claimed(q) /\ claim[q] = k)' BY <2>1
  <2>3. ItemAt(k) = arg[q] BY <2>1 DEF ItemFacts
  <2>4. ItemAt(k)' = arg'[q] BY <2>2 DEF ItemFacts
  <2> QED BY <2>1, <2>3, <2>4
<1> QED BY <1>1, <1>2

(* No step but a claim and a release changes an item of the ring.          *)
KeepsItems == \A k \in Nat : next <= k /\ k < tail => ItemAt(k)' = ItemAt(k)

LEMMA IdleProducerKeeps ==
  ASSUME RingInv, ItemFacts, ItemFacts', NEW p \in Producers, ~Claimed(p), ~Claimed(p)',
         UNCHANGED <<data, head, n, cpc, taken>>,
         \A q \in Producers \ {p} : pc'[q] = pc[q] /\ claim'[q] = claim[q] /\ arg'[q] = arg[q]
  PROVE  KeepsItems
<1>1. next' = next BY DEF next
<1>2. \A k \in Nat : Plain(k)' = Plain(k) BY <1>1 DEF Plain
<1>3. \A q \in Producers \ {p} : Claimed(q)' = Claimed(q) BY DEF Claimed
<1> QED BY <1>2, <1>3, ItemStays DEF KeepsItems

LEMMA StoreDataKeeps ==
  ASSUME RingInv, ItemFacts, ItemFacts', NEW p \in Producers, PushStoreData(p)
  PROVE  KeepsItems
<1>1. /\ UNCHANGED <<head, n, cpc, taken, claim, arg, tail>> /\ Claimed(p)
      /\ pc' = [pc EXCEPT ![p] = "storeSeq"]
      /\ data' = [data EXCEPT ![Slot(claim[p])] = arg[p]]
  BY DEF PushStoreData, consumerVars, Claimed
<1>2. next' = next BY <1>1 DEF next
<1>3. \A q \in Producers : Claimed(q)' = Claimed(q)
  BY <1>1 DEF RingInv, TypeOK, Claimed
<1>4. ASSUME NEW k \in Nat, next <= k, k < tail, Unclaimed(k) PROVE Plain(k)' = Plain(k)
  <2>1. k # claim[p] BY <1>1, <1>4 DEF Unclaimed
  <2>2. next <= claim[p] /\ claim[p] < tail BY <1>1 DEF RingInv, Claims, ClaimsInside
  <2>3. Slot(k) # Slot(claim[p]) BY <1>4, <2>1, <2>2, Numbers, WindowSlots
  <2>4. data'[Slot(k)] = data[Slot(k)] BY <1>1, <2>3, Numbers DEF RingInv, TypeOK
  <2> QED BY <1>1, <1>2, <2>4 DEF Plain
<1> QED BY <1>1, <1>3, <1>4, ItemStays DEF KeepsItems

LEMMA StoreSeqKeeps ==
  ASSUME RingInv, Carries, ItemFacts, ItemFacts', NEW p \in Producers, PushStoreSeq(p)
  PROVE  KeepsItems
<1>1. /\ UNCHANGED <<head, n, cpc, taken, data, tail>> /\ pc[p] = "storeSeq" /\ Claimed(p)
      /\ pc' = [pc EXCEPT ![p] = "idle"]
      /\ claim' = [claim EXCEPT ![p] = 0] /\ arg' = [arg EXCEPT ![p] = Nil]
  BY DEF PushStoreSeq, consumerVars, Claimed
<1>2. next' = next BY <1>1 DEF next
<1>3. /\ ~Claimed(p)'
      /\ \A q \in Producers \ {p} :
           Claimed(q)' = Claimed(q) /\ claim'[q] = claim[q] /\ arg'[q] = arg[q]
  BY <1>1 DEF RingInv, TypeOK, Claimed
<1>4. \A k \in Nat : Plain(k)' = Plain(k) BY <1>1, <1>2 DEF Plain
<1>5. ASSUME NEW k \in Nat, k = claim[p] PROVE ItemAt(k)' = ItemAt(k)
  <2>1. ItemAt(k) = arg[p] BY <1>1, <1>5 DEF ItemFacts
  <2>2. \A q \in Producers \ {p} : Claimed(q) => claim[q] # k
    BY <1>1, <1>5 DEF RingInv, Claims, ClaimsDiffer
  <2>3. Unclaimed(k)' BY <1>3, <2>2 DEF Unclaimed
  <2>4. ItemAt(k)' = Plain(k)' BY <2>3 DEF ItemFacts
  <2>5. SlotsExclusive BY Apart
  <2>6. Plain(k) = data[Slot(k)] BY <1>1, <1>5, <2>5 DEF Plain, SlotsExclusive
  <2>7. Plain(k) = arg[p] BY <1>1, <1>5, <2>6 DEF Carries
  <2> QED BY <1>4, <2>1, <2>4, <2>7
<1>6. ASSUME NEW k \in Nat, k # claim[p] PROVE ItemAt(k)' = ItemAt(k)
  BY <1>3, <1>4, <1>6, ItemStays
<1> QED BY <1>5, <1>6 DEF KeepsItems

LEMMA LookKeeps ==
  ASSUME RingInv, Carries, ItemFacts, ItemFacts',
         PopStart \/ PopLoadSeq \/ PopLoadData \/ PopClear \/ PopStoreHead
  PROVE  KeepsItems /\ next' = next
<1>1. UNCHANGED <<tail, producerVars>>
  BY DEF PopStart, PopLoadSeq, PopLoadData, PopClear, PopStoreHead
<1>2. next' = next
  <2>1. cpc = "idle" => n = 0 BY DEF RingInv, Taking
  <2>2. head \in Nat /\ n \in Nat BY DEF RingInv, TypeOK
  <2> QED
    BY <2>1, <2>2 DEF next, PopStart, PopLoadSeq, PopLoadData, PopClear, PopStoreHead
<1>3. \A q \in Producers : Claimed(q)' = Claimed(q) BY <1>1 DEF Claimed, producerVars
<1>4. ASSUME NEW k \in Nat, next <= k, k < tail PROVE Plain(k)' = Plain(k)
  <2>1. CASE PopStart \/ PopLoadSeq \/ PopStoreHead
    BY <1>2, <2>1 DEF Plain, PopStart, PopLoadSeq, PopStoreHead
  <2>2. CASE PopLoadData
    BY <1>2, <2>2 DEF Plain, PopLoadData
  <2>3. CASE PopClear
    <3>1. cpc = "clear" /\ cpc' = "storeSeq" /\ taken' = taken /\ data' = [data EXCEPT ![Slot(next)] = Nil]
      BY <2>3 DEF PopClear
    <3>2. ASSUME k # next PROVE data'[Slot(k)] = data[Slot(k)]
      <4>1. Slot(k) # Slot(next) BY <1>4, <3>2, Numbers, WindowSlots
      <4> QED BY <3>1, <4>1, Numbers DEF RingInv, TypeOK
    <3> QED BY <1>2, <3>1, <3>2 DEF Plain
  <2> QED BY <2>1, <2>2, <2>3
<1>5. KeepsItems BY <1>1, <1>3, <1>4, ItemStays DEF KeepsItems, producerVars
<1> QED BY <1>2, <1>5
-----------------------------------------------------------------------------
(***************************************************************************)
(* The ring implements the queue of BoundedFifo.                           *)
(***************************************************************************)
ContentsOK ==
  /\ Contents \in Seq(Items \cup {Nil})
  /\ Len(Contents) = tail - next
  /\ \A i \in 1 .. tail - next : Contents[i] = ItemAt(next + i - 1)

LEMMA ContentsType == RingInv => ContentsOK
<1> SUFFICES ASSUME RingInv PROVE ContentsOK
  OBVIOUS
<1>0. next \in Nat /\ tail \in Nat /\ next <= tail BY Numbers
<1>1. ASSUME NEW k \in Nat PROVE ItemAt(k) \in Items \cup {Nil}
  <2>1. ItemFacts BY ItemsAre
  <2>2. CASE Unclaimed(k)
    <3>1. Slot(k) \in Slots BY Numbers
    <3>2. Plain(k) \in Items \cup {Nil} BY <3>1 DEF Plain, RingInv, TypeOK
    <3> QED BY <2>1, <2>2, <3>2 DEF ItemFacts
  <2>3. CASE ~Unclaimed(k)
    BY <2>1, <2>3 DEF ItemFacts, Unclaimed, RingInv, TypeOK
  <2> QED BY <2>2, <2>3
<1>2. \A i \in 1 .. tail - next : next + i - 1 \in Nat BY <1>0
<1>3. Contents \in [1 .. tail - next -> Items \cup {Nil}]
  BY <1>1, <1>2 DEF Contents
<1>4. tail - next \in Nat BY <1>0
<1>5. \A i \in 1 .. tail - next : Contents[i] = ItemAt(next + i - 1) BY DEF Contents
<1> HIDE DEF Contents
<1> QED BY <1>3, <1>4, <1>5 DEF ContentsOK

LEMMA SameContents ==
  ASSUME RingInv, KeepsItems, UNCHANGED tail, next' = next
  PROVE  Contents' = Contents
<1>0. next \in Nat /\ tail \in Nat BY Numbers
<1>1. \A i \in 1 .. tail - next : ItemAt(next + i - 1)' = ItemAt(next + i - 1)
  <2> SUFFICES ASSUME NEW i \in 1 .. tail - next
               PROVE  ItemAt(next + i - 1)' = ItemAt(next + i - 1)
    OBVIOUS
  <2>1. PICK k \in Nat : k = next + i - 1 BY <1>0
  <2>2. ItemAt(k)' = ItemAt(k) BY <1>0, <2>1 DEF KeepsItems
  <2> QED BY <2>1, <2>2
<1> QED BY <1>1 DEF Contents

LEMMA SameAccepted ==
  ASSUME UNCHANGED ok, \A p \in Producers : Claimed(p)' = Claimed(p)
  PROVE  Accepted' = Accepted
BY DEF Accepted

(* A claim appends what its push brings.                                   *)
LEMMA ClaimAccepts ==
  ASSUME RingInv, RingInv', Carries, NEW p \in Producers, PushClaim(p), tail = claim[p]
  PROVE  Fifo!Accept(p, arg[p]) \/ UNCHANGED Fifo!vars
<1>0. /\ next \in Nat /\ tail \in Nat /\ Cap \in Nat /\ next <= tail
      /\ UNCHANGED <<head, n, cpc, taken, got, data, seq, claim, arg, ok>>
      /\ pc[p] = "cas" /\ next' = next
      /\ tail' = tail + 1 /\ pc' = [pc EXCEPT ![p] = "storeData"]
  BY Numbers DEF PushClaim, consumerVars, next
<1>1. tail < next + Cap BY <1>0 DEF RingInv, Loaded
<1>2. /\ ~Claimed(p) /\ Claimed(p)'
      /\ \A q \in Producers \ {p} : Claimed(q)' = Claimed(q)
  BY <1>0 DEF RingInv, TypeOK, Claimed
<1>f. ItemFacts /\ ItemFacts'
  <2>1. ItemFacts' BY ItemsAre, PTL
  <2> QED BY <2>1, ItemsAre
<1>3. ASSUME NEW k \in Nat, k < tail PROVE ItemAt(k)' = ItemAt(k)
  <2>1. Plain(k)' = Plain(k) BY <1>0 DEF Plain
  <2>2. k # claim[p] BY <1>0, <1>3
  <2> QED BY <1>0, <1>2, <1>f, <2>1, <2>2, ItemStays
<1>4. ASSUME NEW k \in Nat, k = tail PROVE ItemAt(k)' = arg[p]
  <2>1. Claimed(p)' /\ claim'[p] = k BY <1>0, <1>2, <1>4
  <2> QED BY <1>0, <1>f, <2>1 DEF ItemFacts
<1>5. ContentsOK /\ ContentsOK'
  <2>1. ContentsOK' BY ContentsType, PTL
  <2> QED BY <2>1, ContentsType
<1>6. Contents' = Append(Contents, arg[p])
  <2>1. PICK m \in Nat : m = tail - next BY <1>0
  <2>2. /\ Contents \in Seq(Items \cup {Nil}) /\ Len(Contents) = m
        /\ Contents' \in Seq(Items \cup {Nil}) /\ Len(Contents') = m + 1
    BY <1>0, <1>5, <2>1 DEF ContentsOK
  <2>3. ASSUME NEW i \in 1 .. m PROVE Contents'[i] = Contents[i]
    <3>1. PICK k \in Nat : k = next + i - 1 BY <1>0
    <3>2. ItemAt(k)' = ItemAt(k) BY <1>0, <1>3, <2>1, <3>1
    <3>3. Contents'[i] = ItemAt(k)' BY <1>0, <1>5, <2>1, <3>1 DEF ContentsOK
    <3>4. Contents[i] = ItemAt(k) BY <1>0, <1>5, <2>1, <3>1 DEF ContentsOK
    <3> QED BY <3>2, <3>3, <3>4
  <2>4. Contents'[m + 1] = arg[p]
    <3>1. PICK k \in Nat : k = next + m BY <1>0
    <3>2. k = tail BY <1>0, <2>1, <3>1
    <3>3. ItemAt(k)' = arg[p] BY <1>4, <3>2
    <3>4. m + 1 \in 1 .. tail' - next' /\ next' + (m + 1) - 1 = k BY <1>0, <2>1, <3>1
    <3>5. Contents'[m + 1] = ItemAt(next + (m + 1) - 1)' BY <1>5, <3>4 DEF ContentsOK
    <3> QED BY <3>3, <3>4, <3>5
  <2>5. arg[p] \in Items BY <1>0 DEF Carries
  <2> QED BY <2>2, <2>3, <2>4, <2>5
<1>7. Accepted' = [Accepted EXCEPT ![p] = TRUE] BY <1>0, <1>2 DEF Accepted
<1>8. Len(Contents) < Cap BY <1>0, <1>1, <1>5 DEF ContentsOK
<1> QED BY <1>0, <1>6, <1>7, <1>8 DEF Fifo!Accept

(* A push that finds the slot behind is refused: the ring is full.         *)
LEMMA LateRefuses ==
  ASSUME RingInv, RingInv', NoneBehind, NEW p \in Producers, PushLoadSeq(p)
  PROVE  Fifo!Refuse(p) \/ UNCHANGED Fifo!vars
<1>0. /\ next \in Nat /\ tail \in Nat /\ Cap \in Nat /\ next <= tail /\ tail <= next + Cap
      /\ claim[p] \in Nat /\ Slot(claim[p]) \in Slots /\ seq[Slot(claim[p])] \in Nat
  BY Numbers
<1>1. /\ UNCHANGED <<tail, head, n, cpc, taken, got, data, seq>>
      /\ next' = next /\ pc[p] = "loadSeq"
  BY DEF PushLoadSeq, consumerVars, next
<1>2. /\ ~Claimed(p) /\ ~Claimed(p)'
      /\ \A q \in Producers \ {p} : Claimed(q)' = Claimed(q)
      /\ \A q \in Producers \ {p} : pc'[q] = pc[q] /\ claim'[q] = claim[q] /\ arg'[q] = arg[q]
  BY DEF PushLoadSeq, RingInv, TypeOK, Claimed
<1>f. ItemFacts /\ ItemFacts'
  <2>1. ItemFacts' BY ItemsAre, PTL
  <2> QED BY <2>1, ItemsAre
<1>3. Contents' = Contents
  <2>1. KeepsItems BY <1>1, <1>2, <1>f, IdleProducerKeeps
  <2> QED BY <1>1, <2>1, SameContents
<1>4. CASE seq[Slot(claim[p])] - claim[p] >= 0
  <2>1. ok' = ok BY <1>0, <1>4 DEF PushLoadSeq
  <2>2. \A q \in Producers : Claimed(q)' = Claimed(q) BY <1>2 DEF Claimed
  <2>3. Accepted' = Accepted BY <2>1, <2>2, SameAccepted
  <2> QED BY <1>1, <1>3, <2>3 DEF Fifo!vars
<1>5. CASE seq[Slot(claim[p])] - claim[p] < 0
  <2>1. ok' = [ok EXCEPT ![p] = FALSE] BY <1>0, <1>5 DEF PushLoadSeq
  <2>2. claim[p] = tail
    <3>1. claim[p] <= tail BY <1>1 DEF RingInv, Loaded
    <3>2. ~(claim[p] < tail) BY <1>0, <1>5 DEF NoneBehind
    <3> QED BY <1>0, <3>1, <3>2
  <2>3. tail = next + Cap BY <1>0, <1>5, <2>2 DEF RingInv, Free
  <2>4. Len(Contents) = Cap BY <1>0, <2>3, ContentsType DEF ContentsOK
  <2>5. Accepted' = [Accepted EXCEPT ![p] = FALSE]
    BY <1>2, <2>1 DEF Accepted, RingInv, TypeOK
  <2> QED BY <1>1, <1>3, <2>4, <2>5 DEF Fifo!Refuse
<1> QED BY <1>0, <1>4, <1>5

(* A release takes the oldest item out of the queue.                       *)
LEMMA ReleasePolls ==
  ASSUME RingInv, RingInv', PopStoreSeq
  PROVE  Fifo!Poll
<1>0. /\ next \in Nat /\ tail \in Nat /\ n \in Nat /\ head \in Nat
      /\ \A p \in Producers : claim[p] \in Nat
      /\ UNCHANGED <<tail, head, data, pc, claim, arg, ok>>
      /\ cpc = "storeSeq" /\ cpc' = "loadSeq" /\ n' = n + 1 /\ got' = taken
  BY Numbers DEF PopStoreSeq, producerVars, RingInv, TypeOK
<1>1. next' = next + 1 BY <1>0 DEF next
<1>2. next < tail /\ seq[Slot(next)] = next + 1 BY <1>0 DEF RingInv, Taking
<1>3. \A q \in Producers : Claimed(q)' = Claimed(q) BY <1>0 DEF Claimed
<1>f. ItemFacts /\ ItemFacts'
  <2>1. ItemFacts' BY ItemsAre, PTL
  <2> QED BY <2>1, ItemsAre
<1>4. ItemAt(next) = taken
  <2>1. Unclaimed(next) BY <1>0, <1>2 DEF RingInv, Claims, ClaimsInside, Unclaimed
  <2>2. Plain(next) = taken BY <1>0 DEF Plain
  <2> QED BY <1>0, <1>f, <2>1, <2>2 DEF ItemFacts
<1>5. ASSUME NEW k \in Nat, next < k PROVE ItemAt(k)' = ItemAt(k)
  <2>1. Plain(k)' = Plain(k) BY <1>0, <1>5 DEF Plain
  <2> QED BY <1>0, <1>3, <1>f, <2>1, ItemStays
<1>6. ContentsOK /\ ContentsOK'
  <2>1. ContentsOK' BY ContentsType, PTL
  <2> QED BY <2>1, ContentsType
<1>7. PICK m \in Nat : m = tail - next /\ m >= 1 BY <1>0, <1>2
<1>8. /\ Contents \in Seq(Items \cup {Nil}) /\ Len(Contents) = m
      /\ Contents' \in Seq(Items \cup {Nil}) /\ Len(Contents') = m - 1
  BY <1>0, <1>1, <1>6, <1>7 DEF ContentsOK
<1>9. Contents # << >> /\ Head(Contents) = taken
  <2>1. 1 \in 1 .. tail - next /\ next + 1 - 1 = next BY <1>0, <1>7
  <2>2. Contents[1] = ItemAt(next + 1 - 1) BY <1>6, <2>1 DEF ContentsOK
  <2> QED BY <1>4, <1>7, <1>8, <2>1, <2>2
<1>10. Contents' = Tail(Contents)
  <2>1. ASSUME NEW i \in 1 .. m - 1 PROVE Contents'[i] = Contents[i + 1]
    <3>1. PICK k \in Nat : k = next + i BY <1>0
    <3>2. ItemAt(k)' = ItemAt(k) BY <1>0, <1>5, <3>1
    <3>3. i \in 1 .. tail' - next' /\ next' + i - 1 = k BY <1>0, <1>1, <1>7, <3>1
    <3>4. Contents'[i] = ItemAt(next + i - 1)' BY <1>6, <3>3 DEF ContentsOK
    <3>5. i + 1 \in 1 .. tail - next /\ next + (i + 1) - 1 = k BY <1>0, <1>7, <3>1
    <3>6. Contents[i + 1] = ItemAt(next + (i + 1) - 1) BY <1>6, <3>5 DEF ContentsOK
    <3> QED BY <3>2, <3>3, <3>4, <3>5, <3>6
  <2> QED BY <1>7, <1>8, <2>1
<1>11. Accepted' = Accepted BY <1>0, <1>3, SameAccepted
<1> QED BY <1>0, <1>9, <1>10, <1>11 DEF Fifo!Poll

(* A step of a push outside its claim that does not end it.                *)
LEMMA IdlePushStutters ==
  ASSUME RingInv, ItemFacts, ItemFacts', NEW p \in Producers, ~Claimed(p), ~Claimed(p)',
         UNCHANGED <<tail, data, head, n, cpc, taken, got, ok>>,
         \A q \in Producers \ {p} : pc'[q] = pc[q] /\ claim'[q] = claim[q] /\ arg'[q] = arg[q]
  PROVE  UNCHANGED Fifo!vars
<1>1. KeepsItems BY IdleProducerKeeps
<1>2. next' = next BY DEF next
<1>3. \A q \in Producers : Claimed(q)' = Claimed(q) BY DEF Claimed
<1>4. Contents' = Contents BY <1>1, <1>2, SameContents
<1>5. Accepted' = Accepted BY <1>3, SameAccepted
<1> QED BY <1>4, <1>5 DEF Fifo!vars

(* The ring of the flow bus is a first-in first-out queue whatever the     *)
(* number of producers, in the order of their claims; a push is refused    *)
(* only when the ring is full (flow/bus.go 60-119).                        *)
THEOREM Implements == Spec => RefinesFifo
<1>1. Init => Fifo!Init /\ Carries /\ NoneBehind
  <2> SUFFICES ASSUME Init PROVE Fifo!Init /\ Carries /\ NoneBehind
    OBVIOUS
  <2>1. tail - next = 0 BY DEF Init, next
  <2>2. Contents = << >> BY <2>1 DEF Contents
  <2>3. \A p \in Producers : ~Claimed(p) BY DEF Init, Claimed
  <2>4. Accepted = [p \in Producers |-> FALSE] BY <2>3 DEF Init, Accepted
  <2> QED BY <2>2, <2>4 DEF Init, Fifo!Init, Carries, NoneBehind
<1>2. RingInv /\ RingInv' /\ Carries /\ NoneBehind /\ [Next]_vars => [Fifo!Next]_(Fifo!vars)
  <2> SUFFICES ASSUME RingInv, RingInv', Carries, NoneBehind, [Next]_vars
               PROVE  Fifo!Next \/ UNCHANGED Fifo!vars
    OBVIOUS
  <2>f. ItemFacts /\ ItemFacts'
    <3>1. ItemFacts' BY ItemsAre, PTL
    <3> QED BY <3>1, ItemsAre
  <2>1. ASSUME NEW p \in Producers, NEW item \in Items, PushStart(p, item)
        PROVE  UNCHANGED Fifo!vars
    <3>1. /\ UNCHANGED <<tail, data, head, n, cpc, taken, got, ok>>
          /\ ~Claimed(p) /\ ~Claimed(p)'
          /\ \A q \in Producers \ {p} : pc'[q] = pc[q] /\ claim'[q] = claim[q] /\ arg'[q] = arg[q]
      BY <2>1 DEF PushStart, LoadTail, consumerVars, RingInv, TypeOK, Claimed
    <3> QED BY <2>f, <3>1, IdlePushStutters
  <2>2. ASSUME NEW p \in Producers, PushAgain(p) PROVE UNCHANGED Fifo!vars
    <3>1. /\ UNCHANGED <<tail, data, head, n, cpc, taken, got, ok>>
          /\ ~Claimed(p) /\ ~Claimed(p)'
          /\ \A q \in Producers \ {p} : pc'[q] = pc[q] /\ claim'[q] = claim[q] /\ arg'[q] = arg[q]
      BY <2>2 DEF PushAgain, LoadTail, consumerVars, RingInv, TypeOK, Claimed
    <3> QED BY <2>f, <3>1, IdlePushStutters
  <2>3. ASSUME NEW p \in Producers, PushLoadSeq(p) PROVE Fifo!Next \/ UNCHANGED Fifo!vars
    BY <2>3, LateRefuses DEF Fifo!Next
  <2>4. ASSUME NEW p \in Producers, PushClaim(p) PROVE Fifo!Next \/ UNCHANGED Fifo!vars
    <3>1. CASE tail = claim[p]
      <4>1. arg[p] \in Items BY <2>4 DEF PushClaim, Carries
      <4> QED BY <2>4, <3>1, <4>1, ClaimAccepts DEF Fifo!Next
    <3>2. CASE tail # claim[p]
      <4>1. /\ UNCHANGED <<tail, data, head, n, cpc, taken, got, ok>>
            /\ ~Claimed(p) /\ ~Claimed(p)'
            /\ \A q \in Producers \ {p} : pc'[q] = pc[q] /\ claim'[q] = claim[q] /\ arg'[q] = arg[q]
        BY <2>4, <3>2 DEF PushClaim, consumerVars, RingInv, TypeOK, Claimed
      <4> QED BY <2>f, <4>1, IdlePushStutters
    <3> QED BY <3>1, <3>2
  <2>5. ASSUME NEW p \in Producers, PushStoreData(p) PROVE UNCHANGED Fifo!vars
    <3>1. UNCHANGED <<tail, ok, got>> /\ next' = next
      BY <2>5 DEF PushStoreData, consumerVars, next
    <3>2. \A q \in Producers : Claimed(q)' = Claimed(q)
      BY <2>5 DEF PushStoreData, RingInv, TypeOK, Claimed
    <3>3. Contents' = Contents BY <2>5, <2>f, <3>1, StoreDataKeeps, SameContents
    <3>4. Accepted' = Accepted BY <3>1, <3>2, SameAccepted
    <3> QED BY <3>1, <3>3, <3>4 DEF Fifo!vars
  <2>6. ASSUME NEW p \in Producers, PushStoreSeq(p) PROVE UNCHANGED Fifo!vars
    <3>1. UNCHANGED <<tail, got>> /\ next' = next /\ Claimed(p)
          /\ pc' = [pc EXCEPT ![p] = "idle"] /\ ok' = [ok EXCEPT ![p] = TRUE]
      BY <2>6 DEF PushStoreSeq, consumerVars, next, Claimed
    <3>2. Contents' = Contents BY <2>6, <2>f, <3>1, StoreSeqKeeps, SameContents
    <3>3. \A q \in Producers : (Claimed(q) \/ ok[q])' = (Claimed(q) \/ ok[q])
      BY <3>1 DEF RingInv, TypeOK, Claimed
    <3>4. Accepted' = Accepted BY <3>3 DEF Accepted
    <3> QED BY <3>1, <3>2, <3>4 DEF Fifo!vars
  <2>7. CASE PopStart \/ PopLoadSeq \/ PopLoadData \/ PopClear \/ PopStoreHead
    <3>1. UNCHANGED <<tail, ok, got, pc>>
      BY <2>7 DEF PopStart, PopLoadSeq, PopLoadData, PopClear, PopStoreHead, producerVars
    <3>2. KeepsItems /\ next' = next BY <2>7, <2>f, LookKeeps
    <3>3. Contents' = Contents BY <3>1, <3>2, SameContents
    <3>4. Accepted' = Accepted BY <3>1, SameAccepted DEF Claimed
    <3> QED BY <3>1, <3>3, <3>4 DEF Fifo!vars
  <2>8. CASE PopStoreSeq
    BY <2>8, ReleasePolls DEF Fifo!Next
  <2>9. CASE UNCHANGED vars
    BY <2>9 DEF vars, producerVars, consumerVars, Fifo!vars, Contents, ItemAt, Accepted, Claimed, next
  <2> QED
    BY <2>1, <2>2, <2>3, <2>4, <2>5, <2>6, <2>7, <2>8, <2>9 DEF Next, Push, Pop
<1>3. Spec => [](RingInv /\ Carries /\ NoneBehind)
  BY <1>1, Invariance, CarriesStays, NoneBehindStays, PTL DEF Spec
<1> QED BY <1>1, <1>2, <1>3, PTL DEF Spec, RefinesFifo, Fifo!Spec
=============================================================================
