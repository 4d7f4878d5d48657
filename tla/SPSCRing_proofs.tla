-------------------------- MODULE SPSCRing_proofs --------------------------
(* Theorems about SPSCRing, for rings of every size and any number of      *)
(* callers.                                                                *)
EXTENDS SPSCRing, TLAPS

(***************************************************************************)
(* Cursor arithmetic.                                                      *)
(***************************************************************************)
LEMMA Multiple ==
  ASSUME NEW s \in Nat, NEW m \in Int, 0 < s * m, s * m < s
  PROVE  FALSE
<1>1. CASE m <= 0
  <2>1. s * m <= 0 BY <1>1, SMT
  <2> QED BY <2>1
<1>2. CASE m >= 1
  <2>1. s * m >= s BY <1>2, SMT
  <2> QED BY <2>1
<1> QED BY <1>1, <1>2

LEMMA Division ==
  ASSUME NEW s \in Nat \ {0}, NEW x \in Nat
  PROVE  /\ x \div s \in Int
         /\ x = s * (x \div s) + (x % s)
         /\ x % s \in 0 .. s - 1
OBVIOUS

(* Two cursors less than Size apart mean different slots, also when one of *)
(* them has wrapped.                                                       *)
LEMMA SlotsDiffer ==
  ASSUME NEW a \in Cursor, NEW b \in Cursor,
         0 < Sub(b, a), Sub(b, a) < Size
  PROVE  Slot(a) # Slot(b)
<1> USE RingAssumption DEF Cursor
<1>1. PICK k \in 1 .. Wrap : Wrap = k * Size
  OBVIOUS
<1> DEFINE qa == a \div Size
           qb == b \div Size
<1>2. /\ qa \in Int /\ qb \in Int
      /\ a = Size * qa + (a % Size)
      /\ b = Size * qb + (b % Size)
      /\ a % Size \in Int /\ b % Size \in Int
  BY Division
<1> HIDE DEF qa, qb
<1>3. SUFFICES ASSUME a % Size = b % Size PROVE FALSE
  BY DEF Slot
<1>4. PICK m \in Int : Sub(b, a) = Size * m
  <2>1. CASE b >= a
    <3>1. Sub(b, a) = Size * (qb - qa) BY <1>2, <1>3, <2>1, SMT DEF Sub
    <3> QED BY <3>1, <1>2
  <2>2. CASE b < a
    <3>1. Sub(b, a) = Size * (qb - qa + k) BY <1>1, <1>2, <1>3, <2>2, SMT DEF Sub
    <3> QED BY <3>1, <1>2
  <2> QED BY <2>1, <2>2
<1> QED BY <1>4, Multiple
(* Moving along the ring: a cursor i steps on, and the distance back.      *)
LEMMA Moving ==
  ASSUME NEW h \in Cursor, NEW i \in 0 .. Size
  PROVE  /\ Add(h, i) \in Cursor
         /\ Slot(h) \in Slots
         /\ i < Wrap => Sub(Add(h, i), h) = i
<1> USE RingAssumption
<1>1. Slot(h) \in Slots BY Division DEF Cursor, Slots, Slot
<1>2. Add(h, i) \in Cursor BY DEF Cursor, Add
<1>3. i < Wrap => Sub(Add(h, i), h) = i BY DEF Cursor, Add, Sub
<1> QED BY <1>1, <1>2, <1>3

LEMMA Distance ==
  ASSUME NEW a \in Cursor, NEW b \in Cursor
  PROVE  /\ Sub(b, a) \in 0 .. Wrap - 1
         /\ Sub(b, a) = 0 <=> a = b
         /\ Add(a, Sub(b, a)) = b
BY RingAssumption DEF Cursor, Add, Sub

LEMMA OneMore ==
  ASSUME NEW a \in Cursor, NEW b \in Cursor, Sub(b, a) < Size
  PROVE  Sub(Add(b, 1), a) = Sub(b, a) + 1
<1>1. Size \in Nat /\ Wrap \in Nat /\ Size < Wrap
  BY RingAssumption
<1>2. CASE b + 1 < Wrap
  BY <1>1, <1>2 DEF Cursor, Add, Sub
<1>3. CASE ~(b + 1 < Wrap)
  <2>1. b = Wrap - 1 /\ Add(b, 1) = 0 BY <1>1, <1>3 DEF Cursor, Add
  <2>2. a # 0 BY <1>1, <2>1 DEF Sub
  <2> QED BY <1>1, <2>1, <2>2 DEF Cursor, Sub
<1> QED BY <1>2, <1>3

LEMMA WindowSlots ==
  ASSUME NEW h \in Cursor, NEW i \in 0 .. Size - 1, NEW j \in 0 .. Size - 1,
         i # j
  PROVE  Slot(Add(h, i)) # Slot(Add(h, j))
<1> USE RingAssumption
<1>1. Add(h, i) \in Cursor /\ Add(h, j) \in Cursor
  BY Moving
<1>2. CASE i < j
  <2>1. Sub(Add(h, j), Add(h, i)) = j - i BY <1>2 DEF Cursor, Add, Sub
  <2> QED BY <1>1, <1>2, <2>1, SlotsDiffer
<1>3. CASE j < i
  <2>1. Sub(Add(h, i), Add(h, j)) = i - j BY <1>3 DEF Cursor, Add, Sub
  <2> QED BY <1>1, <1>3, <2>1, SlotsDiffer
<1> QED BY <1>2, <1>3

(* Division has one result.                                                *)
LEMMA SameRemainder ==
  ASSUME NEW s \in Nat \ {0}, NEW p \in Int, NEW q \in Int,
         NEW r \in 0 .. s - 1, NEW t \in 0 .. s - 1,
         s * p + r = s * q + t
  PROVE  r = t
<1>1. s * (p - q) = t - r BY SMT
<1>2. s * (q - p) = r - t BY SMT
<1> QED BY <1>1, <1>2, Multiple

(* A full round of the ring ends on the slot it began with.                *)
LEMMA FullRound ==
  ASSUME NEW h \in Cursor
  PROVE  Slot(Add(h, Size)) = Slot(h)
<1> USE RingAssumption DEF Cursor
<1>1. PICK k \in 1 .. Wrap : Wrap = k * Size
  OBVIOUS
<1>2. PICK q \in Int, r \in 0 .. Size - 1 :
        h = Size * q + r /\ h % Size = r
  <2>1. /\ h \div Size \in Int /\ h % Size \in 0 .. Size - 1
        /\ h = Size * (h \div Size) + (h % Size)
    BY Division
  <2> QED BY <2>1, Zenon
<1>3. ASSUME NEW x \in Nat, NEW m \in Int, x = Size * m + r
      PROVE  x % Size = r
  <2>1. PICK p \in Int, t \in 0 .. Size - 1 :
          x = Size * p + t /\ x % Size = t
    BY Division
  <2>2. Size * p + t = Size * m + r BY <2>1, <1>3
  <2> QED BY <2>1, <2>2, SameRemainder
<1>4. CASE h + Size < Wrap
  <2>1. h + Size = Size * (q + 1) + r BY <1>2, SMT
  <2> QED BY <1>2, <1>3, <1>4, <2>1 DEF Add, Slot
<1>5. CASE ~(h + Size < Wrap)
  <2>1. h + Size - Wrap = Size * (q + 1 - k) + r BY <1>1, <1>2, SMT
  <2>2. h + Size - Wrap \in Nat /\ q + 1 - k \in Int BY <1>5
  <2>3. (h + Size - Wrap) % Size = r BY <1>3, <2>1, <2>2
  <2> QED BY <1>2, <1>5, <2>3 DEF Add, Slot
<1> QED BY <1>4, <1>5
-----------------------------------------------------------------------------
(***************************************************************************)
(* Every variable keeps its type, whoever calls Enqueue: the cursors stay  *)
(* in uint64 and the program counters follow Enqueue and Dequeue.          *)
(***************************************************************************)
LEMMA TypeStep == TypeOK /\ [Next]_vars => TypeOK'
<1> SUFFICES ASSUME TypeOK, [Next]_vars PROVE TypeOK'
  OBVIOUS
<1> USE RingAssumption DEF TypeOK
<1>0. /\ \A c \in Cursor : Add(c, 1) \in Cursor
      /\ \A c \in Cursor : Slot(c) \in Slots
  BY Moving
<1>1. ASSUME NEW g \in Goroutines, NEW v \in Values, EnqueueLoadTail(g, v)
      PROVE  TypeOK'
  BY <1>1 DEF EnqueueLoadTail, consumerVars
<1>2. ASSUME NEW g \in Goroutines, EnqueueLoadHead(g) PROVE TypeOK'
  BY <1>2 DEF EnqueueLoadHead, consumerVars
<1>3. ASSUME NEW g \in Goroutines, EnqueueWrite(g) PROVE TypeOK'
  BY <1>0, <1>3 DEF EnqueueWrite, consumerVars
<1>4. ASSUME NEW g \in Goroutines, EnqueuePublish(g) PROVE TypeOK'
  BY <1>0, <1>4 DEF EnqueuePublish, consumerVars
<1>5. CASE DequeueStart BY <1>5 DEF DequeueStart, producerVars
<1>6. CASE DequeueLoadTail BY <1>6 DEF DequeueLoadTail, producerVars
<1>7. CASE DequeueTake BY <1>0, <1>7 DEF DequeueTake, producerVars
<1>8. CASE DequeueClear BY <1>0, <1>8 DEF DequeueClear, producerVars
<1>9. CASE DequeueRelease BY <1>0, <1>9 DEF DequeueRelease, producerVars
<1>10. CASE UNCHANGED vars
  BY <1>10 DEF vars, producerVars, consumerVars
<1> QED
  BY <1>1, <1>2, <1>3, <1>4, <1>5, <1>6, <1>7, <1>8, <1>9, <1>10
  DEF Next, Enqueue, Dequeue

THEOREM TypeCorrect == Spec => []TypeOK
<1>1. Init => TypeOK
  <2>1. 0 \in Cursor BY RingAssumption DEF Cursor
  <2> QED BY <2>1 DEF Init, TypeOK
<1> QED BY <1>1, TypeStep, PTL DEF Spec
-----------------------------------------------------------------------------
(***************************************************************************)
(* The single-producer discipline.  The steps of the producer and of the   *)
(* consumer are taken one by one; under each, only the conjuncts of Disciplined   *)
(* that the step can disturb need an argument.                             *)
(***************************************************************************)
LEMMA InvInit == Init => Disciplined
<1> SUFFICES ASSUME Init PROVE Disciplined
  OBVIOUS
<1>1. Sub(0, 0) = 0 BY RingAssumption DEF Sub
<1> QED
  BY <1>1, RingAssumption
  DEF Init, Disciplined, OneWriter, CursorOrder, ProducerInside, ConsumerInside,
      UsedSlotsHoldValues, PublishesItsOwn

(* What the invariant says of the goroutine inside Enqueue.                *)
LEMMA Inside ==
  ASSUME TypeOK, Disciplined, NEW g \in Goroutines, pc[g] # "idle"
  PROVE  /\ \A h \in Goroutines \ {g} : pc[h] = "idle"
         /\ localTail[g] = tail
         /\ arg[g] \in Values
         /\ pc[g] \in {"write", "publish"} => Sub(tail, head) < Size
BY RingAssumption, Distance
DEF Disciplined, OneWriter, ProducerInside, CursorOrder, TypeOK

LEMMA ProducerStep ==
  ASSUME ~met', TypeOK, TypeOK', Disciplined,
         NEW g \in Goroutines, Enqueue(g)
  PROVE  Disciplined'
<1> USE RingAssumption
<1>d. /\ Sub(tail, head) \in 0 .. Wrap - 1
      /\ Sub(tail, cachedHead) \in 0 .. Wrap - 1
      /\ Sub(tail, cachedTail) \in 0 .. Wrap - 1
  BY Distance DEF TypeOK
<1>1. ASSUME NEW v \in Values, EnqueueLoadTail(g, v) PROVE Disciplined'
  <2>1. \A h \in Goroutines : pc[h] = "idle"
    BY <1>1 DEF EnqueueLoadTail
  <2>2. OneWriter' BY <1>1, <2>1 DEF EnqueueLoadTail, OneWriter, TypeOK
  <2>3. ProducerInside'
    BY <1>1, <2>1, <1>d
    DEF EnqueueLoadTail, ProducerInside, TypeOK, Full
  <2>4. CursorOrder' /\ ConsumerInside' /\ UsedSlotsHoldValues' /\ PublishesItsOwn'
    BY <1>1, <2>1
    DEF EnqueueLoadTail, Disciplined, CursorOrder, ConsumerInside, UsedSlotsHoldValues,
        PublishesItsOwn, consumerVars, TypeOK
  <2> QED BY <2>2, <2>3, <2>4 DEF Disciplined
<1>2. CASE EnqueueLoadHead(g)
  <2>1. \A h \in Goroutines \ {g} : pc[h] = "idle" /\ localTail[g] = tail
    BY <1>2, Inside DEF EnqueueLoadHead
  <2>2. OneWriter' BY <1>2, <2>1 DEF EnqueueLoadHead, OneWriter, TypeOK
  <2>3. ProducerInside'
    <3>1. localTail[g] = tail /\ arg[g] \in Values
      BY <1>2, Inside DEF EnqueueLoadHead
    <3> QED BY <1>2, <2>1, <3>1, <1>d
            DEF EnqueueLoadHead, ProducerInside, TypeOK, Full
  <2>4. CursorOrder'
    BY <1>2, <1>d DEF EnqueueLoadHead, Disciplined, CursorOrder, consumerVars
  <2>5. ConsumerInside' /\ UsedSlotsHoldValues' /\ PublishesItsOwn'
    BY <1>2, <2>1
    DEF EnqueueLoadHead, Disciplined, ConsumerInside, UsedSlotsHoldValues,
        PublishesItsOwn, consumerVars, TypeOK
  <2> QED BY <2>2, <2>3, <2>4, <2>5 DEF Disciplined
<1>3. CASE EnqueueWrite(g)
  <2>1. /\ \A h \in Goroutines \ {g} : pc[h] = "idle"
        /\ localTail[g] = tail /\ arg[g] \in Values
        /\ Sub(tail, head) < Size
    BY <1>3, Inside DEF EnqueueWrite
  <2>2. tail = Add(head, Sub(tail, head)) BY Distance DEF TypeOK
  <2>3. \A i \in 0 .. Size - 1 :
          i # Sub(tail, head) => Slot(Add(head, i)) # Slot(tail)
    BY <2>1, <2>2, <1>d, WindowSlots DEF TypeOK
  <2>4. \A i \in 0 .. Size - 1 : Slot(Add(head, i)) \in Slots
    BY Moving DEF TypeOK
  <2>5. \A i \in 0 .. Size - 1 :
          i # Sub(tail, head) => buf'[Slot(Add(head, i))] = buf[Slot(Add(head, i))]
    BY <1>3, <2>1, <2>3, <2>4 DEF EnqueueWrite, TypeOK
  <2>6. OneWriter' /\ ProducerInside' /\ CursorOrder'
    BY <1>3, <2>1
    DEF EnqueueWrite, Disciplined, OneWriter, ProducerInside, CursorOrder,
        consumerVars, TypeOK
  <2>7. UsedSlotsHoldValues'
    BY <1>3, <2>5, <1>d
    DEF EnqueueWrite, Disciplined, UsedSlotsHoldValues, consumerVars
  <2>8. ConsumerInside'
    <3>1. ASSUME cpc = "clear" PROVE buf'[Slot(head)] = buf[Slot(head)]
      <4>1. head # tail
        BY <3>1, Distance, <1>d DEF Disciplined, ConsumerInside, CursorOrder, TypeOK
      <4>2. 0 # Sub(tail, head) /\ Add(head, 0) = head
        BY <4>1, Distance DEF TypeOK, Cursor, Add
      <4> QED BY <2>5, <4>2
    <3> QED BY <1>3, <3>1 DEF EnqueueWrite, Disciplined, ConsumerInside, consumerVars
  <2>9. PublishesItsOwn'
    <3>1. Slot(tail) \in Slots BY Moving DEF TypeOK
    <3> QED BY <1>3, <2>1, <3>1 DEF EnqueueWrite, PublishesItsOwn, TypeOK
  <2> QED BY <2>6, <2>7, <2>8, <2>9 DEF Disciplined
<1>4. CASE EnqueuePublish(g)
  <2>1. /\ \A h \in Goroutines \ {g} : pc[h] = "idle"
        /\ localTail[g] = tail /\ arg[g] \in Values
        /\ Sub(tail, head) < Size
        /\ Sub(tail, cachedHead) < Size
    BY <1>4, Inside DEF EnqueuePublish, Disciplined, ProducerInside
  <2>2. tail' = Add(tail, 1) BY <1>4, <2>1 DEF EnqueuePublish
  <2>3. /\ Sub(tail', head) = Sub(tail, head) + 1
        /\ Sub(tail', cachedHead) = Sub(tail, cachedHead) + 1
        /\ Sub(tail', cachedTail) = Sub(tail, cachedTail) + 1
    <3>1. Sub(tail, cachedTail) < Size BY <2>1, <1>d DEF Disciplined, CursorOrder
    <3> QED BY <2>1, <2>2, <3>1, OneMore DEF TypeOK
  <2>4. OneWriter' /\ ProducerInside' /\ PublishesItsOwn'
    BY <1>4, <2>1 DEF EnqueuePublish, OneWriter, ProducerInside, PublishesItsOwn, TypeOK
  <2>5. CursorOrder'
    BY <1>4, <2>1, <2>3, <1>d DEF EnqueuePublish, Disciplined, CursorOrder, consumerVars
  <2>6. ConsumerInside'
    BY <1>4 DEF EnqueuePublish, Disciplined, ConsumerInside, consumerVars
  <2>7. UsedSlotsHoldValues'
    <3>1. Add(head, Sub(tail, head)) = tail BY Distance DEF TypeOK
    <3>2. buf[Slot(tail)] \in Values
      BY <1>4, <2>1 DEF EnqueuePublish, Disciplined, PublishesItsOwn
    <3> QED BY <1>4, <2>3, <3>1, <3>2, <1>d
            DEF EnqueuePublish, Disciplined, UsedSlotsHoldValues, consumerVars
  <2> QED BY <2>4, <2>5, <2>6, <2>7 DEF Disciplined
<1> QED BY <1>1, <1>2, <1>3, <1>4 DEF Enqueue

LEMMA ConsumerStep ==
  ASSUME TypeOK, TypeOK', Disciplined, Dequeue
  PROVE  Disciplined'
<1> USE RingAssumption
<1>d. /\ Sub(tail, head) \in 0 .. Wrap - 1
      /\ Sub(tail, cachedHead) \in 0 .. Wrap - 1
      /\ Sub(tail, cachedTail) \in 0 .. Wrap - 1
  BY Distance DEF TypeOK
<1>e. Dequeue => OneWriter' /\ ProducerInside'
  BY DEF Dequeue, DequeueStart, DequeueLoadTail, DequeueTake, DequeueClear,
         DequeueRelease, Disciplined, OneWriter, ProducerInside, producerVars
<1>1. CASE DequeueStart
  BY <1>1, <1>e
  DEF DequeueStart, Disciplined, CursorOrder, ConsumerInside, UsedSlotsHoldValues,
      PublishesItsOwn, producerVars
<1>2. CASE DequeueLoadTail
  <2>1. Sub(tail, tail) = 0 BY Distance DEF TypeOK
  <2> QED
    BY <1>2, <1>e, <1>d, <2>1
    DEF DequeueLoadTail, Disciplined, CursorOrder, ConsumerInside, UsedSlotsHoldValues,
        PublishesItsOwn, producerVars
<1>3. CASE DequeueTake
  BY <1>3, <1>e
  DEF DequeueTake, Disciplined, CursorOrder, ConsumerInside, UsedSlotsHoldValues,
      PublishesItsOwn, producerVars
<1> USE DEF Disciplined
<1>4. ASSUME cpc \in {"clear", "release"} PROVE Sub(tail, head) # 0
  BY <1>4, <1>d, Distance DEF ConsumerInside, CursorOrder, TypeOK
<1>5. CASE DequeueClear
  <2>1. /\ Add(head, 0) = head
        /\ \A i \in 0 .. Size - 1 : i # 0 => Slot(Add(head, i)) # Slot(head)
    <3>1. Add(head, 0) = head BY DEF TypeOK, Cursor, Add
    <3> QED BY <3>1, WindowSlots DEF TypeOK
  <2>2. \A i \in 0 .. Size - 1 : Slot(Add(head, i)) \in Slots
    BY Moving DEF TypeOK
  <2>3. UsedSlotsHoldValues'
    BY <1>5, <2>1, <2>2 DEF DequeueClear, UsedSlotsHoldValues, producerVars, TypeOK
  <2>4. ConsumerInside'
    BY <1>5, <1>4, <2>1, <1>d
    DEF DequeueClear, ConsumerInside, UsedSlotsHoldValues, producerVars
  <2>5. PublishesItsOwn'
    <3> SUFFICES ASSUME NEW g \in Goroutines, pc[g] = "publish"
                 PROVE  buf'[Slot(tail)] = arg[g]
      BY <1>5, Inside DEF DequeueClear, PublishesItsOwn, producerVars
    <3>1. Sub(tail, head) \in 1 .. Size - 1 /\ localTail[g] = tail
      BY <1>4, <1>5, <1>d, Inside DEF DequeueClear
    <3>2. Slot(tail) # Slot(head) /\ Slot(tail) \in Slots
      BY <3>1, <2>1, <2>2, Distance DEF TypeOK
    <3> QED BY <1>5, <3>1, <3>2 DEF DequeueClear, PublishesItsOwn, TypeOK
  <2>6. CursorOrder' BY <1>5 DEF DequeueClear, CursorOrder, producerVars
  <2> QED BY <1>5, <1>e, <2>3, <2>4, <2>5, <2>6
<1>6. CASE DequeueRelease
  <2>1. /\ Sub(tail, head') = Sub(tail, head) - 1
        /\ Sub(tail, cachedTail) <= Sub(tail, head')
    BY <1>6, <1>4, <1>d DEF DequeueRelease, ConsumerInside, CursorOrder, TypeOK,
                            Cursor, Add, Sub
  <2>2. CursorOrder'
    BY <1>6, <2>1, <1>d DEF DequeueRelease, CursorOrder, producerVars
  <2>3. UsedSlotsHoldValues'
    <3> SUFFICES ASSUME NEW i \in 0 .. Size - 1, i < Sub(tail, head')
                 PROVE  buf[Slot(Add(head', i))] \in Values
      BY <1>6 DEF DequeueRelease, UsedSlotsHoldValues, producerVars
    <3>1. Add(head', i) = Add(head, i + 1)
      BY <1>6 DEF DequeueRelease, TypeOK, Cursor, Add
    <3>2. i + 1 \in 0 .. Size - 1 /\ i + 1 < Sub(tail, head)
      BY <2>1, <1>d DEF CursorOrder
    <3> QED BY <3>1, <3>2, <1>d DEF UsedSlotsHoldValues
  <2>4. ConsumerInside' /\ PublishesItsOwn'
    BY <1>6 DEF DequeueRelease, ConsumerInside, PublishesItsOwn, producerVars
  <2> QED BY <1>6, <1>e, <2>2, <2>3, <2>4
<1> QED BY <1>1, <1>2, <1>3, <1>5, <1>6 DEF Dequeue

(* That two calls have overlapped is never forgotten.                      *)
LEMMA MetStays == [Next]_vars /\ ~met' /\ met \in BOOLEAN => ~met
<1> SUFFICES ASSUME [Next]_vars, met PROVE met'
  OBVIOUS
<1>1. ASSUME NEW g \in Goroutines, Enqueue(g) PROVE met'
  BY <1>1 DEF Enqueue, EnqueueLoadTail, EnqueueLoadHead, EnqueueWrite, EnqueuePublish
<1>2. CASE Dequeue
  BY <1>2 DEF Dequeue, DequeueStart, DequeueLoadTail, DequeueTake, DequeueClear,
              DequeueRelease, producerVars
<1>3. CASE UNCHANGED vars BY <1>3 DEF vars, producerVars
<1> QED BY <1>1, <1>2, <1>3 DEF Next

(* The strengthened invariant holds for any callers, pinned or not, until  *)
(* two of their calls overlap: the ring needs nothing else of the          *)
(* scheduler (spsc.go 6-9).                                                *)
THEOREM Discipline == Spec => []IInv
<1>1. Init => IInv BY InvInit DEF IInv
<1>2. TypeOK /\ TypeOK' /\ IInv /\ [Next]_vars => IInv'
  <2> SUFFICES ASSUME TypeOK, TypeOK', Disciplined, [Next]_vars, ~met'
               PROVE  Disciplined'
    BY MetStays DEF IInv, TypeOK
  <2>1. CASE UNCHANGED vars
    BY <2>1
    DEF vars, producerVars, consumerVars, Disciplined, OneWriter, CursorOrder,
        ProducerInside, ConsumerInside, UsedSlotsHoldValues, PublishesItsOwn
  <2> QED BY <2>1, ProducerStep, ConsumerStep DEF Next
<1> QED BY <1>1, <1>2, TypeCorrect, PTL DEF Spec

(* Callers that all pin their P never overlap: that much procPin gives,    *)
(* and the scan at the top of submitSlow is what is in its way.            *)
THEOREM PinnedNeverMeet ==
  ASSUME Unpinned = {} PROVE Spec => [](OneWriter /\ ~met)
<1>1. Init => OneWriter /\ ~met BY DEF Init, OneWriter
<1>2. TypeOK /\ OneWriter /\ ~met /\ [Next]_vars => (OneWriter /\ ~met)'
  <2> SUFFICES ASSUME TypeOK, OneWriter, ~met, [Next]_vars PROVE (OneWriter /\ ~met)'
    OBVIOUS
  <2> USE DEF TypeOK
  <2>1. ASSUME NEW g \in Goroutines, NEW v \in Values, EnqueueLoadTail(g, v)
        PROVE  (OneWriter /\ ~met)'
    <3>1. \A h \in Goroutines : pc[h] = "idle"
      BY <2>1 DEF EnqueueLoadTail, MayEnter
    <3> QED BY <2>1, <3>1 DEF EnqueueLoadTail, OneWriter
  <2>2. ASSUME NEW g \in Goroutines,
               EnqueueLoadHead(g) \/ EnqueueWrite(g) \/ EnqueuePublish(g)
        PROVE  (OneWriter /\ ~met)'
    BY <2>2 DEF EnqueueLoadHead, EnqueueWrite, EnqueuePublish, OneWriter
  <2>3. CASE Dequeue \/ UNCHANGED vars
    BY <2>3 DEF Dequeue, DequeueStart, DequeueLoadTail, DequeueTake, DequeueClear,
                DequeueRelease, vars, producerVars, OneWriter
  <2> QED BY <2>1, <2>2, <2>3 DEF Next, Enqueue
<1> QED BY <1>1, <1>2, TypeCorrect, PTL DEF Spec

(* Until two calls of Enqueue overlap, the producer and the consumer never *)
(* touch the same slot: the plain accesses to buf in Enqueue and Dequeue   *)
(* do not race (spsc.go 73, 92-93).                                        *)
THEOREM RaceFree == Spec => []NoSlotRace
<1>1. TypeOK /\ IInv => NoSlotRace
  <2> SUFFICES ASSUME TypeOK, Disciplined, NEW g \in Goroutines,
                      pc[g] = "write", cpc \in {"take", "clear"}
               PROVE  Slot(localTail[g]) # Slot(head)
    BY DEF NoSlotRace, IInv
  <2>1. localTail[g] = tail /\ Sub(tail, head) < Size
    BY Inside
  <2>2. Sub(tail, head) > 0
    BY Distance DEF Disciplined, ConsumerInside, CursorOrder, TypeOK
  <2> QED BY <2>1, <2>2, SlotsDiffer DEF TypeOK
<1> QED BY <1>1, TypeCorrect, Discipline, PTL
-----------------------------------------------------------------------------
(***************************************************************************)
(* The slots that are not in use hold the zero value.                      *)
(***************************************************************************)
ZeroedSlots ==
  \A i \in 0 .. Size - 1 :
    \/ i < Sub(tail, head) /\ ~(i = 0 /\ cpc = "release")
    \/ i = Sub(tail, head) /\ \E g \in Goroutines : pc[g] = "publish"
    \/ buf[Slot(Add(head, i))] = Zero

LEMMA FreeSlotsStep ==
  ASSUME TypeOK, TypeOK', Disciplined, ZeroedSlots, [Next]_vars
  PROVE  ZeroedSlots'
<1> USE RingAssumption
<1>d. Sub(tail, head) \in 0 .. Wrap - 1
  BY Distance DEF TypeOK
<1>s. \A i \in 0 .. Size - 1 : Slot(Add(head, i)) \in Slots
  BY Moving DEF TypeOK
<1>1. ASSUME NEW g \in Goroutines, NEW v \in Values, EnqueueLoadTail(g, v)
      PROVE  ZeroedSlots'
  BY <1>1 DEF EnqueueLoadTail, ZeroedSlots, consumerVars, TypeOK
<1>2. ASSUME NEW g \in Goroutines, EnqueueLoadHead(g)
      PROVE  ZeroedSlots'
  BY <1>2 DEF EnqueueLoadHead, ZeroedSlots, consumerVars, TypeOK
<1>3. ASSUME NEW g \in Goroutines, EnqueueWrite(g)
      PROVE  ZeroedSlots'
  <2>1. localTail[g] = tail /\ Sub(tail, head) < Size
    BY <1>3, Inside DEF EnqueueWrite
  <2>2. Add(head, Sub(tail, head)) = tail BY Distance DEF TypeOK
  <2>3. \A i \in 0 .. Size - 1 :
          i # Sub(tail, head) => Slot(Add(head, i)) # Slot(tail)
    BY <2>1, <2>2, <1>d, WindowSlots DEF TypeOK
  <2>4. \A i \in 0 .. Size - 1 :
          i # Sub(tail, head) => buf'[Slot(Add(head, i))] = buf[Slot(Add(head, i))]
    BY <1>3, <1>s, <2>1, <2>3 DEF EnqueueWrite, TypeOK
  <2>5. pc'[g] = "publish" BY <1>3 DEF EnqueueWrite, TypeOK
  <2>6. UNCHANGED <<tail, head, cpc>> BY <1>3 DEF EnqueueWrite, consumerVars
  <2>7. \A h \in Goroutines : pc[h] # "publish" BY <1>3, Inside DEF EnqueueWrite
  <2> QED BY <2>4, <2>5, <2>6, <2>7 DEF ZeroedSlots
<1>4. ASSUME NEW g \in Goroutines, EnqueuePublish(g)
      PROVE  ZeroedSlots'
  <2>1. localTail[g] = tail /\ Sub(tail, head) < Size
    BY <1>4, Inside DEF EnqueuePublish
  <2>2. Sub(tail', head) = Sub(tail, head) + 1
    BY <1>4, <2>1, OneMore DEF EnqueuePublish, TypeOK
  <2>3. UNCHANGED <<buf, head, cpc>> BY <1>4 DEF EnqueuePublish, consumerVars
  <2>4. cpc = "release" => Sub(tail, head) # 0
    BY <1>d, Distance DEF Disciplined, ConsumerInside, CursorOrder, TypeOK
  <2> QED BY <2>2, <2>3, <2>4, <1>d DEF ZeroedSlots
<1>5. CASE DequeueStart
  BY <1>5 DEF DequeueStart, ZeroedSlots, producerVars
<1>6. CASE DequeueLoadTail
  BY <1>6 DEF DequeueLoadTail, ZeroedSlots, producerVars
<1>7. CASE DequeueTake
  BY <1>7 DEF DequeueTake, ZeroedSlots, producerVars
<1>8. CASE DequeueClear
  <2>1. Add(head, 0) = head BY DEF TypeOK, Cursor, Add
  <2>2. \A i \in 0 .. Size - 1 : i # 0 => Slot(Add(head, i)) # Slot(head)
    BY <2>1, WindowSlots DEF TypeOK
  <2>3. /\ buf'[Slot(head)] = Zero
        /\ \A i \in 0 .. Size - 1 :
             i # 0 => buf'[Slot(Add(head, i))] = buf[Slot(Add(head, i))]
    BY <1>8, <1>s, <2>1, <2>2 DEF DequeueClear, TypeOK
  <2>4. UNCHANGED <<tail, head, pc>> /\ cpc = "clear"
    BY <1>8 DEF DequeueClear, producerVars
  <2> QED BY <2>1, <2>3, <2>4 DEF ZeroedSlots
<1>9. CASE DequeueRelease
  <2>1. Sub(tail, head) # 0
    BY <1>9, <1>d, Distance DEF DequeueRelease, Disciplined, ConsumerInside, CursorOrder, TypeOK
  <2>2. Sub(tail, head') = Sub(tail, head) - 1
    BY <1>9, <1>d, <2>1 DEF DequeueRelease, TypeOK, Cursor, Add, Sub
  <2>3. UNCHANGED <<tail, pc, buf>> /\ cpc = "release" /\ cpc' = "idle"
    BY <1>9 DEF DequeueRelease, producerVars
  <2>4. \A i \in 0 .. Size - 1 : Add(head', i) = Add(head, i + 1)
    BY <1>9 DEF DequeueRelease, TypeOK, Cursor, Add
  <2>5. buf[Slot(Add(head, Size))] = Zero
    <3>1. Add(head, 0) = head /\ 0 \in 0 .. Size - 1 BY DEF TypeOK, Cursor, Add
    <3>2. buf[Slot(head)] = Zero BY <2>1, <2>3, <3>1, <1>d DEF ZeroedSlots
    <3> QED BY <3>2, FullRound DEF TypeOK
  <2> SUFFICES ASSUME NEW i \in 0 .. Size - 1,
                      ~(i < Sub(tail, head')),
                      ~(i = Sub(tail, head') /\ \E g \in Goroutines : pc[g] = "publish")
               PROVE  buf[Slot(Add(head, i + 1))] = Zero
    BY <2>3, <2>4 DEF ZeroedSlots
  <2>6. CASE i = Size - 1 BY <2>5, <2>6
  <2>7. CASE i # Size - 1
    <3>1. i + 1 \in 0 .. Size - 1 /\ ~(i + 1 < Sub(tail, head)) /\ i + 1 # 0
      BY <2>7, <2>2, <1>d
    <3>2. i + 1 = Sub(tail, head) => i = Sub(tail, head')
      BY <2>2, <1>d
    <3> QED BY <3>1, <3>2 DEF ZeroedSlots
  <2> QED BY <2>6, <2>7
<1>10. CASE UNCHANGED vars
  BY <1>10 DEF vars, producerVars, consumerVars, ZeroedSlots
<1> QED
  BY <1>1, <1>2, <1>3, <1>4, <1>5, <1>6, <1>7, <1>8, <1>9, <1>10
  DEF Next, Enqueue, Dequeue

(* Until two calls of Enqueue overlap, the ring never keeps a consumed     *)
(* event reachable (spsc.go 93).                                           *)
THEOREM NothingRetained == Spec => []FreeSlotsAreZero
<1>1. Init => FreeSlotsAreZero
  <2> SUFFICES ASSUME Init, NEW i \in 0 .. Size - 1
               PROVE  buf[Slot(Add(head, i))] = Zero
    BY DEF FreeSlotsAreZero
  <2>1. head \in Cursor /\ i \in 0 .. Size
    BY RingAssumption DEF Init, Cursor
  <2> QED BY <2>1, Moving, RingAssumption DEF Init, Slots
<1>2. TypeOK /\ TypeOK' /\ IInv /\ FreeSlotsAreZero /\ [Next]_vars => FreeSlotsAreZero'
  <2> SUFFICES ASSUME TypeOK, TypeOK', IInv, FreeSlotsAreZero, [Next]_vars, ~met'
               PROVE  ZeroedSlots'
    BY DEF FreeSlotsAreZero, ZeroedSlots
  <2>1. ~met BY MetStays DEF TypeOK
  <2>2. Disciplined BY <2>1 DEF IInv
  <2>3. ZeroedSlots BY <2>1 DEF FreeSlotsAreZero, ZeroedSlots
  <2> QED BY <2>2, <2>3, FreeSlotsStep
<1> QED BY <1>1, <1>2, TypeCorrect, Discipline, PTL DEF Spec
-----------------------------------------------------------------------------
(***************************************************************************)
(* Until two calls of Enqueue overlap, the ring implements the queue of    *)
(* BoundedFifo.                                                            *)
(***************************************************************************)
ContentsOK ==
  /\ Contents \in Seq(Values \cup {Zero})
  /\ Len(Contents) = Sub(tail, head)

LEMMA ContentsType == TypeOK => ContentsOK
<1> SUFFICES ASSUME TypeOK PROVE ContentsOK
  OBVIOUS
<1>1. Sub(tail, head) \in Nat
  BY RingAssumption, Distance DEF TypeOK
<1>2. \A i \in 1 .. Sub(tail, head) : Slot(Add(head, i - 1)) \in Slots
  <2> SUFFICES ASSUME NEW i \in 1 .. Sub(tail, head)
               PROVE  Add(head, i - 1) \in Cursor
    <3>1. \A c \in Cursor : Slot(c) \in Slots BY Moving, RingAssumption
    <3> QED BY <3>1
  <2>1. i - 1 \in 0 .. Wrap - 1
    BY <1>1, RingAssumption, Distance DEF TypeOK
  <2> QED BY <2>1, RingAssumption DEF TypeOK, Cursor, Add
<1>3. Contents \in [1 .. Sub(tail, head) -> Values \cup {Zero}]
  BY <1>2 DEF Contents, TypeOK
<1> QED BY <1>1, <1>3 DEF ContentsOK

(* The queue does not change while neither cursor moves and no slot of the *)
(* window is written.                                                      *)
LEMMA SameContents ==
  ASSUME TypeOK, TypeOK', UNCHANGED <<tail, head>>,
         \A i \in 1 .. Sub(tail, head) :
           (IF i = 1 /\ cpc' = "release" THEN taken' ELSE buf'[Slot(Add(head, i - 1))])
             = (IF i = 1 /\ cpc = "release" THEN taken ELSE buf[Slot(Add(head, i - 1))])
  PROVE  Contents' = Contents
BY DEF Contents

(* Whoever calls Enqueue, each call and each Dequeue takes effect at once  *)
(* on a bounded queue, until two calls of Enqueue overlap.                 *)
THEOREM Implements == Spec => RefinesFifo
<1> USE RingAssumption
<1>1. Init => Fifo!Init
  <2> SUFFICES ASSUME Init PROVE Fifo!Init
    OBVIOUS
  <2>1. Sub(tail, head) = 0 BY DEF Init, Sub
  <2>2. Contents = << >> BY <2>1 DEF Contents
  <2> QED BY <2>2 DEF Init, Fifo!Init
<1>2. /\ TypeOK /\ TypeOK' /\ IInv /\ [Next]_vars
      => [Fifo!Next \/ met']_(Fifo!vars)
  <2> SUFFICES ASSUME TypeOK, TypeOK', Disciplined, [Next]_vars, ~met'
               PROVE  Fifo!Next \/ UNCHANGED Fifo!vars
    BY MetStays DEF IInv, TypeOK
  <2>d. Sub(tail, head) \in 0 .. Size
    BY Distance DEF TypeOK, Disciplined, CursorOrder
  <2>s. \A i \in 1 .. Sub(tail, head) : Slot(Add(head, i - 1)) \in Slots
    BY <2>d, Moving DEF TypeOK
  <2>1. ASSUME NEW g \in Goroutines, NEW v \in Values, EnqueueLoadTail(g, v)
        PROVE  UNCHANGED Fifo!vars
    BY <2>1 DEF EnqueueLoadTail, consumerVars, Contents, Fifo!vars
  <2>2. ASSUME NEW g \in Goroutines, EnqueueLoadHead(g)
        PROVE  Fifo!Refuse(g) \/ UNCHANGED Fifo!vars
    <3>0. UNCHANGED <<Contents, got>>
      BY <2>2 DEF EnqueueLoadHead, consumerVars, Contents
    <3>1. CASE Full(localTail[g], head)
      <4>1. Sub(tail, head) = Size
        BY <2>2, <2>d, <3>1, Inside DEF EnqueueLoadHead, Full
      <4> QED BY <2>2, <3>0, <3>1, <4>1, ContentsType DEF ContentsOK, EnqueueLoadHead, Fifo!Refuse
    <3>2. CASE ~Full(localTail[g], head)
      BY <2>2, <3>0, <3>2 DEF EnqueueLoadHead, Fifo!vars
    <3> QED BY <3>1, <3>2
  <2>3. ASSUME NEW g \in Goroutines, EnqueueWrite(g)
        PROVE  UNCHANGED Fifo!vars
    <3>1. localTail[g] = tail /\ Sub(tail, head) < Size
      BY <2>3, Inside DEF EnqueueWrite
    <3>2. Add(head, Sub(tail, head)) = tail BY Distance DEF TypeOK
    <3>3. ASSUME NEW i \in 1 .. Sub(tail, head)
          PROVE  Slot(Add(head, i - 1)) # Slot(tail)
      <4>1. /\ i - 1 \in 0 .. Size - 1 /\ Sub(tail, head) \in 0 .. Size - 1
            /\ i - 1 # Sub(tail, head)
        BY <3>1, <2>d
      <4> QED BY <3>2, <4>1, WindowSlots DEF TypeOK
    <3>4. \A i \in 1 .. Sub(tail, head) :
            buf'[Slot(Add(head, i - 1))] = buf[Slot(Add(head, i - 1))]
      BY <2>3, <2>s, <3>1, <3>3 DEF EnqueueWrite, TypeOK
    <3>5. Contents' = Contents
      BY <2>3, <3>4, SameContents DEF EnqueueWrite, consumerVars
    <3> QED BY <2>3, <3>5 DEF EnqueueWrite, consumerVars, Fifo!vars
  <2>4. ASSUME NEW g \in Goroutines, EnqueuePublish(g)
        PROVE  Fifo!Accept(g, arg[g])
    <3>1. /\ localTail[g] = tail /\ arg[g] \in Values
          /\ Sub(tail, head) < Size /\ buf[Slot(tail)] = arg[g]
      BY <2>4, Inside DEF EnqueuePublish, Disciplined, PublishesItsOwn
    <3>2. Sub(tail', head) = Sub(tail, head) + 1
      BY <2>4, <3>1, OneMore DEF EnqueuePublish, TypeOK
    <3>3. Add(head, Sub(tail, head)) = tail BY Distance DEF TypeOK
    <3>4. cpc = "release" => Sub(tail, head) # 0
      BY <2>d, Distance DEF Disciplined, ConsumerInside, CursorOrder, TypeOK
    <3>5. Contents' = Append(Contents, arg[g])
      <4> DEFINE n == Sub(tail, head)
      <4>1. /\ Len(Contents) = n /\ Contents \in Seq(Values \cup {Zero})
            /\ Len(Contents') = n + 1 /\ Contents' \in Seq(Values \cup {Zero})
        <5>1. head' = head BY <2>4 DEF EnqueuePublish, consumerVars
        <5>2. ContentsOK' BY ContentsType, PTL
        <5> QED BY <3>2, <5>1, <5>2, ContentsType DEF ContentsOK
      <4>2. \A i \in 1 .. n : Contents'[i] = Contents[i]
        BY <2>4, <3>2, <2>d DEF EnqueuePublish, consumerVars, Contents
      <4>3. Contents'[n + 1] = arg[g]
        BY <2>4, <3>1, <3>2, <3>3, <3>4, <2>d DEF EnqueuePublish, consumerVars, Contents
      <4> HIDE DEF n
      <4>4. n \in Nat BY <2>d DEF n
      <4> QED BY <3>1, <4>1, <4>2, <4>3, <4>4
    <3> QED BY <2>4, <3>1, <3>5, ContentsType
            DEF ContentsOK, EnqueuePublish, consumerVars, Fifo!Accept
  <2>5. CASE DequeueStart
    BY <2>5 DEF DequeueStart, producerVars, Contents, Fifo!vars
  <2>6. CASE DequeueLoadTail
    <3>1. UNCHANGED <<Contents, ok>>
      BY <2>6 DEF DequeueLoadTail, producerVars, Contents
    <3>2. CASE head = tail
      <4>1. Sub(tail, head) = 0 BY <3>2, Distance DEF TypeOK
      <4>2. Contents = << >> BY <4>1 DEF Contents
      <4> QED BY <2>6, <3>1, <3>2, <4>2 DEF DequeueLoadTail, Fifo!Next, Fifo!PollEmpty
    <3>3. CASE head # tail
      BY <2>6, <3>1, <3>3 DEF DequeueLoadTail, Fifo!vars
    <3> QED BY <3>2, <3>3
  <2>7. CASE DequeueTake
    BY <2>7 DEF DequeueTake, producerVars, Contents, Fifo!vars
  <2>8. CASE DequeueClear
    <3>1. Add(head, 0) = head BY DEF TypeOK, Cursor, Add
    <3>2. ASSUME NEW i \in 1 .. Sub(tail, head), i # 1
          PROVE  Slot(Add(head, i - 1)) # Slot(head)
      <4>1. i - 1 \in 0 .. Size - 1 /\ i - 1 # 0 /\ 0 \in 0 .. Size - 1
        BY <3>2, <2>d
      <4> QED BY <3>1, <4>1, WindowSlots DEF TypeOK
    <3>3. \A i \in 1 .. Sub(tail, head) :
            i # 1 => buf'[Slot(Add(head, i - 1))] = buf[Slot(Add(head, i - 1))]
      BY <2>8, <2>s, <3>2 DEF DequeueClear, TypeOK
    <3>4. taken = buf[Slot(Add(head, 1 - 1))]
      BY <2>8, <3>1 DEF DequeueClear, Disciplined, ConsumerInside
    <3>5. Contents' = Contents
      BY <2>8, <3>3, <3>4, SameContents DEF DequeueClear, producerVars
    <3> QED BY <2>8, <3>5 DEF DequeueClear, producerVars, Fifo!vars
  <2>9. CASE DequeueRelease
    <3>1. Sub(tail, head) # 0
      BY <2>9, <2>d, Distance DEF DequeueRelease, Disciplined, ConsumerInside, CursorOrder, TypeOK
    <3>2. Sub(tail, head') = Sub(tail, head) - 1
      BY <2>9, <2>d, <3>1 DEF DequeueRelease, TypeOK, Cursor, Add, Sub
    <3>3. UNCHANGED <<tail, buf, ok, taken>> /\ cpc = "release" /\ cpc' = "idle"
      BY <2>9 DEF DequeueRelease, producerVars
    <3>4. Head(Contents) = taken /\ Contents # << >>
      BY <3>1, <3>3, <2>d, ContentsType DEF ContentsOK, Contents
    <3>5. Contents' = Tail(Contents)
      <4> DEFINE n == Sub(tail, head)
      <4>1. n \in Nat \ {0} BY <3>1, <2>d
      <4>2. /\ Len(Contents) = n /\ Contents \in Seq(Values \cup {Zero})
            /\ Len(Contents') = n - 1 /\ Contents' \in Seq(Values \cup {Zero})
        <5>1. ContentsOK' BY ContentsType, PTL
        <5> QED BY <3>2, <3>3, <5>1, ContentsType DEF ContentsOK
      <4>3. \A i \in 1 .. n - 1 : Contents'[i] = Contents[i + 1]
        <5> SUFFICES ASSUME NEW i \in 1 .. n - 1 PROVE Contents'[i] = Contents[i + 1]
          OBVIOUS
        <5>1. Add(head', i - 1) = Add(head, i)
          BY <2>9, <2>d DEF DequeueRelease, TypeOK, Cursor, Add
        <5>2. Contents'[i] = buf[Slot(Add(head', i - 1))]
          BY <3>2, <3>3, <2>d DEF Contents
        <5>3. Contents[i + 1] = buf[Slot(Add(head, i))]
          BY <2>d DEF Contents
        <5> QED BY <5>1, <5>2, <5>3
      <4> HIDE DEF n
      <4> QED BY <4>1, <4>2, <4>3
    <3> QED BY <2>9, <3>3, <3>4, <3>5 DEF DequeueRelease, Fifo!Next, Fifo!Poll
  <2>10. CASE UNCHANGED vars
    BY <2>10 DEF vars, producerVars, consumerVars, Contents, Fifo!vars
  <2> QED
    BY <2>1, <2>2, <2>3, <2>4, <2>5, <2>6, <2>7, <2>8, <2>9, <2>10, Inside
    DEF Next, Enqueue, Dequeue, Fifo!Next, EnqueuePublish
<1> QED BY <1>1, <1>2, TypeCorrect, Discipline, PTL DEF Spec, RefinesFifo
=============================================================================
