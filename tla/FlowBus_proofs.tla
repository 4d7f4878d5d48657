--------------------------- MODULE FlowBus_proofs ---------------------------
(* Theorems about FlowBus, for any numbers of shards, emitters and         *)
(* closers, rings and batches of every size, and any calls.                *)
EXTENDS FlowBus, FiniteSetTheorems, WellFoundedInduction, TLAPS

(***************************************************************************)
(* The inductive invariant.                                                *)
(***************************************************************************)
Holding == {"push", "publish", "slow", "single"}

TypeInv ==
  /\ queue \in [Shards -> Seq(Events)]
  /\ batch \in [Shards -> Seq(Events)]
  /\ cpc \in [Shards -> {"poll", "wait", "handle", "exited"}]
  /\ closing \in [Shards -> BOOLEAN]
  /\ epc \in [Emitters -> Holding \cup {"idle", "notify"}]
  /\ call \in [Emitters -> Nat]
  /\ todo \in [Emitters -> Seq(Events \cup {Nil})]
  /\ try \in [Emitters -> 0 .. NumShards]
  /\ dpc \in [Closers -> {"idle", "close", "wait", "returned"}]
  /\ owed \in [Closers -> SUBSET Events]
  /\ closed \in BOOLEAN /\ done \in BOOLEAN
  /\ handled \in Seq(Events)
  /\ accepted \subseteq Events /\ lost \subseteq Events /\ slowed \subseteq Events

(* What each program counter has established.                              *)
Counters ==
  /\ \A s \in Shards : cpc[s] # "handle" => batch[s] = << >>
  /\ \A g \in Emitters :
       /\ epc[g] \in Holding <=> todo[g] # << >>
       /\ epc[g] \in Holding \ {"push"} => Head(todo[g]) # Nil
       /\ call[g] <= Len(Calls[g])

(* What an emitter has still to place is the end of its call's batch.      *)
EndOfCall ==
  \A g \in Emitters : todo[g] # << >> =>
    /\ call[g] \in DOMAIN Calls[g]
    /\ Len(todo[g]) <= Len(Calls[g][call[g]])
    /\ \A i \in 1 .. Len(todo[g]) :
         todo[g][i] = Calls[g][call[g]][Len(Calls[g][call[g]]) - Len(todo[g]) + i]

(* The places an event may be in.                                          *)
Contents(seqs) == UNION {ToSet(seqs[x]) : x \in DOMAIN seqs}
InQueues == Contents(queue)
InBatches == Contents(batch)
InHands == Contents(todo) \ (Unpublished \cup {Nil})

Partition(Q, B, T, H, L, A) ==
  /\ A = Q \cup B \cup T \cup H \cup L
  /\ Q \cap B = {} /\ Q \cap T = {} /\ Q \cap H = {} /\ Q \cap L = {}
  /\ B \cap T = {} /\ B \cap H = {} /\ B \cap L = {}
  /\ T \cap H = {} /\ T \cap L = {} /\ H \cap L = {}

(* Nothing but what may be is twice in one of the sequences, or in two.    *)
Once(seqs, but) ==
  \A s, t \in DOMAIN seqs : \A i \in 1 .. Len(seqs[s]), j \in 1 .. Len(seqs[t]) :
    seqs[s][i] = seqs[t][j] /\ seqs[s][i] \notin but => s = t /\ i = j
Distinct(seq) == \A i, j \in 1 .. Len(seq) : seq[i] = seq[j] => i = j

Exclusive ==
  /\ Partition(InQueues, InBatches, InHands, ToSet(handled), lost, accepted)
  /\ Unpublished \subseteq InQueues
  /\ Once(queue, {}) /\ Once(batch, {}) /\ Distinct(handled)

(* An accepted event is one of a call that was begun.                      *)
Begun ==
  \A e \in accepted :
    \E g \in Emitters : \E k \in DOMAIN Calls[g] :
      k <= call[g] /\ \E i \in DOMAIN Calls[g][k] : Calls[g][k][i] = e

BusInv == TypeInv /\ Counters /\ EndOfCall /\ Exclusive /\ Begun

(* An event that did not leave the way of its shard is where its shard is. *)
Home ==
  \A s \in Shards : \A e \in (ToSet(queue[s]) \cup ToSet(batch[s])) \ slowed : ShardOf[e] = s

(* Of two events of an emitter and a shard that did not leave its way, the *)
(* one emitted first is ahead, or lost, or was emitted on a closed bus.    *)
Gone(e) == e \in lost \/ e \notin accepted
AheadInBatch(e, s, m) ==
  \/ Gone(e) \/ e \in ToSet(handled)
  \/ \E i \in 1 .. Len(batch[s]) : i < m /\ batch[s][i] = e
AheadInQueue(e, s, m) ==
  \/ Gone(e) \/ e \in ToSet(handled) \/ e \in ToSet(batch[s])
  \/ \E i \in 1 .. Len(queue[s]) : i < m /\ queue[s][i] = e
AheadInHandled(e, m) ==
  \/ Gone(e)
  \/ \E i \in 1 .. Len(handled) : i < m /\ handled[i] = e

Paired(g, e, f) ==
  /\ EmittedBefore(g, e, f) /\ ShardOf[e] = ShardOf[f]
  /\ e \notin slowed /\ f \notin slowed

Ordered(e, f) ==
  /\ \A m \in 1 .. Len(handled) : handled[m] = f => AheadInHandled(e, m)
  /\ \A s \in Shards : \A m \in 1 .. Len(batch[s]) : batch[s][m] = f => AheadInBatch(e, s, m)
  /\ \A s \in Shards : \A m \in 1 .. Len(queue[s]) : queue[s][m] = f => AheadInQueue(e, s, m)

InOrder == \A g \in Emitters, e, f \in Events : Paired(g, e, f) => Ordered(e, f)

OrderInv == BusInv /\ Home /\ InOrder

(* What popBatch finds in the ring of s, and what s has still to handle.   *)
Visible(s) ==
  {queue[s][i] : i \in {j \in 1 .. Len(queue[s]) : \A k \in 1 .. j : queue[s][k] \notin Unpublished}}
Pending(s) == ToSet(batch[s]) \cup Visible(s)

(* Consumers leave only when the bus is closed, and what is owed to a      *)
(* closer is handled or lost or with a consumer that has not left.         *)
Owing ==
  ToSet(handled) \cup lost \cup UNION {Pending(s) : s \in {t \in Shards : cpc[t] # "exited"}}

Shutdown ==
  /\ \A s \in Shards : closing[s] \/ cpc[s] = "exited" => done
  /\ done => closed
  /\ \A d \in Closers :
       /\ owed[d] \subseteq Owing
       /\ dpc[d] \in {"close", "wait"} => closed
       /\ dpc[d] = "returned" => owed[d] = {} \/ \A s \in Shards : cpc[s] = "exited"

DrainInv == BusInv /\ Shutdown

(***************************************************************************)
(* Sequences, and families of sequences.                                   *)
(***************************************************************************)
LEMMA Elements ==
  ASSUME NEW S, NEW q \in Seq(S)
  PROVE  /\ ToSet(q) = {q[i] : i \in 1 .. Len(q)} /\ ToSet(q) \subseteq S
         /\ ToSet(q) = {} <=> q = << >>
         /\ Len(q) \in Nat
<1>1. ToSet(q) = {q[i] : i \in 1 .. Len(q)} /\ Len(q) \in Nat BY DEF ToSet
<1>2. q = << >> <=> Len(q) = 0 OBVIOUS
<1>3. \A i \in 1 .. Len(q) : q[i] \in S OBVIOUS
<1>4. q # << >> => q[1] \in ToSet(q) BY <1>1, <1>2
<1> QED BY <1>1, <1>2, <1>3, <1>4

LEMMA Appending ==
  ASSUME NEW S, NEW q \in Seq(S), NEW e \in S
  PROVE  /\ Append(q, e) \in Seq(S) /\ Len(Append(q, e)) = Len(q) + 1
         /\ \A i \in 1 .. Len(q) : Append(q, e)[i] = q[i]
         /\ Append(q, e)[Len(q) + 1] = e
         /\ ToSet(Append(q, e)) = ToSet(q) \cup {e}
<1>1. /\ Append(q, e) \in Seq(S) /\ Len(Append(q, e)) = Len(q) + 1
      /\ \A i \in 1 .. Len(q) : Append(q, e)[i] = q[i]
      /\ Append(q, e)[Len(q) + 1] = e
  OBVIOUS
<1>2. ToSet(Append(q, e)) \subseteq ToSet(q) \cup {e}
  <2>1. SUFFICES ASSUME NEW i \in 1 .. Len(q) + 1
                 PROVE  Append(q, e)[i] \in ToSet(q) \cup {e}
    BY <1>1 DEF ToSet
  <2> QED BY <1>1, <2>1 DEF ToSet
<1>3. ToSet(q) \cup {e} \subseteq ToSet(Append(q, e))
  BY <1>1 DEF ToSet
<1> QED BY <1>1, <1>2, <1>3

LEMMA Cutting ==
  ASSUME NEW S, NEW q \in Seq(S), q # << >>
  PROVE  /\ Tail(q) \in Seq(S) /\ Head(q) \in S /\ Head(q) = q[1] /\ Len(Tail(q)) = Len(q) - 1
         /\ \A i \in 1 .. Len(q) - 1 : Tail(q)[i] = q[i + 1]
         /\ ToSet(q) = ToSet(Tail(q)) \cup {Head(q)}
<1>1. /\ Tail(q) \in Seq(S) /\ Head(q) \in S /\ Head(q) = q[1] /\ Len(Tail(q)) = Len(q) - 1
      /\ \A i \in 1 .. Len(q) - 1 : Tail(q)[i] = q[i + 1] /\ Len(q) \in Nat \ {0}
  OBVIOUS
<1>2. ToSet(q) \subseteq ToSet(Tail(q)) \cup {Head(q)}
  <2>1. SUFFICES ASSUME NEW i \in 1 .. Len(q) PROVE q[i] \in ToSet(Tail(q)) \cup {Head(q)}
    BY Elements
  <2>2. CASE i = 1 BY <1>1, <2>2
  <2>3. CASE i # 1
    <3>1. i - 1 \in 1 .. Len(Tail(q)) /\ Tail(q)[i - 1] = q[i] BY <1>1, <2>3
    <3>2. ToSet(Tail(q)) = {Tail(q)[k] : k \in 1 .. Len(Tail(q))} BY <1>1, Elements
    <3> QED BY <3>1, <3>2
  <2> QED BY <2>2, <2>3
<1>3. ToSet(Tail(q)) \cup {Head(q)} \subseteq ToSet(q)
  <2>1. ASSUME NEW i \in 1 .. Len(Tail(q)) PROVE Tail(q)[i] \in ToSet(q)
    BY <1>1 DEF ToSet
  <2> QED BY <1>1, <2>1 DEF ToSet
<1> QED BY <1>1, <1>2, <1>3

LEMMA Splitting ==
  ASSUME NEW S, NEW q \in Seq(S), NEW n \in 0 .. Len(q)
  PROVE  /\ SubSeq(q, 1, n) \in Seq(S) /\ SubSeq(q, n + 1, Len(q)) \in Seq(S)
         /\ Len(SubSeq(q, 1, n)) = n /\ Len(SubSeq(q, n + 1, Len(q))) = Len(q) - n
         /\ \A i \in 1 .. n : SubSeq(q, 1, n)[i] = q[i]
         /\ \A i \in 1 .. Len(q) - n : SubSeq(q, n + 1, Len(q))[i] = q[n + i]
         /\ ToSet(q) = ToSet(SubSeq(q, 1, n)) \cup ToSet(SubSeq(q, n + 1, Len(q)))
<1> DEFINE a == SubSeq(q, 1, n)
           b == SubSeq(q, n + 1, Len(q))
<1>1. /\ a \in Seq(S) /\ b \in Seq(S) /\ Len(a) = n /\ Len(b) = Len(q) - n /\ Len(q) \in Nat
      /\ \A i \in 1 .. n : a[i] = q[i]
      /\ \A i \in 1 .. Len(q) - n : b[i] = q[n + i]
  OBVIOUS
<1> HIDE DEF a, b
<1>2. ToSet(q) \subseteq ToSet(a) \cup ToSet(b)
  <2>1. SUFFICES ASSUME NEW i \in 1 .. Len(q) PROVE q[i] \in ToSet(a) \cup ToSet(b)
    BY Elements
  <2>0. /\ ToSet(a) = {a[k] : k \in 1 .. Len(a)}
         /\ ToSet(b) = {b[k] : k \in 1 .. Len(b)}
    BY <1>1, Elements
  <2>2. CASE i <= n
    <3>1. i \in 1 .. Len(a) /\ a[i] = q[i] BY <1>1, <2>2
    <3> QED BY <2>0, <3>1
  <2>3. CASE i > n
    <3>1. i - n \in 1 .. Len(b) /\ b[i - n] = q[i] BY <1>1, <2>3
    <3> QED BY <2>0, <3>1
  <2> QED BY <2>2, <2>3
<1>3. ToSet(a) \subseteq ToSet(q) BY <1>1 DEF ToSet
<1>4. ToSet(b) \subseteq ToSet(q)
  <2>1. ASSUME NEW i \in 1 .. Len(b) PROVE b[i] \in ToSet(q)
    <3>1. n + i \in 1 .. Len(q) /\ b[i] = q[n + i] BY <1>1
    <3>2. ToSet(q) = {q[k] : k \in 1 .. Len(q)} BY Elements
    <3> QED BY <3>1, <3>2
  <2>2. ToSet(b) = {b[k] : k \in 1 .. Len(b)} BY <1>1, Elements
  <2> QED BY <2>1, <2>2
<1> QED BY <1>1, <1>2, <1>3, <1>4 DEF a, b

Family(f, I, S) == f \in [I -> Seq(S)]
SameBut(f, h, I, x) == \A y \in I \ {x} : h[y] = f[y]
Longer(r, q, e) == r = Append(q, e)
Shorter(r, q) == q # << >> /\ r = Tail(q)
CutAt(q, n, p, r) ==
  /\ n \in 0 .. Len(q) /\ Len(p) = n /\ Len(r) = Len(q) - n
  /\ \A i \in 1 .. n : p[i] = q[i]
  /\ \A i \in 1 .. Len(q) - n : r[i] = q[n + i]
  /\ ToSet(q) = ToSet(p) \cup ToSet(r)

LEMMA Members ==
  ASSUME NEW I, NEW S, NEW f, Family(f, I, S)
  PROVE  /\ Contents(f) \subseteq S
         /\ \A x \in I : ToSet(f[x]) \subseteq Contents(f)
         /\ \A x \in I : \A i \in 1 .. Len(f[x]) : f[x][i] \in Contents(f)
         /\ \A e \in Contents(f) : \E x \in I : \E i \in 1 .. Len(f[x]) : f[x][i] = e
<1>1. \A x \in I : /\ ToSet(f[x]) = {f[x][i] : i \in 1 .. Len(f[x])}
                   /\ ToSet(f[x]) \subseteq S
  BY Elements DEF Family
<1> QED BY <1>1 DEF Contents, Family

Elsewhere(f, I, x) == UNION {ToSet(f[y]) : y \in I \ {x}}

LEMMA OthersStay ==
  ASSUME NEW I, NEW S, NEW f, NEW h, Family(f, I, S), Family(h, I, S), NEW x \in I,
         SameBut(f, h, I, x)
  PROVE  /\ Contents(h) = ToSet(h[x]) \cup Elsewhere(f, I, x)
         /\ Contents(f) = ToSet(f[x]) \cup Elsewhere(f, I, x)
<1>2. \A e : e \in Contents(h) <=> e \in ToSet(h[x]) \/ \E y \in I \ {x} : e \in ToSet(f[y])
  BY DEF Contents, Family, SameBut
<1>3. \A e : e \in Contents(f) <=> e \in ToSet(f[x]) \/ \E y \in I \ {x} : e \in ToSet(f[y])
  BY DEF Contents, Family, SameBut
<1> QED BY <1>2, <1>3 DEF Elsewhere

LEMMA AppendedTo ==
  ASSUME NEW I, NEW S, NEW f, NEW h, Family(f, I, S), Family(h, I, S), NEW x \in I,
         NEW e \in S, Longer(h[x], f[x], e), SameBut(f, h, I, x)
  PROVE  /\ Contents(h) = Contents(f) \cup {e}
         /\ Once(f, {}) /\ e \notin Contents(f) => Once(h, {})
<1>1. /\ Len(h[x]) = Len(f[x]) + 1 /\ ToSet(h[x]) = ToSet(f[x]) \cup {e}
      /\ \A i \in 1 .. Len(f[x]) : h[x][i] = f[x][i]
      /\ h[x][Len(f[x]) + 1] = e /\ Len(f[x]) \in Nat
  BY Appending DEF Family, Longer
<1>2. Contents(h) = Contents(f) \cup {e}
  <2>1. Contents(h) = ToSet(h[x]) \cup Elsewhere(f, I, x) BY OthersStay
  <2>2. Contents(f) = ToSet(f[x]) \cup Elsewhere(f, I, x) BY OthersStay
  <2> QED BY <1>1, <2>1, <2>2
<1>3. ASSUME Once(f, {}), e \notin Contents(f) PROVE Once(h, {})
  <2>1. SUFFICES ASSUME NEW y \in I, NEW z \in I, NEW i \in 1 .. Len(h[y]),
                        NEW j \in 1 .. Len(h[z]), h[y][i] = h[z][j]
                 PROVE  y = z /\ i = j
    BY DEF Once, Family
  <2>2. \A v \in I : \A k \in 1 .. Len(f[v]) : f[v][k] # e BY <1>3, Members
  <2>3. \A v \in I : \A k \in 1 .. Len(h[v]) :
           \/ k \in 1 .. Len(f[v]) /\ h[v][k] = f[v][k]
           \/ v = x /\ k = Len(f[x]) + 1 /\ h[v][k] = e
    BY <1>1 DEF SameBut
  <2>4. \A v, w \in I : \A k \in 1 .. Len(f[v]), l \in 1 .. Len(f[w]) :
           f[v][k] = f[w][l] => v = w /\ k = l
    BY <1>3 DEF Once, Family
  <2>5. CASE i \in 1 .. Len(f[y]) /\ h[y][i] = f[y][i]
    <3>1. h[z][j] # e BY <2>1, <2>2, <2>5
    <3>2. j \in 1 .. Len(f[z]) /\ h[z][j] = f[z][j] BY <2>1, <2>3, <3>1
    <3>3. f[y][i] = f[z][j] BY <2>1, <2>5, <3>2
    <3> QED BY <2>4, <2>5, <3>2, <3>3
  <2>6. CASE y = x /\ i = Len(f[x]) + 1 /\ h[y][i] = e
    <3>1. ~ (j \in 1 .. Len(f[z]) /\ h[z][j] = f[z][j]) BY <2>1, <2>2, <2>6
    <3>2. z = x /\ j = Len(f[x]) + 1 BY <2>1, <2>3, <3>1
    <3> QED BY <2>6, <3>2
  <2> QED BY <2>1, <2>3, <2>5, <2>6
<1> QED BY <1>2, <1>3

LEMMA UsedOnce ==
  ASSUME NEW I, NEW S, NEW f, Family(f, I, S), NEW but, Once(f, but), NEW y \in I, NEW z \in I,
         NEW a \in 1 .. Len(f[y]), NEW b \in 1 .. Len(f[z]), f[y][a] = f[z][b], f[y][a] \notin but
  PROVE  y = z /\ a = b
BY DEF Once, Family

LEMMA Shortened ==
  ASSUME NEW I, NEW S, NEW f, NEW h, Family(f, I, S), Family(h, I, S), NEW x \in I,
         NEW n, NEW p \in Seq(S), CutAt(f[x], n, p, h[x]), SameBut(f, h, I, x),
         NEW but, Once(f, but)
  PROVE  /\ Contents(f) = Contents(h) \cup ToSet(p)
         /\ Once(h, but) /\ Contents(h) \cap ToSet(p) \subseteq but
<1>1. Contents(f) = Contents(h) \cup ToSet(p)
  <2>1. ToSet(f[x]) = ToSet(p) \cup ToSet(h[x]) BY DEF CutAt
  <2> QED BY <2>1, OthersStay
<1>2. /\ Len(f[x]) \in Nat /\ n \in 0 .. Len(f[x]) /\ Len(p) = n
      /\ \A i \in 1 .. n : p[i] = f[x][i]
      /\ Len(h[x]) = Len(f[x]) - n /\ \A i \in 1 .. Len(f[x]) - n : h[x][i] = f[x][n + i]
  BY DEF Family, CutAt
<1>3. \A v \in I : \A k \in 1 .. Len(h[v]) :
         \E m \in 1 .. Len(f[v]) : /\ h[v][k] = f[v][m]
                                   /\ (v = x /\ m = n + k) \/ (v # x /\ m = k)
  <2>1. SUFFICES ASSUME NEW v \in I, NEW k \in 1 .. Len(h[v])
                 PROVE  \E m \in 1 .. Len(f[v]) : /\ h[v][k] = f[v][m]
                                                  /\ (v = x /\ m = n + k) \/ (v # x /\ m = k)
    OBVIOUS
  <2>2. CASE v = x
    <3>1. n + k \in 1 .. Len(f[x]) /\ k \in 1 .. Len(f[x]) - n BY <1>2, <2>2
    <3> QED BY <1>2, <2>2, <3>1
  <2>3. CASE v # x BY <2>3 DEF SameBut
  <2> QED BY <2>2, <2>3
<1>4. Once(h, but)
  <2>1. SUFFICES ASSUME NEW y \in I, NEW z \in I, NEW i \in 1 .. Len(h[y]),
                        NEW j \in 1 .. Len(h[z]), h[y][i] = h[z][j], h[y][i] \notin but
                 PROVE  y = z /\ i = j
    BY DEF Once, Family
  <2>2. PICK a \in 1 .. Len(f[y]) : /\ h[y][i] = f[y][a]
                                    /\ (y = x /\ a = n + i) \/ (y # x /\ a = i)
    BY <1>3
  <2>3. PICK b \in 1 .. Len(f[z]) : /\ h[z][j] = f[z][b]
                                    /\ (z = x /\ b = n + j) \/ (z # x /\ b = j)
    BY <1>3
  <2>4. f[y][a] = f[z][b] /\ f[y][a] \notin but BY <2>1, <2>2, <2>3
  <2>5. y = z /\ a = b BY <2>4, UsedOnce
  <2> QED BY <1>2, <2>2, <2>3, <2>5
<1>5. ASSUME NEW e \in Contents(h), e \in ToSet(p) PROVE e \in but
  <2>0. PICK y \in I : \E i \in 1 .. Len(h[y]) : h[y][i] = e BY <1>5, Members
  <2>1. PICK i \in 1 .. Len(h[y]) : h[y][i] = e BY <2>0
  <2>2. PICK a \in 1 .. Len(f[y]) : /\ h[y][i] = f[y][a]
                                    /\ (y = x /\ a = n + i) \/ (y # x /\ a = i)
    BY <1>3
  <2>3. ToSet(p) = {p[k] : k \in 1 .. Len(p)} BY Elements
  <2>4. PICK k \in 1 .. Len(f[x]) : e = f[x][k] /\ k <= n BY <1>2, <1>5, <2>3
  <2>5. f[y][a] = f[x][k] /\ f[y][a] = e BY <2>1, <2>2, <2>4
  <2>6. ASSUME e \notin but PROVE FALSE
    <3>1. f[y][a] \notin but BY <2>5, <2>6
    <3>3. \A z \in I : \A b \in 1 .. Len(f[z]) : f[y][a] = f[z][b] => y = z /\ a = b
      BY <3>1, UsedOnce
    <3>4. y = x /\ a = k BY <2>5, <3>3
    <3> QED BY <1>2, <2>2, <2>4, <3>4
  <2> QED BY <2>6
<1> QED BY <1>1, <1>4, <1>5

LEMMA CutFrom ==
  ASSUME NEW I, NEW S, NEW f, NEW h, Family(f, I, S), Family(h, I, S), NEW x \in I,
         Shorter(h[x], f[x]), SameBut(f, h, I, x), NEW but, Once(f, but)
  PROVE  /\ Contents(f) = Contents(h) \cup {Head(f[x])} /\ Once(h, but)
         /\ Head(f[x]) \in Contents(h) => Head(f[x]) \in but
<1> DEFINE p == <<Head(f[x])>>
<1>1. /\ Head(f[x]) \in S /\ Head(f[x]) = f[x][1] /\ Len(h[x]) = Len(f[x]) - 1
      /\ \A i \in 1 .. Len(f[x]) - 1 : h[x][i] = f[x][i + 1]
      /\ ToSet(f[x]) = ToSet(h[x]) \cup {Head(f[x])}
  BY Cutting DEF Family, Shorter
<1>2. Len(f[x]) \in Nat \ {0} BY DEF Family, Shorter
<1>3. p \in Seq(S) /\ Len(p) = 1 /\ p[1] = f[x][1] BY <1>1
<1>4. ToSet(p) = {Head(f[x])} BY DEF ToSet
<1> HIDE DEF p
<1>5. CutAt(f[x], 1, p, h[x]) BY <1>1, <1>2, <1>3, <1>4 DEF CutAt
<1>6. /\ Contents(f) = Contents(h) \cup ToSet(p)
      /\ Once(h, but) /\ Contents(h) \cap ToSet(p) \subseteq but
  BY <1>3, <1>5, Shortened
<1> QED BY <1>4, <1>6

LEMMA Emptied ==
  ASSUME NEW I, NEW S, NEW f, NEW h, Family(f, I, S), Family(h, I, S), NEW x \in I,
         h[x] = << >>, SameBut(f, h, I, x), NEW but, Once(f, but)
  PROVE  /\ Contents(f) = Contents(h) \cup ToSet(f[x])
         /\ Once(h, but) /\ Contents(h) \cap ToSet(f[x]) \subseteq but
<1>1. ToSet(h[x]) = {} /\ f[x] \in Seq(S) BY DEF ToSet, Family
<1> DEFINE all == Len(f[x])
<1>2. CutAt(f[x], all, f[x], h[x]) BY <1>1 DEF CutAt
<1> HIDE DEF all
<1>3. /\ Contents(f) = Contents(h) \cup ToSet(f[x])
      /\ Once(h, but)
      /\ Contents(h) \cap ToSet(f[x]) \subseteq but
  BY <1>1, <1>2, Shortened
<1> QED BY <1>3

LEMMA Filled ==
  ASSUME NEW I, NEW S, NEW f, NEW h, Family(f, I, S), Family(h, I, S), NEW x \in I,
         f[x] = << >>, SameBut(f, h, I, x)
  PROVE  /\ Contents(h) = Contents(f) \cup ToSet(h[x])
         /\ Once(f, {}) /\ Distinct(h[x]) /\ ToSet(h[x]) \cap Contents(f) = {} => Once(h, {})
<1>1. Contents(h) = Contents(f) \cup ToSet(h[x])
  <2>1. ToSet(f[x]) = {} BY DEF ToSet
  <2> QED BY <2>1, OthersStay
<1>2. ASSUME Once(f, {}), Distinct(h[x]), ToSet(h[x]) \cap Contents(f) = {} PROVE Once(h, {})
  <2>1. SUFFICES ASSUME NEW y \in I, NEW z \in I, NEW i \in 1 .. Len(h[y]),
                        NEW j \in 1 .. Len(h[z]), h[y][i] = h[z][j]
                 PROVE  y = z /\ i = j
    BY DEF Once, Family
  <2>2. \A v \in I \ {x} : \A k \in 1 .. Len(h[v]) : h[v][k] \notin ToSet(h[x])
    BY <1>2, Members DEF SameBut
  <2>3. \A k \in 1 .. Len(h[x]) : h[x][k] \in ToSet(h[x])
    <3>1. h[x] \in Seq(S) BY DEF Family
    <3> QED BY <3>1, Elements
  <2>4. CASE y = x /\ z = x BY <1>2, <2>1, <2>4 DEF Distinct
  <2>5. CASE y # x /\ z # x BY <1>2, <2>1, <2>5 DEF Once, Family, SameBut
  <2>6. CASE y = x /\ z # x BY <2>1, <2>2, <2>3, <2>6
  <2>7. CASE y # x /\ z = x BY <2>1, <2>2, <2>3, <2>7
  <2> QED BY <2>4, <2>5, <2>6, <2>7
<1> QED BY <1>1, <1>2

(***************************************************************************)
(* What the emitters hold.                                                 *)
(***************************************************************************)
EndOfCallAt(g) ==
  /\ call[g] \in DOMAIN Calls[g]
  /\ Calls[g][call[g]] \in Seq(Events \cup {Nil})
  /\ Len(todo[g]) <= Len(Calls[g][call[g]])
  /\ \A i \in 1 .. Len(todo[g]) :
       /\ Len(Calls[g][call[g]]) - Len(todo[g]) + i \in DOMAIN Calls[g][call[g]]
       /\ todo[g][i] = Calls[g][call[g]][Len(Calls[g][call[g]]) - Len(todo[g]) + i]

LEMMA CallsAreBatches ==
  \A g \in Emitters : \A k \in DOMAIN Calls[g] :
    /\ k \in 1 .. Len(Calls[g]) /\ Len(Calls[g]) \in Nat
    /\ Calls[g][k] \in Seq(Events \cup {Nil}) /\ Calls[g][k] # << >>
    /\ DOMAIN Calls[g][k] = 1 .. Len(Calls[g][k]) /\ Len(Calls[g][k]) \in Nat
<1>1. SUFFICES ASSUME NEW g \in Emitters, NEW k \in DOMAIN Calls[g]
               PROVE  /\ k \in 1 .. Len(Calls[g]) /\ Len(Calls[g]) \in Nat
                      /\ Calls[g][k] \in Seq(Events \cup {Nil}) \ {<< >>}
  OBVIOUS
<1>2. Calls[g] \in Seq(Seq(Events \cup {Nil}) \ {<< >>}) BY FlowBusAssumption
<1> QED BY <1>2

LEMMA TodoEndsCall ==
  ASSUME BusInv, NEW g \in Emitters, todo[g] # << >>
  PROVE  EndOfCallAt(g)
<1>1. /\ call[g] \in DOMAIN Calls[g] /\ Len(todo[g]) <= Len(Calls[g][call[g]])
      /\ \A i \in 1 .. Len(todo[g]) :
           todo[g][i] = Calls[g][call[g]][Len(Calls[g][call[g]]) - Len(todo[g]) + i]
      /\ todo[g] \in Seq(Events \cup {Nil})
  BY DEF BusInv, EndOfCall, TypeInv
<1>2. /\ Calls[g][call[g]] \in Seq(Events \cup {Nil}) /\ Len(Calls[g][call[g]]) \in Nat
      /\ DOMAIN Calls[g][call[g]] = 1 .. Len(Calls[g][call[g]])
  BY <1>1, CallsAreBatches
<1> DEFINE all == Len(Calls[g][call[g]])
           left == Len(todo[g])
<1>3. all \in Nat /\ left \in Nat /\ left <= all BY <1>1, <1>2
<1> HIDE DEF all, left
<1>4. \A i \in 1 .. left : all - left + i \in 1 .. all BY <1>3
<1> QED BY <1>1, <1>2, <1>4 DEF EndOfCallAt, all, left

LEMMA TodoOnce == BusInv => Once(todo, {Nil})
<1>1. SUFFICES ASSUME BusInv, NEW g \in Emitters, NEW h \in Emitters,
                      NEW i \in 1 .. Len(todo[g]), NEW j \in 1 .. Len(todo[h]),
                      todo[g][i] = todo[h][j], todo[g][i] # Nil
               PROVE  g = h /\ i = j
  <2>1. BusInv => DOMAIN todo = Emitters BY DEF BusInv, TypeInv
  <2> QED BY <2>1 DEF Once
<1>2. /\ todo[g] \in Seq(Events \cup {Nil}) /\ todo[h] \in Seq(Events \cup {Nil})
  BY <1>1 DEF BusInv, TypeInv
<1>3. todo[g] # << >> /\ todo[h] # << >> BY <1>2
<1>4. EndOfCallAt(g) /\ EndOfCallAt(h) BY <1>1, <1>3, TodoEndsCall
<1> DEFINE a == Len(Calls[g][call[g]]) - Len(todo[g]) + i
           b == Len(Calls[h][call[h]]) - Len(todo[h]) + j
<1>5. /\ call[g] \in DOMAIN Calls[g] /\ a \in DOMAIN Calls[g][call[g]]
      /\ todo[g][i] = Calls[g][call[g]][a]
      /\ call[h] \in DOMAIN Calls[h] /\ b \in DOMAIN Calls[h][call[h]]
      /\ todo[h][j] = Calls[h][call[h]][b]
  BY <1>4 DEF EndOfCallAt
<1> HIDE DEF a, b
<1>6. <<g, call[g], a>> = <<h, call[h], b>>
  <2>1. EmittedOnce BY FlowBusAssumption
  <2>2. Calls[g][call[g]][a] = Calls[h][call[h]][b] /\ Calls[g][call[g]][a] # Nil
    BY <1>1, <1>5
  <2>3. \A k \in DOMAIN Calls[g], l \in DOMAIN Calls[h] :
           \A m \in DOMAIN Calls[g][k], n \in DOMAIN Calls[h][l] :
             Calls[g][k][m] = Calls[h][l][n] /\ Calls[g][k][m] # Nil
               => <<g, k, m>> = <<h, l, n>>
    BY <2>1 DEF EmittedOnce
  <2> HIDE <2>1
  <2> QED BY <1>5, <2>2, <2>3
<1>7. g = h /\ a = b BY <1>6
<1>8. Len(Calls[g][call[g]]) \in Nat /\ Len(todo[g]) \in Nat BY <1>2, <1>4 DEF EndOfCallAt
<1> QED BY <1>7, <1>8 DEF a, b

LEMMA Typed ==
  TypeInv => /\ Family(queue, Shards, Events) /\ Family(batch, Shards, Events)
             /\ Family(todo, Emitters, Events \cup {Nil})
BY DEF TypeInv, Family

(* An event at the head of an emitter's hands is in no other emitter's.    *)
LEMMA HeadsHeld ==
  ASSUME BusInv, NEW g \in Emitters, epc[g] \in Holding
  PROVE  /\ todo[g] # << >> /\ todo[g] \in Seq(Events \cup {Nil})
         /\ Head(todo[g]) \in Contents(todo)
         /\ Head(todo[g]) # Nil => Head(todo[g]) \in Events
         /\ epc[g] = "publish" => Head(todo[g]) \in Unpublished
         /\ \A h \in Emitters \ {g} :
              epc[h] = "publish" => Head(todo[h]) # Head(todo[g])
         /\ epc[g] # "publish" /\ Head(todo[g]) # Nil => Head(todo[g]) \in InHands
<1>1. todo[g] # << >> /\ todo[g] \in Seq(Events \cup {Nil}) BY DEF BusInv, TypeInv, Counters
<1>2. Head(todo[g]) = todo[g][1] /\ 1 \in 1 .. Len(todo[g]) BY <1>1
<1>3. Family(todo, Emitters, Events \cup {Nil}) BY Typed DEF BusInv
<1>4. Head(todo[g]) \in Contents(todo) BY <1>2, <1>3, Members
<1>5. Head(todo[g]) # Nil => Head(todo[g]) \in Events BY <1>1
<1>6. epc[g] = "publish" => Head(todo[g]) \in Unpublished BY DEF Unpublished
<1>7. ASSUME NEW h \in Emitters \ {g}, epc[h] = "publish", Head(todo[h]) = Head(todo[g])
      PROVE  FALSE
  <2>1. todo[h] # << >> /\ todo[h] \in Seq(Events \cup {Nil}) /\ Head(todo[h]) # Nil
    BY <1>7 DEF BusInv, TypeInv, Counters, Holding
  <2>2. Head(todo[h]) = todo[h][1] /\ 1 \in 1 .. Len(todo[h]) BY <2>1
  <2>3. todo[g][1] = todo[h][1] /\ todo[g][1] \notin {Nil} BY <1>2, <1>7, <2>1, <2>2
  <2>4. Once(todo, {Nil}) BY TodoOnce
  <2>5. g = h BY <1>2, <1>3, <2>2, <2>3, <2>4, UsedOnce
  <2> QED BY <2>5
<1>8. epc[g] # "publish" /\ Head(todo[g]) # Nil => Head(todo[g]) \in InHands
  BY <1>4, <1>7 DEF InHands, Unpublished
<1> QED BY <1>1, <1>4, <1>5, <1>6, <1>7, <1>8

EmitterCounters ==
  \A g \in Emitters :
    /\ epc[g] \in Holding <=> todo[g] # << >>
    /\ epc[g] \in Holding \ {"push"} => Head(todo[g]) # Nil
    /\ call[g] <= Len(Calls[g])

(* An emitter is done with the event at the head of its hands.             *)
LEMMA Advances ==
  ASSUME BusInv, TypeInv', NEW g \in Emitters, epc[g] \in Holding, Advance(g), UNCHANGED call
  PROVE  /\ EndOfCall' /\ EmitterCounters'
         /\ Unpublished' = Unpublished \ {Head(todo[g])}
         /\ InHands' = InHands \ {Head(todo[g])}
<1>1. /\ todo[g] # << >> /\ todo[g] \in Seq(Events \cup {Nil})
      /\ epc[g] = "publish" => Head(todo[g]) \in Unpublished
      /\ \A h \in Emitters \ {g} : epc[h] = "publish" => Head(todo[h]) # Head(todo[g])
  BY HeadsHeld
<1>2. /\ todo' = [todo EXCEPT ![g] = Tail(todo[g])]
      /\ epc' = [epc EXCEPT ![g] = IF Tail(todo[g]) = << >> THEN "notify" ELSE "push"]
      /\ TypeInv
  BY DEF Advance, BusInv
<1>3. /\ todo'[g] = Tail(todo[g]) /\ \A h \in Emitters \ {g} : todo'[h] = todo[h]
      /\ epc'[g] = (IF todo'[g] = << >> THEN "notify" ELSE "push")
      /\ \A h \in Emitters \ {g} : epc'[h] = epc[h]
  BY <1>2 DEF TypeInv
<1>4. EndOfCall'
  <2>1. SUFFICES ASSUME NEW h \in Emitters, todo'[h] # << >>
                 PROVE  /\ call[h] \in DOMAIN Calls[h]
                        /\ Len(todo'[h]) <= Len(Calls[h][call[h]])
                        /\ \A i \in 1 .. Len(todo'[h]) :
                             todo'[h][i] = Calls[h][call[h]][Len(Calls[h][call[h]]) - Len(todo'[h]) + i]
    BY DEF EndOfCall
  <2>2. CASE h # g
    <3>1. todo'[h] = todo[h] BY <1>3, <2>2
    <3> QED BY <2>1, <3>1 DEF BusInv, EndOfCall
  <2>3. CASE h = g
    <3> DEFINE all == Len(Calls[g][call[g]])
    <3>1. EndOfCallAt(g) BY <1>1, TodoEndsCall
    <3>2. /\ Len(todo'[g]) = Len(todo[g]) - 1 /\ Len(todo[g]) \in Nat
          /\ \A i \in 1 .. Len(todo[g]) - 1 : todo'[g][i] = todo[g][i + 1]
      BY <1>1, <1>3, Cutting
    <3>3. all \in Nat /\ Len(todo[g]) <= all BY <3>1 DEF EndOfCallAt
    <3>4. \A i \in 1 .. Len(todo[g]) : todo[g][i] = Calls[g][call[g]][all - Len(todo[g]) + i]
      BY <3>1 DEF EndOfCallAt
    <3>5. call[g] \in DOMAIN Calls[g] BY <3>1 DEF EndOfCallAt
    <3> HIDE DEF all
    <3>6. ASSUME NEW i \in 1 .. Len(todo'[g])
          PROVE  todo'[g][i] = Calls[g][call[g]][all - Len(todo'[g]) + i]
      <4>1. i + 1 \in 1 .. Len(todo[g]) /\ todo'[g][i] = todo[g][i + 1] BY <3>2
      <4>2. all - Len(todo[g]) + (i + 1) = all - Len(todo'[g]) + i BY <3>2, <3>3
      <4> QED BY <3>4, <4>1, <4>2
    <3>7. Len(todo'[g]) <= all BY <3>2, <3>3
    <3> QED BY <2>3, <3>5, <3>6, <3>7, Zenon DEF all
  <2> QED BY <2>2, <2>3
<1>5. EmitterCounters'
  BY <1>3 DEF EmitterCounters, BusInv, Counters, Holding
<1>6. Unpublished' = Unpublished \ {Head(todo[g])}
  <2>1. \A e : e \in Unpublished' <=> \E h \in Emitters : epc'[h] = "publish" /\ Head(todo'[h]) = e
    BY DEF Unpublished
  <2>2. \A e : e \in Unpublished <=> \E h \in Emitters : epc[h] = "publish" /\ Head(todo[h]) = e
    BY DEF Unpublished
  <2>3. epc'[g] # "publish" BY <1>3
  <2>4. \A e : e \in Unpublished' <=>
                \E h \in Emitters \ {g} : epc[h] = "publish" /\ Head(todo[h]) = e
    BY <1>3, <2>1, <2>3
  <2> QED BY <1>1, <2>2, <2>4
<1>7. /\ Contents(todo) = Contents(todo') \cup {Head(todo[g])}
      /\ Head(todo[g]) \in Contents(todo') => Head(todo[g]) = Nil
  <2>1. Family(todo, Emitters, Events \cup {Nil}) BY <1>2, Typed
  <2>2. Family(todo', Emitters, Events \cup {Nil}) BY DEF TypeInv, Family
  <2>3. SameBut(todo, todo', Emitters, g) BY <1>3 DEF SameBut
  <2>4. Shorter(todo'[g], todo[g]) BY <1>1, <1>3 DEF Shorter
  <2>5. Once(todo, {Nil}) BY TodoOnce
  <2>6. /\ Contents(todo) = Contents(todo') \cup {Head(todo[g])}
        /\ Head(todo[g]) \in Contents(todo') => Head(todo[g]) \in {Nil}
    BY <2>1, <2>2, <2>3, <2>4, <2>5, CutFrom
  <2> QED BY <2>6
<1>8. InHands' = InHands \ {Head(todo[g])}
  <2>1. InHands' = Contents(todo') \ (Unpublished' \cup {Nil}) BY DEF InHands
  <2> QED BY <1>6, <1>7, <2>1 DEF InHands
<1> QED BY <1>4, <1>5, <1>6, <1>8

LEMMA Quiet ==
  ASSUME BusInv, TypeInv', Counters',
         UNCHANGED <<queue, batch, todo, handled, lost, accepted, call>>,
         \A h \in Emitters : epc'[h] = "publish" <=> epc[h] = "publish"
  PROVE  BusInv' /\ Unpublished' = Unpublished
<1>1. Unpublished' = Unpublished BY DEF Unpublished
<1>2. EndOfCall' BY DEF BusInv, EndOfCall
<1>3. Exclusive' 
  <2>1. /\ InQueues' = InQueues /\ InBatches' = InBatches /\ InHands' = InHands
        /\ ToSet(handled)' = ToSet(handled)
    BY <1>1 DEF InQueues, InBatches, InHands, Contents
  <2>2. Once(queue, {})' /\ Once(batch, {})' /\ Distinct(handled)'
    BY DEF BusInv, Exclusive, Once, Distinct
  <2> QED BY <1>1, <2>1, <2>2 DEF BusInv, Exclusive, Partition
<1>4. Begun' BY DEF BusInv, Begun
<1> QED BY <1>1, <1>2, <1>3, <1>4 DEF BusInv

(* A push claims a place for an emitter's event.                           *)
LEMMA Claims ==
  ASSUME BusInv, TypeInv', NEW g \in Emitters, NEW s \in Shards,
         epc[g] \in {"push", "slow"}, Head(todo[g]) # Nil, Push(s, Head(todo[g])),
         epc' = [epc EXCEPT ![g] = "publish"],
         UNCHANGED <<consumerVars, todo, call, handled, lost, accepted>>
  PROVE  /\ BusInv' /\ Head(todo[g]) \in InHands /\ Head(todo[g]) \in Events
         /\ Unpublished' = Unpublished \cup {Head(todo[g])}
<1> DEFINE e == Head(todo[g])
<1>1. todo[g] # << >> /\ e \in Events /\ e \in InHands
  BY HeadsHeld DEF Holding
<1>2. /\ queue' = [queue EXCEPT ![s] = Append(queue[s], e)]
      /\ TypeInv
  BY DEF Push, BusInv
<1> HIDE DEF e
<1>3. /\ queue'[s] = Append(queue[s], e) /\ \A r \in Shards \ {s} : queue'[r] = queue[r]
      /\ epc'[g] = "publish" /\ \A h \in Emitters \ {g} : epc'[h] = epc[h]
  BY <1>2 DEF TypeInv
<1>4. Contents(queue') = Contents(queue) \cup {e} /\ (Once(queue, {}) /\ e \notin Contents(queue) => Once(queue', {}))
  <2>1. Family(queue, Shards, Events) BY <1>2, Typed
  <2>2. Family(queue', Shards, Events) BY DEF TypeInv, Family
  <2>3. SameBut(queue, queue', Shards, s) /\ Longer(queue'[s], queue[s], e)
    BY <1>3 DEF SameBut, Longer
  <2> QED BY <1>1, <2>1, <2>2, <2>3, AppendedTo
<1>5. Unpublished' = Unpublished \cup {e}
  <2>1. \A v : v \in Unpublished' <=> \E h \in Emitters : epc'[h] = "publish" /\ Head(todo[h]) = v
    BY DEF Unpublished
  <2>2. \A v : v \in Unpublished <=> \E h \in Emitters : epc[h] = "publish" /\ Head(todo[h]) = v
    BY DEF Unpublished
  <2> QED BY <1>3, <2>1, <2>2 DEF e
<1>6. InHands' = InHands \ {e}
  <2>1. InHands' = Contents(todo) \ (Unpublished' \cup {Nil}) BY DEF InHands, Contents
  <2> QED BY <1>5, <2>1 DEF InHands
<1>7. InQueues' = InQueues \cup {e} /\ e \notin InQueues
  <2>1. e \notin InQueues BY <1>1 DEF BusInv, Exclusive, Partition
  <2> QED BY <1>4, <2>1 DEF InQueues
<1>8. Exclusive'
  <2>1. Once(queue', {}) BY <1>4, <1>7 DEF BusInv, Exclusive, InQueues
  <2>2. InBatches' = InBatches /\ Once(batch, {})' /\ ToSet(handled)' = ToSet(handled) /\ Distinct(handled)'
    BY DEF consumerVars, InBatches, Contents, BusInv, Exclusive, Once, Distinct
  <2>3. Partition(InQueues, InBatches, InHands, ToSet(handled), lost, accepted)
    BY DEF BusInv, Exclusive
  <2>4. Partition(InQueues \cup {e}, InBatches, InHands \ {e}, ToSet(handled), lost, accepted)
    BY <1>1, <2>3 DEF Partition
  <2>5. Unpublished' \subseteq InQueues' BY <1>5, <1>7 DEF BusInv, Exclusive
  <2>6. Partition(InQueues, InBatches, InHands, ToSet(handled), lost, accepted)'
    BY <1>6, <1>7, <2>2, <2>4
  <2> QED BY <2>1, <2>2, <2>5, <2>6 DEF Exclusive, Once
<1>9. Counters' /\ EndOfCall' /\ Begun'
  <2>1. Counters' BY <1>1, <1>3 DEF e, BusInv, Counters, Holding, consumerVars
  <2>2. EndOfCall' /\ Begun' BY DEF BusInv, EndOfCall, Begun
  <2> QED BY <2>1, <2>2
<1> QED BY <1>1, <1>5, <1>8, <1>9 DEF e, BusInv

(***************************************************************************)
(* What popBatch finds.                                                    *)
(***************************************************************************)
LEMMA Least ==
  ASSUME NEW S \in SUBSET Nat, S # {}
  PROVE  Min(S) \in S /\ \A y \in S : Min(S) <= y
<1>1. PICK x \in S : \A y \in S : ~ (<<y, x>> \in OpToRel(<, Nat))
  BY NatLessThanWellFounded, WFMin
<1>2. ASSUME NEW y \in S PROVE x <= y
  <2>1. <<y, x>> \in Nat \X Nat /\ <<y, x>>[1] = y /\ <<y, x>>[2] = x OBVIOUS
  <2>2. y < x => <<y, x>> \in OpToRel(<, Nat) BY <2>1 DEF OpToRel
  <2>3. ~ (y < x) BY <1>1, <2>2, Zenon
  <2> QED BY <2>1, <2>3
<1> QED BY <1>2 DEF Min

LEMMA ReadyIsPrefix ==
  ASSUME TypeInv, NEW s \in Shards
  PROVE  /\ Ready(s) \in Seq(Events) /\ Len(Ready(s)) \in 0 .. Len(queue[s])
         /\ \A i \in 1 .. Len(Ready(s)) : Ready(s)[i] = queue[s][i] /\ queue[s][i] \notin Unpublished
         /\ Len(Ready(s)) < Len(queue[s]) => queue[s][Len(Ready(s)) + 1] \in Unpublished
<1> DEFINE q == queue[s]
           gaps == {i \in DOMAIN q : q[i] \in Unpublished}
<1>1. q \in Seq(Events) /\ DOMAIN q = 1 .. Len(q) /\ Len(q) \in Nat BY DEF TypeInv
<1>2. Ready(s) = IF gaps = {} THEN q ELSE SubSeq(q, 1, Min(gaps) - 1) BY DEF Ready
<1> HIDE DEF q
<1>3. CASE gaps = {} BY <1>1, <1>2, <1>3 DEF q
<1>4. CASE gaps # {}
  <2>1. gaps \in SUBSET Nat BY <1>1
  <2>2. Min(gaps) \in gaps /\ \A y \in gaps : Min(gaps) <= y BY <1>4, <2>1, Least
  <2>3. PICK m \in 1 .. Len(q) : /\ m = Min(gaps) /\ q[m] \in Unpublished
                                 /\ \A i \in 1 .. m - 1 : q[i] \notin Unpublished
    <3> DEFINE least == Min(gaps)
    <3>1. least \in 1 .. Len(q) /\ q[least] \in Unpublished BY <1>1, <2>2
    <3>2. \A i \in 1 .. Len(q) : q[i] \in Unpublished => least <= i BY <1>1, <2>2
    <3> HIDE DEF least, gaps
    <3>3. \A i \in 1 .. least - 1 : i \in 1 .. Len(q) /\ ~ (least <= i) BY <1>1, <3>1
    <3> QED BY <3>1, <3>2, <3>3 DEF least
  <2>4. Ready(s) = SubSeq(q, 1, m - 1) /\ m - 1 \in 0 .. Len(q)
    <3>1. m \in Nat /\ m - 1 \in 0 .. Len(q) BY <1>1, <2>3
    <3> QED BY <1>2, <1>4, <2>3, <3>1
  <2>5. /\ SubSeq(q, 1, m - 1) \in Seq(Events) /\ Len(SubSeq(q, 1, m - 1)) = m - 1
        /\ \A i \in 1 .. m - 1 : SubSeq(q, 1, m - 1)[i] = q[i]
    BY <1>1, <2>4, Splitting
  <2>6. m - 1 + 1 = m BY <2>3
  <2> QED BY <1>1, <2>3, <2>4, <2>5, <2>6 DEF q
<1> QED BY <1>3, <1>4

LEMMA ReadyIsVisible ==
  ASSUME TypeInv, NEW s \in Shards
  PROVE  ToSet(Ready(s)) = Visible(s) /\ Visible(s) \subseteq Events
<1> DEFINE n == Len(Ready(s))
<1>1. /\ queue[s] \in Seq(Events) /\ Len(queue[s]) \in Nat
      /\ \A i \in 1 .. Len(queue[s]) : queue[s][i] \in Events
  BY DEF TypeInv
<1>2. /\ Ready(s) \in Seq(Events) /\ n \in 0 .. Len(queue[s])
      /\ \A i \in 1 .. n : Ready(s)[i] = queue[s][i] /\ queue[s][i] \notin Unpublished
      /\ n < Len(queue[s]) => queue[s][n + 1] \in Unpublished
  BY ReadyIsPrefix
<1>3. ToSet(Ready(s)) = {Ready(s)[i] : i \in 1 .. n} BY <1>2, Elements
<1> HIDE DEF n
<1>4. \A i \in 1 .. Len(queue[s]) :
         (\A k \in 1 .. i : queue[s][k] \notin Unpublished) <=> i \in 1 .. n
  <2>1. SUFFICES ASSUME NEW i \in 1 .. Len(queue[s])
                 PROVE  (\A k \in 1 .. i : queue[s][k] \notin Unpublished) <=> i \in 1 .. n
    OBVIOUS
  <2>2. CASE i <= n BY <1>1, <1>2, <2>2
  <2>3. CASE i > n
    <3>1. n + 1 \in 1 .. i /\ n < Len(queue[s]) BY <1>1, <1>2, <2>3
    <3> QED BY <1>2, <2>3, <3>1
  <2> QED BY <1>1, <1>2, <2>2, <2>3
<1>5. Visible(s) = {queue[s][i] : i \in 1 .. n}
  BY <1>1, <1>2, <1>4 DEF Visible
<1>6. {Ready(s)[i] : i \in 1 .. n} = {queue[s][i] : i \in 1 .. n} BY <1>2
<1> QED BY <1>1, <1>2, <1>3, <1>5, <1>6

(***************************************************************************)
(* The inductive invariant holds at first, and every step keeps it.        *)
(***************************************************************************)
LEMMA BusInit == Init => BusInv
<1>1. SUFFICES ASSUME Init PROVE BusInv OBVIOUS
<1>2. 0 \in 0 .. NumShards BY FlowBusAssumption
<1>3. TypeInv
  <2>1. << >> \in Seq(Events) /\ << >> \in Seq(Events \cup {Nil}) OBVIOUS
  <2>2. /\ queue \in [Shards -> Seq(Events)] /\ batch \in [Shards -> Seq(Events)]
        /\ todo \in [Emitters -> Seq(Events \cup {Nil})] /\ handled \in Seq(Events)
    BY <1>1, <2>1 DEF Init
  <2>3. /\ cpc \in [Shards -> {"poll", "wait", "handle", "exited"}]
        /\ closing \in [Shards -> BOOLEAN]
        /\ epc \in [Emitters -> Holding \cup {"idle", "notify"}]
        /\ dpc \in [Closers -> {"idle", "close", "wait", "returned"}]
    BY <1>1 DEF Init
  <2>4. /\ call \in [Emitters -> Nat] /\ try \in [Emitters -> 0 .. NumShards]
        /\ owed \in [Closers -> SUBSET Events]
        /\ closed \in BOOLEAN /\ done \in BOOLEAN
        /\ accepted \subseteq Events /\ lost \subseteq Events /\ slowed \subseteq Events
    BY <1>1, <1>2 DEF Init
  <2> QED BY <2>2, <2>3, <2>4 DEF TypeInv
<1>4. Counters
  <2>1. \A g \in Emitters : Len(Calls[g]) \in Nat BY FlowBusAssumption
  <2> QED BY <1>1, <2>1 DEF Init, Counters, Holding
<1>5. EndOfCall BY <1>1 DEF Init, EndOfCall
<1>6. Unpublished = {} BY <1>1 DEF Init, Unpublished
<1>7. InQueues = {} /\ InBatches = {} /\ InHands = {} /\ ToSet(handled) = {}
  BY <1>1 DEF Init, InQueues, InBatches, InHands, Contents, ToSet
<1>8. Once(queue, {}) /\ Once(batch, {}) /\ Distinct(handled)
  BY <1>1 DEF Init, Once, Distinct
<1>9. Exclusive BY <1>1, <1>6, <1>7, <1>8 DEF Init, Exclusive, Partition
<1>10. Begun BY <1>1 DEF Init, Begun
<1> QED BY <1>3, <1>4, <1>5, <1>9, <1>10 DEF BusInv

LEMMA EmitStartBus ==
  ASSUME BusInv, NEW g \in Emitters, EmitStart(g)
  PROVE  BusInv' /\ Unpublished' = Unpublished
<1> DEFINE c == Calls[g][call[g] + 1]
           N == ToSet(c) \ {Nil}
<1>1. /\ TypeInv /\ epc[g] = "idle" /\ todo[g] = << >> /\ call[g] \in Nat
      /\ call' = [call EXCEPT ![g] = call[g] + 1]
      /\ UNCHANGED <<queue, consumerVars, handled, lost, slowed, try, closerVars>>
  BY DEF EmitStart, BusInv, TypeInv, Counters, Holding
<1>2. call[g] + 1 \in DOMAIN Calls[g] /\ call[g] + 1 <= Len(Calls[g])
  BY <1>1, FlowBusAssumption DEF EmitStart
<1>3. /\ c \in Seq(Events \cup {Nil}) /\ c # << >>
      /\ DOMAIN c = 1 .. Len(c) /\ Len(c) \in Nat
  BY <1>2, CallsAreBatches
<1>4. call'[g] = call[g] + 1 /\ \A h \in Emitters \ {g} : call'[h] = call[h]
  BY <1>1 DEF TypeInv
<1> HIDE DEF c
<1>5. CASE UNCHANGED <<epc, todo, accepted>>
  <2>1. TypeInv' BY <1>1, <1>5 DEF TypeInv, consumerVars, closerVars
  <2>2. Counters' BY <1>1, <1>2, <1>4, <1>5 DEF BusInv, Counters, consumerVars
  <2>3. EndOfCall'
    <3>1. SUFFICES ASSUME NEW h \in Emitters, todo'[h] # << >>
                   PROVE  /\ call'[h] \in DOMAIN Calls[h]
                          /\ Len(todo'[h]) <= Len(Calls[h][call'[h]])
                          /\ \A i \in 1 .. Len(todo'[h]) :
                               todo'[h][i] = Calls[h][call'[h]][Len(Calls[h][call'[h]]) - Len(todo'[h]) + i]
      BY DEF EndOfCall
    <3>2. h # g /\ todo'[h] = todo[h] BY <1>1, <1>5, <3>1
    <3>3. call'[h] = call[h] BY <1>4, <3>2
    <3> QED BY <3>1, <3>2, <3>3 DEF BusInv, EndOfCall
  <2>4. Begun'
    <3>1. \A h \in Emitters : call'[h] \in Nat /\ call[h] \in Nat /\ call[h] <= call'[h]
      BY <1>1, <1>4 DEF TypeInv
    <3>2. \A h \in Emitters : \A k \in DOMAIN Calls[h] : k <= call[h] => k <= call'[h]
      BY <3>1, CallsAreBatches
    <3> QED BY <1>5, <3>2 DEF BusInv, Begun
  <2>5. Unpublished' = Unpublished BY <1>5 DEF Unpublished
  <2>6. Exclusive'
    <3>1. /\ InQueues' = InQueues /\ InBatches' = InBatches /\ InHands' = InHands
          /\ ToSet(handled)' = ToSet(handled)
      BY <1>1, <1>5, <2>5 DEF InQueues, InBatches, InHands, Contents, consumerVars
    <3>2. Once(queue, {})' /\ Once(batch, {})' /\ Distinct(handled)'
      BY <1>1 DEF BusInv, Exclusive, Once, Distinct, consumerVars
    <3> QED BY <1>1, <1>5, <2>5, <3>1, <3>2 DEF BusInv, Exclusive, Partition
  <2> QED BY <2>1, <2>2, <2>3, <2>4, <2>5, <2>6 DEF BusInv
<1>6. CASE /\ accepted' = accepted \cup N
           /\ todo' = [todo EXCEPT ![g] = c] /\ epc' = [epc EXCEPT ![g] = "push"]
  <2>1. N \subseteq Events BY <1>3, Elements
  <2>2. TypeInv' BY <1>1, <1>3, <1>6, <2>1 DEF TypeInv, Holding, consumerVars, closerVars
  <2>3. /\ todo'[g] = c /\ \A h \in Emitters \ {g} : todo'[h] = todo[h]
        /\ epc'[g] = "push" /\ \A h \in Emitters \ {g} : epc'[h] = epc[h]
    BY <1>1, <1>6 DEF TypeInv
  <2>4. Counters'
    BY <1>1, <1>2, <1>3, <1>4, <2>3 DEF BusInv, Counters, Holding, consumerVars
  <2>5. EndOfCall'
    <3>1. SUFFICES ASSUME NEW h \in Emitters, todo'[h] # << >>
                   PROVE  /\ call'[h] \in DOMAIN Calls[h]
                          /\ Len(todo'[h]) <= Len(Calls[h][call'[h]])
                          /\ \A i \in 1 .. Len(todo'[h]) :
                               todo'[h][i] = Calls[h][call'[h]][Len(Calls[h][call'[h]]) - Len(todo'[h]) + i]
      BY DEF EndOfCall
    <3>2. CASE h # g
      <4>1. todo'[h] = todo[h] /\ call'[h] = call[h] BY <1>4, <2>3, <3>2
      <4> QED BY <3>1, <4>1 DEF BusInv, EndOfCall
    <3>3. CASE h = g
      <4>1. \A i \in 1 .. Len(c) : Len(c) - Len(c) + i = i BY <1>3
      <4>2. todo'[g] = c /\ Calls[g][call'[g]] = c BY <1>4, <2>3 DEF c
      <4>3. call'[g] \in DOMAIN Calls[g] BY <1>2, <1>4
      <4> QED BY <1>3, <3>3, <4>1, <4>2, <4>3
    <3> QED BY <3>2, <3>3
  <2>6. Unpublished' = Unpublished
    <3>1. \A h \in Emitters : epc'[h] = "publish" <=> epc[h] = "publish" BY <1>1, <2>3
    <3>2. \A h \in Emitters : epc[h] = "publish" => todo'[h] = todo[h] BY <1>1, <2>3
    <3> QED BY <3>1, <3>2 DEF Unpublished
  <2>7. N \cap accepted = {}
    <3>1. SUFFICES ASSUME NEW e \in N, e \in accepted PROVE FALSE OBVIOUS
    <3>2. PICK j \in DOMAIN c : c[j] = e BY <1>3, <3>1, Elements
    <3>3. PICK h \in Emitters : \E k \in DOMAIN Calls[h] :
                 k <= call[h] /\ \E i \in DOMAIN Calls[h][k] : Calls[h][k][i] = e
      BY <3>1 DEF BusInv, Begun
    <3>4. PICK k \in DOMAIN Calls[h] :
                 k <= call[h] /\ \E i \in DOMAIN Calls[h][k] : Calls[h][k][i] = e
      BY <3>3
    <3>5. PICK i \in DOMAIN Calls[h][k] : Calls[h][k][i] = e BY <3>4
    <3>6. EmittedOnce BY FlowBusAssumption
    <3>7. <<g, call[g] + 1, j>> = <<h, k, i>>
      BY <1>2, <3>1, <3>2, <3>5, <3>6 DEF EmittedOnce, c
    <3>8. h = g /\ k = call[g] + 1 BY <3>7
    <3> QED BY <1>1, <3>4, <3>8
  <2>8. Contents(todo') = Contents(todo) \cup ToSet(c)
    <3>1. Family(todo, Emitters, Events \cup {Nil}) BY <1>1, Typed
    <3>2. Family(todo', Emitters, Events \cup {Nil}) BY <2>2 DEF TypeInv, Family
    <3>3. SameBut(todo, todo', Emitters, g) BY <2>3 DEF SameBut
    <3> QED BY <1>1, <2>3, <3>1, <3>2, <3>3, Filled
  <2>9. InHands' = InHands \cup N
    <3>1. InHands' = Contents(todo') \ (Unpublished' \cup {Nil}) BY DEF InHands
    <3>2. Unpublished \subseteq accepted BY DEF BusInv, Exclusive, Partition
    <3> QED BY <2>6, <2>7, <2>8, <3>1, <3>2 DEF InHands
  <2>10. Exclusive'
    <3>1. InQueues' = InQueues /\ InBatches' = InBatches /\ ToSet(handled)' = ToSet(handled)
      BY <1>1 DEF InQueues, InBatches, Contents, consumerVars
    <3>2. Once(queue, {})' /\ Once(batch, {})' /\ Distinct(handled)'
      BY <1>1 DEF BusInv, Exclusive, Once, Distinct, consumerVars
    <3>3. Partition(InQueues, InBatches, InHands, ToSet(handled), lost, accepted)
      BY DEF BusInv, Exclusive
    <3>4. Partition(InQueues, InBatches, InHands \cup N, ToSet(handled), lost, accepted \cup N)
      BY <2>7, <3>3 DEF Partition
    <3>5. Partition(InQueues, InBatches, InHands, ToSet(handled), lost, accepted)'
      BY <1>1, <1>6, <2>9, <3>1, <3>4
    <3>6. Unpublished' \subseteq InQueues' BY <2>6, <3>1 DEF BusInv, Exclusive
    <3> QED BY <3>2, <3>5, <3>6 DEF Exclusive
  <2>11. Begun'
    <3>1. \A h \in Emitters : call'[h] \in Nat /\ call[h] \in Nat /\ call[h] <= call'[h]
      BY <1>1, <1>4 DEF TypeInv
    <3>2. \A h \in Emitters : \A k \in DOMAIN Calls[h] : k <= call[h] => k <= call'[h]
      BY <3>1, CallsAreBatches
    <3>3. ASSUME NEW e \in accepted
          PROVE  \E h \in Emitters : \E k \in DOMAIN Calls[h] :
                   k <= call'[h] /\ \E i \in DOMAIN Calls[h][k] : Calls[h][k][i] = e
      BY <3>2, <3>3 DEF BusInv, Begun
    <3>4. ASSUME NEW e \in N
          PROVE  \E h \in Emitters : \E k \in DOMAIN Calls[h] :
                   k <= call'[h] /\ \E i \in DOMAIN Calls[h][k] : Calls[h][k][i] = e
      <4>1. PICK j \in DOMAIN c : c[j] = e BY <1>3, <3>4, Elements
      <4>2. call[g] + 1 <= call'[g] BY <1>1, <1>4
      <4> QED BY <1>2, <4>1, <4>2 DEF c
    <3> QED BY <1>6, <3>3, <3>4 DEF Begun
  <2> QED BY <2>2, <2>4, <2>5, <2>6, <2>10, <2>11 DEF BusInv
<1> QED BY <1>1, <1>4, <1>5, <1>6 DEF EmitStart, c

LEMMA AdvanceTypes ==
  ASSUME BusInv, NEW g \in Emitters, epc[g] \in Holding, Advance(g)
  PROVE  /\ todo' \in [Emitters -> Seq(Events \cup {Nil})]
         /\ epc' \in [Emitters -> Holding \cup {"idle", "notify"}]
<1>1. todo[g] # << >> /\ todo[g] \in Seq(Events \cup {Nil}) BY HeadsHeld
<1>2. Tail(todo[g]) \in Seq(Events \cup {Nil}) BY <1>1, Cutting
<1> QED BY <1>2 DEF Advance, BusInv, TypeInv, Holding

LEMMA EmitSkipBus ==
  ASSUME BusInv, NEW g \in Emitters, EmitSkip(g)
  PROVE  BusInv' /\ Unpublished' \subseteq Unpublished
<1>1. /\ epc[g] \in Holding /\ Advance(g) /\ Head(todo[g]) = Nil
      /\ UNCHANGED <<queue, consumerVars, call, handled, lost, slowed, accepted, try, closerVars>>
  BY DEF EmitSkip, Holding
<1>2. TypeInv' BY <1>1, AdvanceTypes DEF BusInv, TypeInv, consumerVars, closerVars
<1>3. /\ EndOfCall' /\ EmitterCounters'
      /\ Unpublished' = Unpublished \ {Head(todo[g])} /\ InHands' = InHands \ {Head(todo[g])}
  BY <1>1, <1>2, Advances
<1>4. Counters' BY <1>1, <1>3 DEF BusInv, Counters, EmitterCounters, consumerVars
<1>5. Exclusive'
  <2>1. InHands' = InHands BY <1>1, <1>3 DEF InHands
  <2>2. InQueues' = InQueues /\ InBatches' = InBatches /\ ToSet(handled)' = ToSet(handled)
    BY <1>1 DEF InQueues, InBatches, Contents, consumerVars
  <2>3. Once(queue, {})' /\ Once(batch, {})' /\ Distinct(handled)'
    BY <1>1 DEF BusInv, Exclusive, Once, Distinct, consumerVars
  <2>4. Unpublished' \subseteq InQueues' BY <1>3, <2>2 DEF BusInv, Exclusive
  <2> QED BY <1>1, <2>1, <2>2, <2>3, <2>4 DEF BusInv, Exclusive, Partition
<1>6. Begun' BY <1>1 DEF BusInv, Begun
<1> QED BY <1>2, <1>3, <1>4, <1>5, <1>6 DEF BusInv

LEMMA PublishBus ==
  ASSUME BusInv, NEW g \in Emitters, Publish(g)
  PROVE  BusInv' /\ Unpublished' \subseteq Unpublished
<1>1. /\ epc[g] \in Holding /\ epc[g] = "publish" /\ Advance(g)
      /\ UNCHANGED <<queue, consumerVars, call, handled, lost, slowed, accepted, try, closerVars>>
  BY DEF Publish, Placed, Holding
<1>2. TypeInv' BY <1>1, AdvanceTypes DEF BusInv, TypeInv, consumerVars, closerVars
<1>3. /\ EndOfCall' /\ EmitterCounters'
      /\ Unpublished' = Unpublished \ {Head(todo[g])} /\ InHands' = InHands \ {Head(todo[g])}
  BY <1>1, <1>2, Advances
<1>4. Counters' BY <1>1, <1>3 DEF BusInv, Counters, EmitterCounters, consumerVars
<1>5. Exclusive'
  <2>1. InHands' = InHands
    <3>1. Head(todo[g]) \in Unpublished BY <1>1, HeadsHeld
    <3> QED BY <1>3, <3>1 DEF InHands
  <2>2. InQueues' = InQueues /\ InBatches' = InBatches /\ ToSet(handled)' = ToSet(handled)
    BY <1>1 DEF InQueues, InBatches, Contents, consumerVars
  <2>3. Once(queue, {})' /\ Once(batch, {})' /\ Distinct(handled)'
    BY <1>1 DEF BusInv, Exclusive, Once, Distinct, consumerVars
  <2>4. Unpublished' \subseteq InQueues' BY <1>3, <2>2 DEF BusInv, Exclusive
  <2> QED BY <1>1, <2>1, <2>2, <2>3, <2>4 DEF BusInv, Exclusive, Partition
<1>6. Begun' BY <1>1 DEF BusInv, Begun
<1> QED BY <1>2, <1>3, <1>4, <1>5, <1>6 DEF BusInv

LEMMA SingleHandleBus ==
  ASSUME BusInv, NEW g \in Emitters, SingleHandle(g)
  PROVE  BusInv' /\ Unpublished' \subseteq Unpublished
<1> DEFINE e == Head(todo[g])
<1>1. /\ epc[g] \in Holding /\ epc[g] = "single" /\ Advance(g)
      /\ handled' = Append(handled, e) /\ slowed' = slowed \cup {e}
      /\ UNCHANGED <<queue, consumerVars, call, lost, accepted, try, closerVars>>
  BY DEF SingleHandle, Placed, Holding
<1>2. e \in Events /\ e \in InHands
  BY <1>1, HeadsHeld DEF BusInv, Counters, Holding
<1>3. EmitterCounters BY DEF BusInv, Counters, EmitterCounters
<1> HIDE DEF e
<1>4. /\ handled' \in Seq(Events) /\ Len(handled') = Len(handled) + 1
      /\ \A i \in 1 .. Len(handled) : handled'[i] = handled[i]
      /\ handled'[Len(handled) + 1] = e /\ ToSet(handled') = ToSet(handled) \cup {e}
  BY <1>1, <1>2, Appending DEF BusInv, TypeInv
<1>5. TypeInv'
  BY <1>1, <1>2, <1>4, AdvanceTypes DEF BusInv, TypeInv, consumerVars, closerVars
<1>6. /\ EndOfCall' /\ EmitterCounters'
      /\ Unpublished' = Unpublished \ {e} /\ InHands' = InHands \ {e}
  BY <1>1, <1>5, Advances DEF e
<1>7. Counters' BY <1>1, <1>6 DEF BusInv, Counters, EmitterCounters, consumerVars
<1>8. Exclusive'
  <2>1. InQueues' = InQueues /\ InBatches' = InBatches
    BY <1>1 DEF InQueues, InBatches, Contents, consumerVars
  <2>2. Once(queue, {})' /\ Once(batch, {})'
    BY <1>1 DEF BusInv, Exclusive, Once, consumerVars
  <2>3. Partition(InQueues, InBatches, InHands, ToSet(handled), lost, accepted)
    BY DEF BusInv, Exclusive
  <2>4. Partition(InQueues, InBatches, InHands \ {e}, ToSet(handled) \cup {e}, lost, accepted)
    BY <1>2, <2>3 DEF Partition
  <2>5. Partition(InQueues, InBatches, InHands, ToSet(handled), lost, accepted)'
    BY <1>1, <1>4, <1>6, <2>1, <2>4
  <2>6. Distinct(handled')
    <3>1. e \notin ToSet(handled) BY <1>2, <2>3 DEF Partition
    <3>2. ToSet(handled) = {handled[i] : i \in 1 .. Len(handled)} /\ Len(handled) \in Nat
      BY Elements DEF BusInv, TypeInv
    <3>3. Distinct(handled) BY DEF BusInv, Exclusive
    <3> QED BY <1>4, <3>1, <3>2, <3>3 DEF Distinct
  <2>7. Unpublished' \subseteq InQueues' BY <1>6, <2>1 DEF BusInv, Exclusive
  <2> QED BY <2>2, <2>5, <2>6, <2>7 DEF Exclusive
<1>9. Begun' BY <1>1 DEF BusInv, Begun
<1> QED BY <1>5, <1>6, <1>7, <1>8, <1>9 DEF BusInv

(* A push: the event is at the end of the ring, with a place to publish.   *)
Pushed(g, s) ==
  /\ epc[g] \in {"push", "slow"} /\ Head(todo[g]) # Nil /\ Push(s, Head(todo[g]))
  /\ epc' = [epc EXCEPT ![g] = "publish"]
  /\ UNCHANGED <<consumerVars, todo, call, handled, lost, accepted>>

LEMMA PushedBus ==
  ASSUME BusInv, NEW g \in Emitters, NEW s \in Shards, Pushed(g, s),
         slowed' \subseteq slowed \cup {Head(todo[g])}, UNCHANGED <<try, closerVars>>
  PROVE  /\ BusInv' /\ Head(todo[g]) \in InHands /\ Head(todo[g]) \in Events
         /\ Unpublished' = Unpublished \cup {Head(todo[g])}
<1>1. Head(todo[g]) \in Events BY HeadsHeld DEF Holding, Pushed
<1>2. TypeInv'
  <2>1. Append(queue[s], Head(todo[g])) \in Seq(Events)
    BY <1>1, Appending DEF BusInv, TypeInv
  <2> QED
    BY <1>1, <2>1 DEF BusInv, TypeInv, Pushed, Push, Holding, consumerVars, closerVars
<1> QED BY <1>2, Claims DEF Pushed

LEMMA EmitPushSteps ==
  ASSUME NEW g \in Emitters, EmitPush(g)
  PROVE  \/ Pushed(g, ShardOf[Head(todo[g])]) /\ UNCHANGED <<slowed, try, closerVars>>
         \/ /\ UNCHANGED <<queue, consumerVars, call, todo, closerVars, accepted, handled, lost, slowed>>
            /\ epc[g] = "push" /\ Head(todo[g]) # Nil /\ epc' = [epc EXCEPT ![g] = "slow"]
            /\ try' = [try EXCEPT ![g] = 0]
BY DEF EmitPush, Pushed

LEMMA EmitPushBus ==
  ASSUME BusInv, NEW g \in Emitters, EmitPush(g)
  PROVE  BusInv'
<1>1. Head(todo[g]) \in Events BY HeadsHeld DEF Holding, EmitPush
<1>2. ShardOf[Head(todo[g])] \in Shards BY <1>1, FlowBusAssumption DEF Shards
<1>3. CASE Pushed(g, ShardOf[Head(todo[g])]) /\ UNCHANGED <<slowed, try, closerVars>>
  BY <1>2, <1>3, PushedBus
<1>4. CASE /\ UNCHANGED <<queue, consumerVars, call, todo, closerVars, accepted, handled, lost, slowed>>
           /\ epc[g] = "push" /\ Head(todo[g]) # Nil /\ epc' = [epc EXCEPT ![g] = "slow"]
           /\ try' = [try EXCEPT ![g] = 0]
  <2>1. 0 \in 0 .. NumShards BY FlowBusAssumption
  <2>2. TypeInv' BY <1>4, <2>1 DEF BusInv, TypeInv, Holding, consumerVars, closerVars
  <2>3. Counters' BY <1>4 DEF BusInv, TypeInv, Counters, Holding, consumerVars
  <2>4. \A h \in Emitters : epc'[h] = "publish" <=> epc[h] = "publish"
    BY <1>4 DEF BusInv, TypeInv
  <2> QED BY <1>4, <2>2, <2>3, <2>4, Quiet DEF consumerVars
<1> QED BY <1>3, <1>4, EmitPushSteps

LEMMA SlowTrySteps ==
  ASSUME NEW g \in Emitters, SlowTry(g)
  PROVE  \/ /\ try[g] < NumShards /\ (Head(todo[g]) # Nil => Pushed(g, try[g]))
            /\ slowed' = slowed \cup {Head(todo[g])} /\ UNCHANGED <<try, closerVars>>
         \/ /\ UNCHANGED <<queue, consumerVars, epc, call, todo, closerVars, accepted, handled, lost, slowed>>
            /\ try[g] < NumShards /\ try' = [try EXCEPT ![g] = try[g] + 1]
BY DEF SlowTry, Pushed

LEMMA SlowTryBus ==
  ASSUME BusInv, NEW g \in Emitters, SlowTry(g)
  PROVE  BusInv'
<1>1. epc[g] = "slow" /\ Head(todo[g]) # Nil /\ try[g] \in 0 .. NumShards /\ NumShards \in Nat
  BY FlowBusAssumption DEF SlowTry, BusInv, Counters, TypeInv, Holding
<1>2. CASE /\ try[g] < NumShards /\ Pushed(g, try[g])
           /\ slowed' = slowed \cup {Head(todo[g])} /\ UNCHANGED <<try, closerVars>>
  <2>1. try[g] \in Shards BY <1>1, <1>2 DEF Shards
  <2> QED BY <1>2, <2>1, PushedBus
<1>3. CASE /\ UNCHANGED <<queue, consumerVars, epc, call, todo, closerVars, accepted, handled, lost, slowed>>
           /\ try[g] < NumShards /\ try' = [try EXCEPT ![g] = try[g] + 1]
  <2>1. try[g] + 1 \in 0 .. NumShards BY <1>1, <1>3
  <2>2. TypeInv' BY <1>3, <2>1 DEF BusInv, TypeInv, consumerVars, closerVars
  <2>3. Counters' BY <1>3 DEF BusInv, Counters, consumerVars
  <2> QED BY <1>3, <2>2, <2>3, Quiet DEF consumerVars
<1> QED BY <1>1, <1>2, <1>3, SlowTrySteps

LEMMA SinglePanicsBus ==
  ASSUME BusInv, NEW g \in Emitters, SinglePanics(g)
  PROVE  BusInv' /\ Unpublished' = Unpublished
<1> DEFINE X == ToSet(todo[g]) \ {Nil}
<1>1. /\ TypeInv /\ epc[g] = "single" /\ epc' = [epc EXCEPT ![g] = "idle"]
      /\ todo' = [todo EXCEPT ![g] = << >>] /\ lost' = lost \cup X
      /\ UNCHANGED <<queue, consumerVars, call, handled, slowed, accepted, try, closerVars>>
  BY DEF SinglePanics, BusInv
<1>2. X \subseteq Events BY <1>1, Elements DEF TypeInv
<1>3. TypeInv'
  <2>1. << >> \in Seq(Events \cup {Nil}) OBVIOUS
  <2> QED BY <1>1, <1>2, <2>1 DEF TypeInv, Holding, consumerVars, closerVars
<1>4. /\ todo'[g] = << >> /\ \A h \in Emitters \ {g} : todo'[h] = todo[h]
      /\ epc'[g] = "idle" /\ \A h \in Emitters \ {g} : epc'[h] = epc[h]
  BY <1>1 DEF TypeInv
<1>5. Counters' BY <1>1, <1>4 DEF BusInv, Counters, Holding, consumerVars
<1>6. EndOfCall'
  <2>1. SUFFICES ASSUME NEW h \in Emitters, todo'[h] # << >>
                 PROVE  /\ call'[h] \in DOMAIN Calls[h]
                        /\ Len(todo'[h]) <= Len(Calls[h][call'[h]])
                        /\ \A i \in 1 .. Len(todo'[h]) :
                             todo'[h][i] = Calls[h][call'[h]][Len(Calls[h][call'[h]]) - Len(todo'[h]) + i]
    BY DEF EndOfCall
  <2>2. todo'[h] = todo[h] /\ call' = call BY <1>1, <1>4, <2>1
  <2> QED BY <2>1, <2>2 DEF BusInv, EndOfCall
<1>7. Unpublished' = Unpublished
  <2>1. \A h \in Emitters : /\ epc'[h] = "publish" <=> epc[h] = "publish"
                            /\ epc[h] = "publish" => todo'[h] = todo[h]
    BY <1>1, <1>4
  <2> QED BY <2>1 DEF Unpublished
<1>8. Contents(todo) = Contents(todo') \cup ToSet(todo[g]) /\ Contents(todo') \cap ToSet(todo[g]) \subseteq {Nil}
  <2>1. Family(todo, Emitters, Events \cup {Nil}) BY <1>1, Typed
  <2>2. Family(todo', Emitters, Events \cup {Nil}) BY <1>3 DEF TypeInv, Family
  <2>3. SameBut(todo, todo', Emitters, g) BY <1>4 DEF SameBut
  <2>4. Once(todo, {Nil}) BY TodoOnce
  <2> QED BY <1>4, <2>1, <2>2, <2>3, <2>4, Emptied
<1>9. X \cap Unpublished = {}
  <2>1. SUFFICES ASSUME NEW e \in X, e \in Unpublished PROVE FALSE OBVIOUS
  <2>2. PICK h \in Emitters : epc[h] = "publish" /\ Head(todo[h]) = e BY <2>1 DEF Unpublished
  <2>3. todo[h] # << >> /\ todo[h] \in Seq(Events \cup {Nil})
    BY <1>1, <2>2 DEF BusInv, TypeInv, Counters, Holding
  <2>4. h # g BY <1>1, <2>2
  <2>5. Head(todo[h]) = todo[h][1] /\ 1 \in 1 .. Len(todo[h]) BY <2>3
  <2>6. ToSet(todo[g]) = {todo[g][i] : i \in 1 .. Len(todo[g])} BY <1>1, Elements DEF TypeInv
  <2>7. PICK i \in 1 .. Len(todo[g]) : todo[g][i] = e BY <2>1, <2>6
  <2>8. todo[g][i] = todo[h][1] /\ todo[g][i] \notin {Nil} BY <2>1, <2>2, <2>5, <2>7
  <2>9. Family(todo, Emitters, Events \cup {Nil}) /\ Once(todo, {Nil}) BY <1>1, Typed, TodoOnce
  <2>10. g = h BY <2>5, <2>7, <2>8, <2>9, UsedOnce
  <2> QED BY <2>4, <2>10
<1>10. InHands' = InHands \ X /\ X \subseteq InHands
  <2>1. InHands' = Contents(todo') \ (Unpublished' \cup {Nil}) BY DEF InHands
  <2> QED BY <1>7, <1>8, <1>9, <2>1 DEF InHands
<1> HIDE DEF X
<1>11. Exclusive'
  <2>1. InQueues' = InQueues /\ InBatches' = InBatches /\ ToSet(handled)' = ToSet(handled)
    BY <1>1 DEF InQueues, InBatches, Contents, consumerVars
  <2>2. Once(queue, {})' /\ Once(batch, {})' /\ Distinct(handled)'
    BY <1>1 DEF BusInv, Exclusive, Once, Distinct, consumerVars
  <2>3. Partition(InQueues, InBatches, InHands, ToSet(handled), lost, accepted)
    BY DEF BusInv, Exclusive
  <2>4. Partition(InQueues, InBatches, InHands \ X, ToSet(handled), lost \cup X, accepted)
    BY <1>10, <2>3 DEF Partition
  <2>5. Partition(InQueues, InBatches, InHands, ToSet(handled), lost, accepted)'
    BY <1>1, <1>10, <2>1, <2>4
  <2>6. Unpublished' \subseteq InQueues' BY <1>7, <2>1 DEF BusInv, Exclusive
  <2> QED BY <2>2, <2>5, <2>6 DEF Exclusive
<1>12. Begun' BY <1>1 DEF BusInv, Begun
<1> QED BY <1>3, <1>5, <1>6, <1>7, <1>11, <1>12 DEF BusInv

(* The events a pop takes are the first of the ring, all published.        *)
Took(s, p) ==
  /\ p \in Seq(Events) /\ p # << >> /\ queue'[s] \in Seq(Events)
  /\ CutAt(queue[s], Len(p), p, queue'[s]) /\ batch'[s] = p
  /\ \A i \in 1 .. Len(p) : queue[s][i] \notin Unpublished
  /\ SameBut(queue, queue', Shards, s) /\ SameBut(batch, batch', Shards, s)

LEMMA PopTakes ==
  ASSUME BusInv, NEW s \in Shards, Pop(s)
  PROVE  \E p \in Seq(Events) : Took(s, p)
<1> DEFINE q == queue[s]
           n == Min({Len(Ready(s)), BatchSz})
           p == SubSeq(q, 1, n)
           r == SubSeq(q, n + 1, Len(q))
<1>1. /\ q \in Seq(Events) /\ Ready(s) # << >> /\ TypeInv
      /\ batch' = [batch EXCEPT ![s] = p] /\ queue' = [queue EXCEPT ![s] = r]
  BY DEF Pop, BusInv, TypeInv
<1>2. /\ Ready(s) \in Seq(Events) /\ Len(Ready(s)) \in 0 .. Len(q)
      /\ \A i \in 1 .. Len(Ready(s)) : q[i] \notin Unpublished
  BY <1>1, ReadyIsPrefix
<1>3. Len(Ready(s)) \in Nat \ {0} /\ BatchSz \in Nat \ {0} /\ Len(q) \in Nat
  BY <1>1, <1>2, FlowBusAssumption
<1>4. n \in {Len(Ready(s)), BatchSz} /\ n <= Len(Ready(s))
  <2> DEFINE S == {Len(Ready(s)), BatchSz}
  <2>1. S \in SUBSET Nat /\ S # {} BY <1>3
  <2>2. Min(S) \in S /\ \A y \in S : Min(S) <= y BY <2>1, Least
  <2> QED BY <2>2
<1>5. n \in 1 .. Len(q) /\ n \in 0 .. Len(q) BY <1>2, <1>3, <1>4
<1> HIDE DEF n, q
<1>6. /\ p \in Seq(Events) /\ r \in Seq(Events) /\ Len(p) = n /\ Len(r) = Len(q) - n
      /\ \A i \in 1 .. n : p[i] = q[i]
      /\ \A i \in 1 .. Len(q) - n : r[i] = q[n + i]
      /\ ToSet(q) = ToSet(p) \cup ToSet(r)
  BY <1>1, <1>5, Splitting
<1> HIDE DEF p, r
<1>7. queue'[s] = r /\ batch'[s] = p /\ SameBut(queue, queue', Shards, s) /\ SameBut(batch, batch', Shards, s)
  BY <1>1 DEF TypeInv, SameBut
<1>8. CutAt(q, Len(p), p, r) BY <1>5, <1>6 DEF CutAt
<1>9. p # << >> BY <1>5, <1>6
<1>10. \A i \in 1 .. Len(p) : q[i] \notin Unpublished
  <2>1. \A i \in 1 .. n : i \in 1 .. Len(Ready(s)) BY <1>3, <1>4, <1>5
  <2> QED BY <1>2, <1>6, <2>1
<1>11. Took(s, p) BY <1>6, <1>7, <1>8, <1>9, <1>10 DEF Took, q
<1> QED BY <1>6, <1>11

LEMMA PopBus ==
  ASSUME BusInv, NEW s \in Shards, Pop(s)
  PROVE  BusInv' /\ Unpublished' = Unpublished
<1>1. /\ TypeInv /\ cpc[s] = "poll" /\ cpc' = [cpc EXCEPT ![s] = "handle"]
      /\ UNCHANGED <<closing, epc, call, todo, try, closerVars, accepted, handled, lost, slowed>>
  BY DEF Pop, BusInv, emitterVars
<1>2. batch[s] = << >> BY <1>1 DEF BusInv, Counters
<1>3. PICK p \in Seq(Events) : Took(s, p) BY PopTakes
<1>4. TypeInv'
  <2>1. queue' \in [Shards -> Seq(Events)]
    <3>1. queue' = [queue EXCEPT ![s] = queue'[s]] BY <1>1 DEF Pop, TypeInv
    <3>2. queue'[s] \in Seq(Events) BY <1>3 DEF Took
    <3> QED BY <1>1, <3>1, <3>2 DEF TypeInv
  <2>2. batch' \in [Shards -> Seq(Events)]
    <3>1. batch' = [batch EXCEPT ![s] = batch'[s]] BY <1>1 DEF Pop, TypeInv
    <3>2. batch'[s] \in Seq(Events) BY <1>3 DEF Took
    <3> QED BY <1>1, <3>1, <3>2 DEF TypeInv
  <2> QED BY <1>1, <2>1, <2>2 DEF TypeInv, closerVars
<1>5. Counters' BY <1>1, <1>3 DEF Took, SameBut, BusInv, TypeInv, Counters
<1>6. EndOfCall' BY <1>1 DEF BusInv, EndOfCall
<1>7. Unpublished' = Unpublished BY <1>1 DEF Unpublished
<1>8. /\ Family(queue, Shards, Events) /\ Family(queue', Shards, Events)
      /\ Family(batch, Shards, Events) /\ Family(batch', Shards, Events)
  BY <1>1, <1>4, Typed DEF TypeInv, Family
<1>9. /\ Contents(queue) = Contents(queue') \cup ToSet(p)
      /\ Once(queue', {}) /\ Contents(queue') \cap ToSet(p) = {}
  <2> DEFINE n == Len(p)
             nothing == {}
  <2>1. CutAt(queue[s], n, p, queue'[s]) /\ SameBut(queue, queue', Shards, s)
    BY <1>3 DEF Took
  <2>2. Once(queue, nothing) BY DEF BusInv, Exclusive
  <2>4. p \in Seq(Events) OBVIOUS
  <2> HIDE DEF n, nothing
  <2>3. /\ Contents(queue) = Contents(queue') \cup ToSet(p)
        /\ Once(queue', nothing) /\ Contents(queue') \cap ToSet(p) \subseteq nothing
    BY <1>8, <2>1, <2>2, <2>4, Shortened
  <2> QED BY <2>3 DEF nothing
<1>10. Distinct(p)
  <2>1. /\ \A i \in 1 .. Len(p) : i \in 1 .. Len(queue[s]) /\ p[i] = queue[s][i]
    <3>1. Len(queue[s]) \in Nat /\ Len(p) \in Nat BY <1>1 DEF TypeInv
    <3> QED BY <1>3, <3>1 DEF Took, CutAt
  <2> DEFINE nothing == {}
  <2>2. Once(queue, nothing) BY DEF BusInv, Exclusive
  <2>3. s \in DOMAIN queue BY <1>8 DEF Family
  <2>4. \A e : e \notin nothing OBVIOUS
  <2> HIDE DEF nothing
  <2>5. \A i, j \in 1 .. Len(queue[s]) : queue[s][i] = queue[s][j] => i = j
    BY <2>2, <2>3, <2>4 DEF Once
  <2> QED BY <2>1, <2>5 DEF Distinct
<1>11. Partition(InQueues, InBatches, InHands, ToSet(handled), lost, accepted)
  BY DEF BusInv, Exclusive
<1>12. Contents(batch') = Contents(batch) \cup ToSet(p) /\ Once(batch', {})
  <2>1. SameBut(batch, batch', Shards, s) /\ batch'[s] = p BY <1>3 DEF Took
  <2>2. ToSet(p) \cap Contents(batch) = {}
    BY <1>9, <1>11 DEF Partition, InQueues, InBatches
  <2>3. Once(batch, {}) BY DEF BusInv, Exclusive
  <2>4. /\ Contents(batch') = Contents(batch) \cup ToSet(batch'[s])
        /\ Once(batch, {}) /\ Distinct(batch'[s]) /\ ToSet(batch'[s]) \cap Contents(batch) = {}
             => Once(batch', {})
    BY <1>2, <1>8, <2>1, Filled
  <2> QED BY <1>10, <2>1, <2>2, <2>3, <2>4
<1>13. ToSet(p) \cap Unpublished = {}
  <2>1. ToSet(p) = {p[i] : i \in 1 .. Len(p)} BY Elements
  <2>2. \A i \in 1 .. Len(p) : p[i] = queue[s][i] /\ queue[s][i] \notin Unpublished
    BY <1>3 DEF Took, CutAt
  <2> QED BY <2>1, <2>2
<1>14. Exclusive'
  <2>1. /\ InQueues = InQueues' \cup ToSet(p) /\ InQueues' \cap ToSet(p) = {}
        /\ InBatches' = InBatches \cup ToSet(p)
    BY <1>9, <1>12 DEF InQueues, InBatches
  <2>2. InHands' = InHands /\ ToSet(handled)' = ToSet(handled) /\ Distinct(handled)'
    BY <1>1, <1>7 DEF InHands, Contents, BusInv, Exclusive, Distinct
  <2>3. Partition(InQueues', InBatches \cup ToSet(p), InHands, ToSet(handled), lost, accepted)
    BY <1>11, <2>1 DEF Partition
  <2>4. Partition(InQueues, InBatches, InHands, ToSet(handled), lost, accepted)'
    BY <1>1, <2>1, <2>2, <2>3
  <2>5. Unpublished' \subseteq InQueues'
    BY <1>7, <1>13, <2>1 DEF BusInv, Exclusive
  <2> QED BY <1>9, <1>12, <2>2, <2>4, <2>5 DEF Exclusive, Once
<1>15. Begun' BY <1>1 DEF BusInv, Begun
<1> QED BY <1>4, <1>5, <1>6, <1>7, <1>14, <1>15 DEF BusInv

LEMMA HandleBus ==
  ASSUME BusInv, NEW s \in Shards, Handle(s)
  PROVE  BusInv' /\ Unpublished' = Unpublished
<1> DEFINE e == Head(batch[s])
<1>1. /\ TypeInv /\ cpc[s] = "handle" /\ batch[s] # << >> /\ batch[s] \in Seq(Events)
      /\ batch' = [batch EXCEPT ![s] = Tail(batch[s])] /\ handled' = Append(handled, e)
      /\ UNCHANGED <<queue, cpc, closing, epc, call, todo, try, closerVars, accepted, lost, slowed>>
  BY DEF Handle, BusInv, TypeInv, emitterVars
<1>2. Tail(batch[s]) \in Seq(Events) /\ e \in Events BY <1>1, Cutting
<1> HIDE DEF e
<1>3. /\ handled' \in Seq(Events) /\ Len(handled') = Len(handled) + 1
      /\ \A i \in 1 .. Len(handled) : handled'[i] = handled[i]
      /\ handled'[Len(handled) + 1] = e /\ ToSet(handled') = ToSet(handled) \cup {e}
  BY <1>1, <1>2, Appending DEF TypeInv
<1>4. TypeInv' BY <1>1, <1>2, <1>3 DEF TypeInv, closerVars
<1>5. batch'[s] = Tail(batch[s]) /\ SameBut(batch, batch', Shards, s)
  BY <1>1 DEF TypeInv, SameBut
<1>6. Counters' BY <1>1, <1>5 DEF SameBut, BusInv, Counters
<1>7. EndOfCall' /\ Begun' BY <1>1 DEF BusInv, EndOfCall, Begun
<1>8. Unpublished' = Unpublished BY <1>1 DEF Unpublished
<1>9. /\ Contents(batch) = Contents(batch') \cup {e} /\ Once(batch', {})
      /\ e \notin Contents(batch')
  <2>1. Family(batch, Shards, Events) /\ Family(batch', Shards, Events)
    BY <1>1, <1>4, Typed DEF TypeInv, Family
  <2>2. Shorter(batch'[s], batch[s]) BY <1>1, <1>5 DEF Shorter
  <2>3. Once(batch, {}) BY DEF BusInv, Exclusive
  <2>4. /\ Contents(batch) = Contents(batch') \cup {Head(batch[s])} /\ Once(batch', {})
        /\ Head(batch[s]) \in Contents(batch') => Head(batch[s]) \in {}
    BY <1>5, <2>1, <2>2, <2>3, CutFrom
  <2> QED BY <2>4 DEF e
<1>10. Exclusive'
  <2>1. InBatches' = InBatches \ {e} /\ e \in InBatches BY <1>9 DEF InBatches
  <2>2. InHands' = InHands /\ InQueues' = InQueues
    BY <1>1, <1>8 DEF InHands, InQueues, Contents
  <2>3. Partition(InQueues, InBatches, InHands, ToSet(handled), lost, accepted)
    BY DEF BusInv, Exclusive
  <2>4. Partition(InQueues, InBatches \ {e}, InHands, ToSet(handled) \cup {e}, lost, accepted)
    BY <2>1, <2>3 DEF Partition
  <2>5. Partition(InQueues, InBatches, InHands, ToSet(handled), lost, accepted)'
    BY <1>1, <1>3, <2>1, <2>2, <2>4
  <2>6. Distinct(handled')
    <3>1. e \notin ToSet(handled) BY <2>1, <2>3 DEF Partition
    <3>2. ToSet(handled) = {handled[i] : i \in 1 .. Len(handled)} /\ Len(handled) \in Nat
      BY <1>1, Elements DEF TypeInv
    <3>3. Distinct(handled) BY DEF BusInv, Exclusive
    <3> QED BY <1>3, <3>1, <3>2, <3>3 DEF Distinct
  <2>7. Unpublished' \subseteq InQueues' BY <1>8, <2>2 DEF BusInv, Exclusive
  <2>8. Once(queue, {})' BY <1>1 DEF BusInv, Exclusive, Once
  <2> QED BY <1>9, <2>5, <2>6, <2>7, <2>8 DEF Exclusive, Once
<1> QED BY <1>4, <1>6, <1>7, <1>8, <1>10 DEF BusInv

LEMMA HandlerPanicsBus ==
  ASSUME BusInv, NEW s \in Shards, HandlerPanics(s)
  PROVE  BusInv' /\ Unpublished' = Unpublished
<1> DEFINE X == ToSet(batch[s])
<1>1. /\ TypeInv /\ cpc[s] = "handle" /\ cpc' = [cpc EXCEPT ![s] = "poll"]
      /\ batch' = [batch EXCEPT ![s] = << >>] /\ lost' = lost \cup X
      /\ UNCHANGED <<queue, closing, epc, call, todo, try, closerVars, accepted, handled, slowed>>
  BY DEF HandlerPanics, BusInv, emitterVars
<1>2. X \subseteq Events BY <1>1, Elements DEF TypeInv
<1>3. TypeInv'
  <2>1. << >> \in Seq(Events) OBVIOUS
  <2> QED BY <1>1, <1>2, <2>1 DEF TypeInv, closerVars
<1>4. batch'[s] = << >> /\ SameBut(batch, batch', Shards, s) BY <1>1 DEF TypeInv, SameBut
<1>5. Counters' BY <1>1, <1>4 DEF SameBut, BusInv, TypeInv, Counters
<1>6. EndOfCall' /\ Begun' BY <1>1 DEF BusInv, EndOfCall, Begun
<1>7. Unpublished' = Unpublished BY <1>1 DEF Unpublished
<1>8. /\ Contents(batch) = Contents(batch') \cup X /\ Once(batch', {})
      /\ Contents(batch') \cap X = {}
  <2>1. Family(batch, Shards, Events) /\ Family(batch', Shards, Events)
    BY <1>1, <1>3, Typed DEF TypeInv, Family
  <2>2. Once(batch, {}) BY DEF BusInv, Exclusive
  <2>3. /\ Contents(batch) = Contents(batch') \cup ToSet(batch[s]) /\ Once(batch', {})
        /\ Contents(batch') \cap ToSet(batch[s]) \subseteq {}
    BY <1>4, <2>1, <2>2, Emptied
  <2> QED BY <2>3
<1> HIDE DEF X
<1>9. Exclusive'
  <2>1. InBatches' = InBatches \ X /\ X \subseteq InBatches BY <1>8 DEF InBatches
  <2>2. InHands' = InHands /\ InQueues' = InQueues
    BY <1>1, <1>7 DEF InHands, InQueues, Contents
  <2>3. Partition(InQueues, InBatches, InHands, ToSet(handled), lost, accepted)
    BY DEF BusInv, Exclusive
  <2>4. Partition(InQueues, InBatches \ X, InHands, ToSet(handled), lost \cup X, accepted)
    BY <2>1, <2>3 DEF Partition
  <2>5. Partition(InQueues, InBatches, InHands, ToSet(handled), lost, accepted)'
    BY <1>1, <2>1, <2>2, <2>4
  <2>6. Unpublished' \subseteq InQueues' BY <1>7, <2>2 DEF BusInv, Exclusive
  <2>7. Once(queue, {})' /\ Distinct(handled)' BY <1>1 DEF BusInv, Exclusive, Once, Distinct
  <2> QED BY <1>8, <2>5, <2>6, <2>7 DEF Exclusive, Once
<1> QED BY <1>3, <1>5, <1>6, <1>7, <1>9 DEF BusInv

LEMMA EmitterWaitsBus ==
  ASSUME BusInv, NEW g \in Emitters, SingleLock(g) \/ Notify(g)
  PROVE  BusInv' /\ Unpublished' = Unpublished
<1>1. /\ UNCHANGED <<queue, consumerVars, call, todo, try, closerVars, accepted, handled, lost, slowed>>
      /\ \/ epc[g] = "slow" /\ epc' = [epc EXCEPT ![g] = "single"]
         \/ epc[g] = "notify" /\ epc' = [epc EXCEPT ![g] = "idle"]
  BY DEF SingleLock, Notify
<1>2. TypeInv'
  <2>1. epc' \in [Emitters -> Holding \cup {"idle", "notify"}]
    BY <1>1 DEF BusInv, TypeInv, Holding
  <2> QED BY <1>1, <2>1 DEF BusInv, TypeInv, consumerVars, closerVars
<1>3. Counters' BY <1>1 DEF BusInv, TypeInv, Counters, Holding, consumerVars
<1>4. \A h \in Emitters : epc'[h] = "publish" <=> epc[h] = "publish"
  BY <1>1 DEF BusInv, TypeInv
<1> QED BY <1>1, <1>2, <1>3, <1>4, Quiet DEF consumerVars

LEMMA ConsumerMovesBus ==
  ASSUME BusInv, NEW s \in Shards, PopNothing(s) \/ Wake(s) \/ SeeDone(s) \/ BatchDone(s)
  PROVE  BusInv' /\ Unpublished' = Unpublished
<1>1. /\ UNCHANGED <<queue, batch, epc, call, todo, try, closerVars, accepted, handled, lost, slowed>>
      /\ batch[s] = << >>
      /\ closing' = closing \/ closing' = [closing EXCEPT ![s] = TRUE]
      /\ cpc' = [cpc EXCEPT ![s] = cpc'[s]] /\ cpc'[s] \in {"poll", "wait", "exited"}
  BY DEF PopNothing, Wake, SeeDone, BatchDone, BusInv, TypeInv, Counters, emitterVars
<1>2. TypeInv'
  <2>1. TypeInv BY DEF BusInv
  <2>2. closing' \in [Shards -> BOOLEAN] BY <1>1, <2>1 DEF TypeInv
  <2>3. cpc' \in [Shards -> {"poll", "wait", "handle", "exited"}]
    BY <1>1, <2>1 DEF TypeInv
  <2> QED BY <1>1, <2>1, <2>2, <2>3 DEF TypeInv, closerVars
<1>3. Counters' BY <1>1 DEF BusInv, TypeInv, Counters
<1> QED BY <1>1, <1>2, <1>3, Quiet

LEMMA CloserBus ==
  ASSUME BusInv, NEW d \in Closers, Drain(d) \/ Closer(d)
  PROVE  BusInv' /\ Unpublished' = Unpublished
<1>1. UNCHANGED <<queue, consumerVars, emitterVars, accepted, handled, lost, slowed>>
  BY DEF Drain, Closer, CloseDone, CloseWait
<1>2. owed' \in [Closers -> SUBSET Events]
  <2>1. CASE Drain(d)
    <3>1. \A s \in Shards : ToSet(batch[s] \o Ready(s)) \subseteq Events
      <4>1. SUFFICES ASSUME NEW s \in Shards PROVE ToSet(batch[s] \o Ready(s)) \subseteq Events
        OBVIOUS
      <4>2. batch[s] \in Seq(Events) /\ Ready(s) \in Seq(Events)
        BY ReadyIsPrefix DEF BusInv, TypeInv
      <4>3. batch[s] \o Ready(s) \in Seq(Events) BY <4>2
      <4> QED BY <4>3, Elements
    <3>2. ToSet(handled) \subseteq Events BY Elements DEF BusInv, TypeInv
    <3> QED BY <2>1, <3>1, <3>2 DEF Drain, BusInv, TypeInv
  <2>2. CASE Closer(d) BY <2>2 DEF Closer, CloseDone, CloseWait, BusInv, TypeInv
  <2> QED BY <2>1, <2>2
<1>3. closed' \in BOOLEAN /\ done' \in BOOLEAN
  BY DEF Drain, Closer, CloseDone, CloseWait, BusInv, TypeInv
<1>4. dpc' \in [Closers -> {"idle", "close", "wait", "returned"}]
  BY DEF Drain, Closer, CloseDone, CloseWait, BusInv, TypeInv
<1>5. TypeInv' BY <1>1, <1>2, <1>3, <1>4 DEF BusInv, TypeInv, consumerVars, emitterVars
<1>6. Counters' BY <1>1 DEF BusInv, Counters, consumerVars, emitterVars
<1> QED BY <1>1, <1>5, <1>6, Quiet DEF consumerVars, emitterVars

LEMMA BusStutter == BusInv /\ UNCHANGED vars => BusInv' /\ Unpublished' = Unpublished
<1>1. SUFFICES ASSUME BusInv, UNCHANGED vars PROVE BusInv' /\ Unpublished' = Unpublished
  OBVIOUS
<1>2. TypeInv' /\ Counters'
  BY <1>1 DEF vars, consumerVars, emitterVars, closerVars, BusInv, TypeInv, Counters
<1>3. /\ UNCHANGED <<queue, batch, todo, handled, lost, accepted, call>>
      /\ \A h \in Emitters : epc'[h] = "publish" <=> epc[h] = "publish"
  BY <1>1 DEF vars, consumerVars, emitterVars
<1> QED BY <1>1, <1>2, <1>3, Quiet

LEMMA BusStep == BusInv /\ [Next]_vars => BusInv'
<1>1. SUFFICES ASSUME BusInv, [Next]_vars PROVE BusInv' OBVIOUS
<1>2. CASE UNCHANGED vars BY <1>1, <1>2, BusStutter
<1>3. ASSUME NEW g \in Emitters, EmitStart(g) PROVE BusInv' BY <1>1, <1>3, EmitStartBus
<1>4. ASSUME NEW g \in Emitters, Emitter(g) PROVE BusInv'
  BY <1>1, <1>4, EmitSkipBus, EmitPushBus, SlowTryBus, PublishBus, EmitterWaitsBus,
     SingleHandleBus, SinglePanicsBus DEF Emitter
<1>5. ASSUME NEW s \in Shards, Consumer(s) PROVE BusInv'
  BY <1>1, <1>5, PopBus, ConsumerMovesBus, HandleBus, HandlerPanicsBus DEF Consumer
<1>6. ASSUME NEW d \in Closers, Drain(d) \/ Closer(d) PROVE BusInv' BY <1>1, <1>6, CloserBus
<1> QED BY <1>1, <1>2, <1>3, <1>4, <1>5, <1>6 DEF Next

(* The invariant holds in every reachable state.                           *)
THEOREM BusInvariant == Spec => []BusInv
<1> QED BY BusInit, BusStep, PTL DEF Spec

(***************************************************************************)
(* Each accepted event is in one place.                                    *)
(***************************************************************************)
LEMMA Joining ==
  ASSUME NEW S, NEW p \in Seq(S), NEW q \in Seq(S)
  PROVE  ToSet(p \o q) = ToSet(p) \cup ToSet(q)
<1>1. /\ p \o q \in Seq(S) /\ Len(p \o q) = Len(p) + Len(q) /\ Len(p) \in Nat /\ Len(q) \in Nat
      /\ \A i \in 1 .. Len(p) : (p \o q)[i] = p[i]
      /\ \A i \in 1 .. Len(q) : (p \o q)[Len(p) + i] = q[i]
  OBVIOUS
<1> DEFINE r == p \o q
<1> HIDE DEF r
<1>2. /\ ToSet(r) = {r[i] : i \in 1 .. Len(r)} /\ ToSet(p) = {p[i] : i \in 1 .. Len(p)}
      /\ ToSet(q) = {q[i] : i \in 1 .. Len(q)}
  BY <1>1, Elements DEF r
<1>3. ToSet(r) \subseteq ToSet(p) \cup ToSet(q)
  <2>1. SUFFICES ASSUME NEW i \in 1 .. Len(r) PROVE r[i] \in ToSet(p) \cup ToSet(q) BY <1>2
  <2>2. CASE i <= Len(p) BY <1>1, <1>2, <2>2 DEF r
  <2>3. CASE i > Len(p)
    <3>1. i - Len(p) \in 1 .. Len(q) /\ Len(p) + (i - Len(p)) = i BY <1>1, <2>3 DEF r
    <3>2. r[i] = q[i - Len(p)] BY <1>1, <3>1 DEF r
    <3> QED BY <1>2, <3>1, <3>2
  <2> QED BY <1>1, <2>2, <2>3
<1>4. ToSet(p) \subseteq ToSet(r) BY <1>1, <1>2 DEF r
<1>5. ToSet(q) \subseteq ToSet(r)
  <2>1. \A i \in 1 .. Len(q) : Len(p) + i \in 1 .. Len(r) BY <1>1 DEF r
  <2> QED BY <1>1, <1>2, <2>1 DEF r
<1> QED BY <1>3, <1>4, <1>5 DEF r

LEMMA FoundOnce ==
  ASSUME NEW I, NEW S, NEW f, Family(f, I, S), NEW but, Once(f, but),
         NEW e \in Contents(f), e \notin but
  PROVE  \E x \in I : e \in ToSet(f[x]) /\ \A y \in I : e \in ToSet(f[y]) => y = x
<1>1. \A x \in I : ToSet(f[x]) = {f[x][i] : i \in 1 .. Len(f[x])} BY Elements DEF Family
<1>2. PICK x \in I : \E i \in 1 .. Len(f[x]) : f[x][i] = e BY Members
<1>3. PICK i \in 1 .. Len(f[x]) : f[x][i] = e BY <1>2
<1>4. ASSUME NEW y \in I, e \in ToSet(f[y]) PROVE y = x
  <2>1. PICK j \in 1 .. Len(f[y]) : f[y][j] = e BY <1>1, <1>4
  <2>2. f[x][i] = f[y][j] /\ f[x][i] \notin but BY <1>3, <2>1
  <2> QED BY <2>2, UsedOnce
<1> QED BY <1>1, <1>3, <1>4

(* However emitters, consumers and closers interleave, an event that an    *)
(* emitter has begun with is in one ring or batch, in one emitter's hands, *)
(* handled once or lost to a panic, and in nothing else.                   *)
THEOREM BusConserves == Spec => []EventsAccountedFor
<1>1. ASSUME BusInv PROVE EventsAccountedFor
  <2>1. SUFFICES ASSUME NEW e \in Events
                 PROVE  Places(e) = IF e \in accepted THEN 1 ELSE 0
    BY DEF EventsAccountedFor
  <2> DEFINE queues == {s \in Shards : e \in ToSet(queue[s] \o batch[s])}
             hands == {g \in Emitters : e \in ToSet(todo[g]) \ Unpublished}
             places == {i \in DOMAIN handled : handled[i] = e}
  <2>2. Partition(InQueues, InBatches, InHands, ToSet(handled), lost, accepted) /\ e # Nil
    BY <1>1, FlowBusAssumption DEF BusInv, Exclusive
  <2>3. /\ Family(queue, Shards, Events) /\ Family(batch, Shards, Events)
        /\ Family(todo, Emitters, Events \cup {Nil})
        /\ Once(queue, {}) /\ Once(batch, {}) /\ Once(todo, {Nil})
    BY <1>1, Typed, TodoOnce DEF BusInv, Exclusive
  <2>4. \A s \in Shards : s \in queues <=> e \in ToSet(queue[s]) \/ e \in ToSet(batch[s])
    <3>1. SUFFICES ASSUME NEW s \in Shards
                   PROVE  e \in ToSet(queue[s] \o batch[s]) <=> e \in ToSet(queue[s]) \/ e \in ToSet(batch[s])
      OBVIOUS
    <3>2. queue[s] \in Seq(Events) /\ batch[s] \in Seq(Events) BY <1>1 DEF BusInv, TypeInv
    <3> QED BY <3>2, Joining
  <2>5. /\ e \in InQueues \cup InBatches => \E s \in Shards : queues = {s}
        /\ e \notin InQueues \cup InBatches => queues = {}
    <3>1. \A s \in Shards : e \in ToSet(queue[s]) => e \in InQueues
      BY <2>3, Members DEF InQueues
    <3>2. \A s \in Shards : e \in ToSet(batch[s]) => e \in InBatches
      BY <2>3, Members DEF InBatches
    <3>3. e \in InQueues => \E s \in Shards : e \in ToSet(queue[s]) /\ \A t \in Shards : e \in ToSet(queue[t]) => t = s
      BY <2>3, FoundOnce DEF InQueues
    <3>4. e \in InBatches => \E s \in Shards : e \in ToSet(batch[s]) /\ \A t \in Shards : e \in ToSet(batch[t]) => t = s
      BY <2>3, FoundOnce DEF InBatches
    <3>5. ~ (e \in InQueues /\ e \in InBatches) BY <2>2 DEF Partition
    <3>6. queues \subseteq Shards OBVIOUS
    <3> HIDE DEF queues
    <3> QED BY <2>4, <3>1, <3>2, <3>3, <3>4, <3>5, <3>6
  <2>6. /\ e \in InHands => \E g \in Emitters : hands = {g}
        /\ e \notin InHands => hands = {}
    <3>1. \A g \in Emitters : e \in ToSet(todo[g]) => e \in Contents(todo)
      BY <2>3, Members
    <3>2. e \in Contents(todo) =>
            \E g \in Emitters : e \in ToSet(todo[g]) /\ \A h \in Emitters : e \in ToSet(todo[h]) => h = g
      BY <2>2, <2>3, FoundOnce
    <3>3. e \in InHands <=> e \in Contents(todo) /\ e \notin Unpublished BY <2>2 DEF InHands
    <3> QED BY <3>1, <3>2, <3>3
  <2>7. /\ e \in ToSet(handled) => \E i \in DOMAIN handled : places = {i}
        /\ e \notin ToSet(handled) => places = {}
    <3>1. handled \in Seq(Events) /\ DOMAIN handled = 1 .. Len(handled) /\ Distinct(handled)
      BY <1>1 DEF BusInv, TypeInv, Exclusive
    <3>2. ToSet(handled) = {handled[i] : i \in 1 .. Len(handled)} BY <3>1, Elements
    <3> QED BY <3>1, <3>2 DEF Distinct
  <2>8. /\ e \in InQueues \cup InBatches => Cardinality(queues) = 1
        /\ e \notin InQueues \cup InBatches => Cardinality(queues) = 0
        /\ e \in InHands => Cardinality(hands) = 1
        /\ e \notin InHands => Cardinality(hands) = 0
        /\ e \in ToSet(handled) => Count(handled, e) = 1
        /\ e \notin ToSet(handled) => Count(handled, e) = 0
    <3>1. Count(handled, e) = Cardinality(places) BY DEF Count
    <3>2. Cardinality({}) = 0 /\ \A x : Cardinality({x}) = 1 BY FS_EmptySet, FS_Singleton
    <3> HIDE DEF queues, hands, places
    <3> QED BY <2>5, <2>6, <2>7, <3>1, <3>2
  <2>9. Places(e) = Cardinality(queues) + Cardinality(hands) + Count(handled, e)
                      + (IF e \in lost THEN 1 ELSE 0)
    BY DEF Places
  <2> HIDE DEF queues, hands
  <2>10. e \in accepted <=> \/ e \in InQueues \cup InBatches \/ e \in InHands
                            \/ e \in ToSet(handled) \/ e \in lost
    BY <2>2 DEF Partition
  <2>11. /\ e \in InQueues \cup InBatches => e \notin InHands /\ e \notin ToSet(handled) /\ e \notin lost
         /\ e \in InHands => e \notin ToSet(handled) /\ e \notin lost
         /\ e \in ToSet(handled) => e \notin lost
    BY <2>2 DEF Partition
  <2> QED BY <2>8, <2>9, <2>10, <2>11
<1> QED BY <1>1, BusInvariant, PTL

(***************************************************************************)
(* The events of one emitter and one shard keep their order.               *)
(***************************************************************************)
LEMMA Indexed ==
  ASSUME TypeInv, NEW s \in Shards
  PROVE  /\ ToSet(queue[s]) = {queue[s][i] : i \in 1 .. Len(queue[s])}
         /\ ToSet(batch[s]) = {batch[s][i] : i \in 1 .. Len(batch[s])}
         /\ Len(queue[s]) \in Nat /\ Len(batch[s]) \in Nat
BY Elements DEF TypeInv

LEMMA OrderInit == Init => Home /\ InOrder
<1>1. SUFFICES ASSUME Init PROVE Home /\ InOrder OBVIOUS
<1>2. /\ \A s \in Shards : queue[s] = << >> /\ batch[s] = << >>
      /\ handled = << >>
  BY <1>1 DEF Init
<1>3. Home BY <1>2 DEF Home, ToSet
<1>4. InOrder BY <1>2 DEF InOrder, Ordered
<1> QED BY <1>3, <1>4

LEMMA PairedOnce ==
  ASSUME NEW g, NEW e, NEW f, Paired(g, e, f)', slowed \subseteq slowed'
  PROVE  Paired(g, e, f) /\ e \notin slowed' /\ f \notin slowed'
BY DEF Paired, EmittedBefore

(* A step that moves no event keeps the order, unless it accepts one of    *)
(* which a later one is accepted already.                                  *)
LEMMA OrderStays ==
  ASSUME Home, InOrder, UNCHANGED <<queue, batch, handled>>,
         slowed \subseteq slowed', lost \subseteq lost',
         \A g \in Emitters, e, f \in Events : Paired(g, e, f) =>
           (e \in accepted' => e \in accepted \/ Gone(f)),
         BusInv
  PROVE  Home' /\ InOrder'
<1>1. Home' BY DEF Home
<1>2. SUFFICES ASSUME NEW g \in Emitters, NEW e \in Events, NEW f \in Events, Paired(g, e, f)'
               PROVE  Ordered(e, f)'
  BY <1>1 DEF InOrder
<1>3. Paired(g, e, f) BY <1>2, PairedOnce
<1>4. Ordered(e, f) BY <1>3 DEF InOrder
<1>5. CASE ~ Gone(f)
  <2>1. Gone(e) => Gone(e)' BY <1>3, <1>5 DEF Gone
  <2> QED BY <1>4, <2>1 DEF Ordered, AheadInHandled, AheadInBatch, AheadInQueue
<1>6. CASE Gone(f)
  <2>1. Partition(InQueues, InBatches, InHands, ToSet(handled), lost, accepted) /\ TypeInv
    BY DEF BusInv, Exclusive
  <2>2. f \notin InQueues /\ f \notin InBatches /\ f \notin ToSet(handled)
    BY <1>6, <2>1 DEF Gone, Partition
  <2>3. \A m \in 1 .. Len(handled) : handled[m] # f
    <3>1. ToSet(handled) = {handled[i] : i \in 1 .. Len(handled)} BY <2>1, Elements DEF TypeInv
    <3> QED BY <2>2, <3>1
  <2>4. \A s \in Shards : /\ \A m \in 1 .. Len(batch[s]) : batch[s][m] # f
                          /\ \A m \in 1 .. Len(queue[s]) : queue[s][m] # f
    BY <2>1, <2>2, Typed, Members DEF InQueues, InBatches
  <2> QED BY <2>3, <2>4 DEF Ordered
<1> QED BY <1>5, <1>6

LEMMA SamePlace ==
  ASSUME BusInv, NEW e, NEW g \in Emitters, NEW k \in DOMAIN Calls[g], NEW i \in DOMAIN Calls[g][k],
         Calls[g][k][i] = e, e # Nil,
         NEW h \in Emitters, NEW l \in DOMAIN Calls[h], NEW j \in DOMAIN Calls[h][l],
         Calls[h][l][j] = e
  PROVE  g = h /\ k = l /\ i = j
<1>1. EmittedOnce BY FlowBusAssumption
<1>2. <<g, k, i>> = <<h, l, j>> BY <1>1 DEF EmittedOnce
<1> QED BY <1>2

(* A call accepts its events after those of the calls before it.           *)
LEMMA EmitStartOrder ==
  ASSUME BusInv, Home, InOrder, NEW g \in Emitters, EmitStart(g)
  PROVE  Home' /\ InOrder'
<1>1. /\ UNCHANGED <<queue, batch, handled, slowed, lost>>
      /\ accepted' = accepted \/ /\ accepted' = accepted \cup (ToSet(Calls[g][call'[g]]) \ {Nil})
                                 /\ call'[g] = call[g] + 1 /\ call[g] + 1 \in DOMAIN Calls[g]
  BY FlowBusAssumption DEF EmitStart, consumerVars, BusInv, TypeInv
<1>2. ASSUME NEW h \in Emitters, NEW e \in Events, NEW f \in Events, Paired(h, e, f),
             e \in accepted', e \notin accepted, f \in accepted
      PROVE  FALSE
  <2>1. /\ e \in ToSet(Calls[g][call[g] + 1]) /\ call[g] + 1 \in DOMAIN Calls[g]
        /\ call[g] \in Nat
    BY <1>1, <1>2 DEF BusInv, TypeInv
  <2>2. e # Nil /\ f # Nil BY <1>2, FlowBusAssumption
  <2>3. PICK n \in DOMAIN Calls[g][call[g] + 1] : Calls[g][call[g] + 1][n] = e
    <3> DEFINE c == Calls[g][call[g] + 1]
    <3>1. c \in Seq(Events \cup {Nil}) /\ DOMAIN c = 1 .. Len(c) /\ e \in ToSet(c)
      BY <2>1, CallsAreBatches
    <3> HIDE DEF c
    <3>2. ToSet(c) = {c[i] : i \in 1 .. Len(c)} BY <3>1, Elements
    <3> QED BY <3>1, <3>2 DEF c
  <2>4. PICK k \in DOMAIN Calls[h], l \in DOMAIN Calls[h] :
               \E i \in DOMAIN Calls[h][k], j \in DOMAIN Calls[h][l] :
                 /\ Calls[h][k][i] = e /\ Calls[h][l][j] = f /\ (k < l \/ (k = l /\ i < j))
    BY <1>2 DEF Paired, EmittedBefore
  <2>5. PICK i \in DOMAIN Calls[h][k], j \in DOMAIN Calls[h][l] :
                 /\ Calls[h][k][i] = e /\ Calls[h][l][j] = f /\ (k < l \/ (k = l /\ i < j))
    BY <2>4
  <2>6. h = g /\ k = call[g] + 1 BY <2>1, <2>2, <2>3, <2>5, SamePlace
  <2>7. PICK a \in Emitters : \E b \in DOMAIN Calls[a] :
               b <= call[a] /\ \E c \in DOMAIN Calls[a][b] : Calls[a][b][c] = f
    BY <1>2 DEF BusInv, Begun
  <2>8. PICK b \in DOMAIN Calls[a] :
               b <= call[a] /\ \E c \in DOMAIN Calls[a][b] : Calls[a][b][c] = f
    BY <2>7
  <2>9. PICK c \in DOMAIN Calls[a][b] : Calls[a][b][c] = f BY <2>8
  <2>10. a = h /\ b = l BY <2>2, <2>5, <2>9, SamePlace
  <2>11. l <= call[g] /\ l \in Nat /\ k \in Nat
    BY <2>5, <2>6, <2>8, <2>10, CallsAreBatches
  <2> QED BY <2>1, <2>5, <2>6, <2>11
<1>3. \A h \in Emitters, e, f \in Events : Paired(h, e, f) =>
         (e \in accepted' => e \in accepted \/ Gone(f))
  BY <1>2 DEF Gone
<1> QED BY <1>1, <1>3, OrderStays

(* The event at the head of an emitter's hands is the next of its events.  *)
LEMMA HeadIsNext ==
  ASSUME BusInv, NEW g \in Emitters, NEW x, todo[g] # << >>, x = Head(todo[g]), x # Nil,
         NEW h \in Emitters, NEW e \in Events, Paired(h, e, x)
  PROVE  e \notin InHands
<1>1. SUFFICES ASSUME e \in InHands PROVE FALSE OBVIOUS
<1>2. Family(todo, Emitters, Events \cup {Nil}) /\ e # Nil
  BY Typed, FlowBusAssumption DEF BusInv
<1>3. PICK a \in Emitters : \E b \in 1 .. Len(todo[a]) : todo[a][b] = e
  BY <1>1, <1>2, Members DEF InHands
<1>4. PICK b \in 1 .. Len(todo[a]) : todo[a][b] = e BY <1>3
<1>5. /\ todo[a] \in Seq(Events \cup {Nil}) /\ todo[g] \in Seq(Events \cup {Nil})
      /\ Len(todo[a]) \in Nat /\ Len(todo[g]) \in Nat
  BY DEF BusInv, TypeInv
<1>6. EndOfCallAt(a) /\ EndOfCallAt(g)
  <2>1. todo[a] # << >> BY <1>4, <1>5
  <2> QED BY <2>1, TodoEndsCall
<1> DEFINE p == Len(Calls[a][call[a]]) - Len(todo[a]) + b
           q == Len(Calls[g][call[g]]) - Len(todo[g]) + 1
<1>7. /\ call[a] \in DOMAIN Calls[a] /\ p \in DOMAIN Calls[a][call[a]]
      /\ Calls[a][call[a]][p] = e
  BY <1>4, <1>6 DEF EndOfCallAt
<1>8. /\ call[g] \in DOMAIN Calls[g] /\ q \in DOMAIN Calls[g][call[g]]
      /\ Calls[g][call[g]][q] = x
  <2>1. 1 \in 1 .. Len(todo[g]) /\ x = todo[g][1] BY <1>5
  <2> QED BY <1>6, <2>1 DEF EndOfCallAt
<1> HIDE DEF p, q
<1>9. PICK k \in DOMAIN Calls[h], l \in DOMAIN Calls[h] :
             \E i \in DOMAIN Calls[h][k], j \in DOMAIN Calls[h][l] :
               /\ Calls[h][k][i] = e /\ Calls[h][l][j] = x /\ (k < l \/ (k = l /\ i < j))
  BY DEF Paired, EmittedBefore
<1>10. PICK i \in DOMAIN Calls[h][k], j \in DOMAIN Calls[h][l] :
               /\ Calls[h][k][i] = e /\ Calls[h][l][j] = x /\ (k < l \/ (k = l /\ i < j))
  BY <1>9
<1>11. h = a /\ k = call[a] /\ i = p
  <2>1. Calls[h][k][i] = Calls[a][call[a]][p] /\ Calls[h][k][i] # Nil BY <1>2, <1>7, <1>10
  <2>2. EmittedOnce BY FlowBusAssumption
  <2>3. <<h, k, i>> = <<a, call[a], p>> BY <1>7, <2>1, <2>2 DEF EmittedOnce
  <2> QED BY <2>3
<1>12. h = g /\ l = call[g] /\ j = q BY <1>8, <1>10, SamePlace
<1>13. k = l /\ a = g BY <1>11, <1>12
<1>14. k \in Nat /\ l \in Nat /\ Len(Calls[g][call[g]]) \in Nat
  BY <1>8, <1>10, CallsAreBatches
<1>15. i < j BY <1>10, <1>13, <1>14
<1> DEFINE all == Len(Calls[g][call[g]])
           left == Len(todo[g])
<1>16. p = all - left + b BY <1>13 DEF p
<1>17. q = all - left + 1 BY DEF q
<1>18. all \in Nat /\ left \in Nat BY <1>5, <1>14
<1> HIDE DEF all, left
<1>19. p < q /\ b \in Nat \ {0} BY <1>4, <1>5, <1>11, <1>12, <1>15
<1> QED BY <1>16, <1>17, <1>18, <1>19

LEMMA PushedOrder ==
  ASSUME BusInv, Home, InOrder, NEW g \in Emitters, NEW s \in Shards, Pushed(g, s),
         slowed \subseteq slowed',
         Head(todo[g]) \in slowed' \/ s = ShardOf[Head(todo[g])]
  PROVE  Home' /\ InOrder'
<1> DEFINE x == Head(todo[g])
<1>1. /\ TypeInv /\ queue' = [queue EXCEPT ![s] = Append(queue[s], x)]
      /\ UNCHANGED <<batch, handled, lost, accepted>> /\ x # Nil /\ epc[g] \in Holding
      /\ epc[g] # "publish"
  BY DEF Pushed, Push, consumerVars, BusInv, Holding
<1>2. x \in Events /\ x \in InHands /\ todo[g] # << >> BY <1>1, HeadsHeld
<1>3. x \in slowed' \/ s = ShardOf[x] OBVIOUS
<1>4. ASSUME NEW h \in Emitters, NEW e \in Events, Paired(h, e, x) PROVE e \notin InHands
  BY <1>1, <1>2, <1>4, HeadIsNext
<1> HIDE DEF x
<1>5. /\ queue'[s] = Append(queue[s], x) /\ \A r \in Shards \ {s} : queue'[r] = queue[r]
      /\ Len(queue'[s]) = Len(queue[s]) + 1 /\ Len(queue[s]) \in Nat
      /\ \A i \in 1 .. Len(queue[s]) : queue'[s][i] = queue[s][i]
      /\ queue'[s][Len(queue[s]) + 1] = x
      /\ ToSet(queue'[s]) = ToSet(queue[s]) \cup {x}
  BY <1>1, <1>2, Appending DEF TypeInv
<1>6. Home' BY <1>1, <1>3, <1>5 DEF Home
<1>7. SUFFICES ASSUME NEW h \in Emitters, NEW e \in Events, NEW f \in Events, Paired(h, e, f)'
               PROVE  Ordered(e, f)'
  BY <1>6 DEF InOrder
<1>8. Paired(h, e, f) /\ e \notin slowed' /\ f \notin slowed' BY <1>7, PairedOnce
<1>9. Ordered(e, f) BY <1>8 DEF InOrder
<1>10. Gone(e)' <=> Gone(e) BY <1>1 DEF Gone
<1>11. ASSUME NEW r \in Shards, NEW m \in 1 .. Len(queue'[r]), queue'[r][m] = f
       PROVE  AheadInQueue(e, r, m)'
  <2>1. CASE m \in 1 .. Len(queue[r]) /\ queue[r][m] = f
    <3>1. AheadInQueue(e, r, m) BY <1>9, <2>1 DEF Ordered
    <3>2. \A i \in 1 .. Len(queue[r]) : i \in 1 .. Len(queue'[r]) /\ queue'[r][i] = queue[r][i]
      BY <1>5
    <3> QED BY <1>1, <1>10, <3>1, <3>2 DEF AheadInQueue
  <2>2. CASE r = s /\ m = Len(queue[s]) + 1
    <3>1. f = x BY <1>5, <1>11, <2>2
    <3>2. s = ShardOf[e]
      BY <1>3, <1>8, <3>1 DEF Paired
    <3>3. CASE Gone(e) BY <1>10, <3>3 DEF AheadInQueue
    <3>4. CASE ~ Gone(e)
      <4>1. e \notin InHands BY <1>4, <1>8, <3>1
      <4>2. Partition(InQueues, InBatches, InHands, ToSet(handled), lost, accepted)
        BY DEF BusInv, Exclusive
      <4>3. e \in InQueues \/ e \in InBatches \/ e \in ToSet(handled)
        BY <3>4, <4>1, <4>2 DEF Gone, Partition
      <4>4. e \notin slowed BY <1>8 DEF Paired
      <4>5. CASE e \in InQueues
        <5>1. PICK y \in Shards : \E i \in 1 .. Len(queue[y]) : queue[y][i] = e
          BY <1>1, <4>5, Typed, Members DEF InQueues
        <5>2. e \in ToSet(queue[y])
          <6>1. ToSet(queue[y]) = {queue[y][i] : i \in 1 .. Len(queue[y])} BY <1>1, Indexed
          <6> QED BY <5>1, <6>1
        <5>3. y = s BY <3>2, <4>4, <5>2 DEF Home
        <5>4. PICK i \in 1 .. Len(queue[s]) : queue[s][i] = e BY <5>1, <5>3
        <5>5. i \in 1 .. Len(queue'[s]) /\ i < m /\ queue'[s][i] = e
          BY <1>5, <2>2, <5>4
        <5> QED BY <2>2, <5>5 DEF AheadInQueue
      <4>6. CASE e \in InBatches
        <5>1. PICK y \in Shards : \E i \in 1 .. Len(batch[y]) : batch[y][i] = e
          BY <1>1, <4>6, Typed, Members DEF InBatches
        <5>2. e \in ToSet(batch[y])
          <6>1. ToSet(batch[y]) = {batch[y][i] : i \in 1 .. Len(batch[y])} BY <1>1, Indexed
          <6> QED BY <5>1, <6>1
        <5>3. y = s BY <3>2, <4>4, <5>2 DEF Home
        <5> QED BY <1>1, <2>2, <5>2, <5>3 DEF AheadInQueue
      <4>7. CASE e \in ToSet(handled) BY <1>1, <4>7 DEF AheadInQueue
      <4> QED BY <4>3, <4>5, <4>6, <4>7
    <3> QED BY <3>3, <3>4
  <2> QED BY <1>5, <1>11, <2>1, <2>2
<1>12. \A r \in Shards : \A m \in 1 .. Len(batch[r]) : batch[r][m] = f => AheadInBatch(e, r, m)'
  BY <1>1, <1>9, <1>10 DEF Ordered, AheadInBatch
<1>13. \A m \in 1 .. Len(handled) : handled[m] = f => AheadInHandled(e, m)'
  BY <1>1, <1>9, <1>10 DEF Ordered, AheadInHandled
<1> QED BY <1>1, <1>11, <1>12, <1>13 DEF Ordered

LEMMA EmitPushOrder ==
  ASSUME BusInv, Home, InOrder, NEW g \in Emitters, EmitPush(g)
  PROVE  Home' /\ InOrder'
<1>1. Head(todo[g]) \in Events BY HeadsHeld DEF Holding, EmitPush
<1>2. ShardOf[Head(todo[g])] \in Shards BY <1>1, FlowBusAssumption DEF Shards
<1>3. CASE Pushed(g, ShardOf[Head(todo[g])]) /\ UNCHANGED <<slowed, try, closerVars>>
  BY <1>2, <1>3, PushedOrder
<1>4. CASE UNCHANGED <<queue, consumerVars, accepted, handled, lost, slowed>>
  BY <1>4, OrderStays DEF consumerVars
<1> QED BY <1>3, <1>4, EmitPushSteps

LEMMA SlowTryOrder ==
  ASSUME BusInv, Home, InOrder, NEW g \in Emitters, SlowTry(g)
  PROVE  Home' /\ InOrder'
<1>1. epc[g] = "slow" /\ Head(todo[g]) # Nil /\ try[g] \in 0 .. NumShards /\ NumShards \in Nat
  BY FlowBusAssumption DEF SlowTry, BusInv, Counters, TypeInv, Holding
<1>2. CASE /\ try[g] < NumShards /\ Pushed(g, try[g])
           /\ slowed' = slowed \cup {Head(todo[g])}
  <2>1. try[g] \in Shards BY <1>1, <1>2 DEF Shards
  <2> QED BY <1>2, <2>1, PushedOrder
<1>3. CASE UNCHANGED <<queue, consumerVars, accepted, handled, lost, slowed>>
  BY <1>3, OrderStays DEF consumerVars
<1> QED BY <1>1, <1>2, <1>3, SlowTrySteps

LEMMA SingleHandleOrder ==
  ASSUME BusInv, Home, InOrder, NEW g \in Emitters, SingleHandle(g)
  PROVE  Home' /\ InOrder'
<1> DEFINE x == Head(todo[g])
<1>1. /\ TypeInv /\ handled' = Append(handled, x) /\ slowed' = slowed \cup {x}
      /\ UNCHANGED <<queue, batch, lost, accepted>>
  BY DEF SingleHandle, consumerVars, BusInv
<1>2. x \in Events BY HeadsHeld DEF SingleHandle, BusInv, Counters, Holding
<1> HIDE DEF x
<1>3. /\ Len(handled') = Len(handled) + 1 /\ Len(handled) \in Nat
      /\ \A i \in 1 .. Len(handled) : handled'[i] = handled[i]
      /\ handled'[Len(handled) + 1] = x /\ ToSet(handled') = ToSet(handled) \cup {x}
  BY <1>1, <1>2, Appending DEF TypeInv
<1>4. Home' BY <1>1 DEF Home
<1>5. SUFFICES ASSUME NEW h \in Emitters, NEW e \in Events, NEW f \in Events, Paired(h, e, f)'
               PROVE  Ordered(e, f)'
  BY <1>4 DEF InOrder
<1>6. Paired(h, e, f) /\ e \notin slowed' /\ f \notin slowed' BY <1>1, <1>5, PairedOnce
<1>7. Ordered(e, f) /\ f # x BY <1>1, <1>6 DEF InOrder
<1>8. Gone(e)' <=> Gone(e) BY <1>1 DEF Gone
<1>9. ASSUME NEW m \in 1 .. Len(handled'), handled'[m] = f PROVE AheadInHandled(e, m)'
  <2>1. m \in 1 .. Len(handled) /\ handled[m] = f BY <1>3, <1>7, <1>9
  <2>2. AheadInHandled(e, m) BY <1>7, <2>1 DEF Ordered
  <2>3. \A i \in 1 .. Len(handled) : i \in 1 .. Len(handled') /\ handled'[i] = handled[i]
    BY <1>3
  <2> QED BY <1>8, <2>2, <2>3 DEF AheadInHandled
<1>10. \A r \in Shards : \A m \in 1 .. Len(batch[r]) : batch[r][m] = f => AheadInBatch(e, r, m)'
  BY <1>1, <1>3, <1>7, <1>8 DEF Ordered, AheadInBatch
<1>11. \A r \in Shards : \A m \in 1 .. Len(queue[r]) : queue[r][m] = f => AheadInQueue(e, r, m)'
  BY <1>1, <1>3, <1>7, <1>8 DEF Ordered, AheadInQueue
<1> QED BY <1>1, <1>9, <1>10, <1>11 DEF Ordered

LEMMA PopOrder ==
  ASSUME BusInv, Home, InOrder, NEW s \in Shards, Pop(s)
  PROVE  Home' /\ InOrder'
<1>1. /\ TypeInv /\ TypeInv' /\ batch[s] = << >>
      /\ UNCHANGED <<handled, lost, accepted, slowed>>
  BY PopBus DEF Pop, BusInv, Counters
<1>2. PICK p \in Seq(Events) : Took(s, p) BY PopTakes
<1>3. /\ batch'[s] = p /\ CutAt(queue[s], Len(p), p, queue'[s])
      /\ SameBut(queue, queue', Shards, s) /\ SameBut(batch, batch', Shards, s)
  BY <1>2 DEF Took
<1> DEFINE n == Len(p)
<1>4. /\ n \in Nat /\ Len(queue[s]) \in Nat /\ n <= Len(queue[s])
      /\ Len(queue'[s]) = Len(queue[s]) - n
      /\ \A i \in 1 .. n : p[i] = queue[s][i]
      /\ \A i \in 1 .. Len(queue[s]) - n : queue'[s][i] = queue[s][n + i]
      /\ ToSet(queue[s]) = ToSet(p) \cup ToSet(queue'[s])
  BY <1>1, <1>3 DEF CutAt, TypeInv
<1>5. ToSet(p) = {p[i] : i \in 1 .. n} BY Elements
<1> HIDE DEF n
<1>6. Home'
  <2>1. SUFFICES ASSUME NEW r \in Shards, NEW e \in (ToSet(queue'[r]) \cup ToSet(batch'[r])) \ slowed
                 PROVE  ShardOf[e] = r
    BY <1>1 DEF Home
  <2>2. e \in ToSet(queue[r]) \cup ToSet(batch[r]) BY <1>3, <1>4, <2>1 DEF SameBut
  <2> QED BY <2>1, <2>2 DEF Home
<1>7. SUFFICES ASSUME NEW h \in Emitters, NEW e \in Events, NEW f \in Events, Paired(h, e, f)'
               PROVE  Ordered(e, f)'
  BY <1>6 DEF InOrder
<1>8. Paired(h, e, f) BY <1>1, <1>7, PairedOnce
<1>9. Ordered(e, f) BY <1>8 DEF InOrder
<1>10. Gone(e)' <=> Gone(e) BY <1>1 DEF Gone
<1>11. e \notin ToSet(batch[s]) BY <1>1 DEF ToSet
<1>12. ASSUME NEW r \in Shards, NEW m \in 1 .. Len(batch'[r]), batch'[r][m] = f
       PROVE  AheadInBatch(e, r, m)'
  <2>1. CASE r # s
    <3>1. batch'[r] = batch[r] BY <1>3, <2>1 DEF SameBut
    <3> QED BY <1>1, <1>9, <1>10, <1>12, <3>1 DEF Ordered, AheadInBatch
  <2>2. CASE r = s
    <3>1. m \in 1 .. n /\ m \in 1 .. Len(queue[s]) /\ queue[s][m] = f
      BY <1>3, <1>4, <1>12, <2>2 DEF n
    <3>2. AheadInQueue(e, s, m) BY <1>9, <3>1 DEF Ordered
    <3>3. ASSUME NEW i \in 1 .. Len(queue[s]), i < m, queue[s][i] = e
          PROVE  AheadInBatch(e, s, m)'
      <4>1. i \in 1 .. n /\ p[i] = e BY <1>4, <3>1, <3>3
      <4>2. i \in 1 .. Len(batch'[s]) /\ batch'[s][i] = e BY <1>3, <4>1 DEF n
      <4> QED BY <3>3, <4>2 DEF AheadInBatch
    <3>4. Gone(e) \/ e \in ToSet(handled) => AheadInBatch(e, s, m)'
      BY <1>1, <1>10 DEF AheadInBatch
    <3> QED BY <1>11, <2>2, <3>2, <3>3, <3>4 DEF AheadInQueue
  <2> QED BY <2>1, <2>2
<1>13. ASSUME NEW r \in Shards, NEW m \in 1 .. Len(queue'[r]), queue'[r][m] = f
       PROVE  AheadInQueue(e, r, m)'
  <2>1. CASE r # s
    <3>1. batch'[r] = batch[r] /\ queue'[r] = queue[r] BY <1>3, <2>1 DEF SameBut
    <3> QED BY <1>1, <1>9, <1>10, <1>13, <3>1 DEF Ordered, AheadInQueue
  <2>2. CASE r = s
    <3>1. n + m \in 1 .. Len(queue[s]) /\ queue[s][n + m] = f
      <4>1. m \in 1 .. Len(queue[s]) - n /\ queue'[s][m] = f BY <1>4, <1>13, <2>2
      <4> QED BY <1>4, <4>1
    <3>2. AheadInQueue(e, s, n + m) BY <1>9, <3>1 DEF Ordered
    <3>3. ASSUME NEW i \in 1 .. Len(queue[s]), i < n + m, queue[s][i] = e
          PROVE  AheadInQueue(e, s, m)'
      <4>1. CASE i <= n
        <5>1. e \in ToSet(p) BY <1>4, <1>5, <3>3, <4>1
        <5> QED BY <1>3, <5>1 DEF AheadInQueue
      <4>2. CASE i > n
        <5>1. i - n \in 1 .. Len(queue'[s]) /\ i - n < m /\ queue'[s][i - n] = e
          BY <1>4, <3>3, <4>2, <2>2
        <5> QED BY <5>1 DEF AheadInQueue
      <4> QED BY <1>4, <4>1, <4>2
    <3>4. Gone(e) \/ e \in ToSet(handled) => AheadInQueue(e, s, m)'
      BY <1>1, <1>10 DEF AheadInQueue
    <3> QED BY <1>11, <2>2, <3>2, <3>3, <3>4 DEF AheadInQueue
  <2> QED BY <2>1, <2>2
<1>14. \A m \in 1 .. Len(handled) : handled[m] = f => AheadInHandled(e, m)'
  BY <1>1, <1>9, <1>10 DEF Ordered, AheadInHandled
<1> QED BY <1>1, <1>12, <1>13, <1>14 DEF Ordered

LEMMA HandleOrder ==
  ASSUME BusInv, Home, InOrder, NEW s \in Shards, Handle(s)
  PROVE  Home' /\ InOrder'
<1> DEFINE x == Head(batch[s])
<1>1. /\ TypeInv /\ batch[s] # << >> /\ batch[s] \in Seq(Events)
      /\ batch' = [batch EXCEPT ![s] = Tail(batch[s])] /\ handled' = Append(handled, x)
      /\ UNCHANGED <<queue, accepted, lost, slowed>>
  BY DEF Handle, BusInv, TypeInv
<1>2. /\ x \in Events /\ x = batch[s][1] /\ Len(batch'[s]) = Len(batch[s]) - 1 /\ Len(batch[s]) \in Nat
      /\ \A i \in 1 .. Len(batch[s]) - 1 : batch'[s][i] = batch[s][i + 1]
      /\ ToSet(batch[s]) = ToSet(batch'[s]) \cup {x}
  <2>1. batch'[s] = Tail(batch[s]) BY <1>1 DEF TypeInv
  <2> DEFINE q == batch[s]
  <2>2. q \in Seq(Events) /\ q # << >> BY <1>1
  <2> HIDE DEF q
  <2>3. /\ Head(q) \in Events /\ Head(q) = q[1] /\ Len(Tail(q)) = Len(q) - 1
        /\ \A i \in 1 .. Len(q) - 1 : Tail(q)[i] = q[i + 1]
        /\ ToSet(q) = ToSet(Tail(q)) \cup {Head(q)} /\ Len(q) \in Nat
    BY <2>2, Cutting, Elements
  <2> QED BY <2>1, <2>3 DEF q
<1> HIDE DEF x
<1>3. /\ Len(handled') = Len(handled) + 1 /\ Len(handled) \in Nat
      /\ \A i \in 1 .. Len(handled) : handled'[i] = handled[i]
      /\ handled'[Len(handled) + 1] = x /\ ToSet(handled') = ToSet(handled) \cup {x}
  BY <1>1, <1>2, Appending DEF TypeInv
<1>4. \A r \in Shards \ {s} : batch'[r] = batch[r] BY <1>1 DEF TypeInv
<1>5. Home' BY <1>1, <1>2, <1>4 DEF Home
<1>6. SUFFICES ASSUME NEW h \in Emitters, NEW e \in Events, NEW f \in Events, Paired(h, e, f)'
               PROVE  Ordered(e, f)'
  BY <1>5 DEF InOrder
<1>7. Paired(h, e, f) BY <1>1, <1>6, PairedOnce
<1>8. Ordered(e, f) BY <1>7 DEF InOrder
<1>9. Gone(e)' <=> Gone(e) BY <1>1 DEF Gone
<1>10. ASSUME NEW m \in 1 .. Len(handled'), handled'[m] = f PROVE AheadInHandled(e, m)'
  <2>1. \A i \in 1 .. Len(handled) : i \in 1 .. Len(handled') /\ handled'[i] = handled[i]
    BY <1>3
  <2>2. CASE m \in 1 .. Len(handled)
    <3>1. AheadInHandled(e, m) BY <1>8, <1>10, <2>1, <2>2 DEF Ordered
    <3> QED BY <1>9, <2>1, <3>1 DEF AheadInHandled
  <2>3. CASE m = Len(handled) + 1
    <3>1. f = batch[s][1] /\ 1 \in 1 .. Len(batch[s]) BY <1>1, <1>2, <1>3, <1>10, <2>3
    <3>2. AheadInBatch(e, s, 1) BY <1>8, <3>1 DEF Ordered
    <3>3. Gone(e) \/ e \in ToSet(handled) BY <1>2, <3>2 DEF AheadInBatch
    <3>4. ToSet(handled) = {handled[i] : i \in 1 .. Len(handled)} BY <1>1, Elements DEF TypeInv
    <3>5. Gone(e) \/ \E i \in 1 .. Len(handled) : i < m /\ handled[i] = e
      BY <1>3, <2>3, <3>3, <3>4
    <3> QED BY <1>9, <2>1, <3>5 DEF AheadInHandled
  <2> QED BY <1>3, <1>10, <2>2, <2>3
<1>11. ASSUME NEW r \in Shards, NEW m \in 1 .. Len(batch'[r]), batch'[r][m] = f
       PROVE  AheadInBatch(e, r, m)'
  <2>1. CASE r # s
    <3>1. batch'[r] = batch[r] BY <1>4, <2>1
    <3> QED BY <1>3, <1>8, <1>9, <1>11, <3>1 DEF Ordered, AheadInBatch
  <2>2. CASE r = s
    <3>1. m + 1 \in 1 .. Len(batch[s]) /\ batch[s][m + 1] = f BY <1>2, <1>11, <2>2
    <3>2. AheadInBatch(e, s, m + 1) BY <1>8, <3>1 DEF Ordered
    <3>3. ASSUME NEW i \in 1 .. Len(batch[s]), i < m + 1, batch[s][i] = e
          PROVE  AheadInBatch(e, s, m)'
      <4>1. CASE i = 1
        <5>1. e \in ToSet(handled') BY <1>2, <1>3, <3>3, <4>1
        <5> QED BY <5>1 DEF AheadInBatch
      <4>2. CASE i # 1
        <5> DEFINE k == i - 1
        <5>1. k \in 1 .. Len(batch'[s]) /\ k < m /\ k + 1 = i BY <1>2, <1>11, <2>2, <3>3, <4>2
        <5> HIDE DEF k
        <5>2. batch'[s][k] = e BY <1>2, <3>3, <5>1
        <5> QED BY <5>1, <5>2 DEF AheadInBatch
      <4> QED BY <4>1, <4>2
    <3>4. Gone(e) \/ e \in ToSet(handled) => AheadInBatch(e, s, m)'
      BY <1>3, <1>9 DEF AheadInBatch
    <3> QED BY <2>2, <3>2, <3>3, <3>4 DEF AheadInBatch
  <2> QED BY <2>1, <2>2
<1>12. ASSUME NEW r \in Shards, NEW m \in 1 .. Len(queue[r]), queue[r][m] = f
       PROVE  AheadInQueue(e, r, m)'
  <2>1. AheadInQueue(e, r, m) BY <1>8, <1>12 DEF Ordered
  <2>2. e \in ToSet(batch[r]) => e \in ToSet(batch'[r]) \cup ToSet(handled')
    BY <1>2, <1>3, <1>4
  <2>3. e \in ToSet(handled) => e \in ToSet(handled') BY <1>3
  <2> QED BY <1>1, <1>9, <2>1, <2>2, <2>3 DEF AheadInQueue
<1> QED BY <1>1, <1>10, <1>11, <1>12 DEF Ordered

LEMMA HandlerPanicsOrder ==
  ASSUME BusInv, Home, InOrder, NEW s \in Shards, HandlerPanics(s)
  PROVE  Home' /\ InOrder'
<1>1. /\ TypeInv /\ batch' = [batch EXCEPT ![s] = << >>] /\ lost' = lost \cup ToSet(batch[s])
      /\ UNCHANGED <<queue, accepted, handled, slowed>>
  BY DEF HandlerPanics, BusInv
<1>2. batch'[s] = << >> /\ \A r \in Shards \ {s} : batch'[r] = batch[r] BY <1>1 DEF TypeInv
<1>3. Home'
  <2>1. ToSet(batch'[s]) = {} BY <1>2 DEF ToSet
  <2> QED BY <1>1, <1>2, <2>1 DEF Home
<1>4. SUFFICES ASSUME NEW h \in Emitters, NEW e \in Events, NEW f \in Events, Paired(h, e, f)'
               PROVE  Ordered(e, f)'
  BY <1>3 DEF InOrder
<1>5. Paired(h, e, f) BY <1>1, <1>4, PairedOnce
<1>6. Ordered(e, f) BY <1>5 DEF InOrder
<1>7. (Gone(e) => Gone(e)') /\ (e \in ToSet(batch[s]) => Gone(e)') BY <1>1 DEF Gone
<1>8. \A m \in 1 .. Len(handled) : handled[m] = f => AheadInHandled(e, m)'
  BY <1>1, <1>6, <1>7 DEF Ordered, AheadInHandled
<1>9. ASSUME NEW r \in Shards, NEW m \in 1 .. Len(batch'[r]), batch'[r][m] = f
      PROVE  AheadInBatch(e, r, m)'
  <2>1. r # s /\ batch'[r] = batch[r] BY <1>2, <1>9
  <2> QED BY <1>1, <1>6, <1>7, <1>9, <2>1 DEF Ordered, AheadInBatch
<1>10. ASSUME NEW r \in Shards, NEW m \in 1 .. Len(queue[r]), queue[r][m] = f
       PROVE  AheadInQueue(e, r, m)'
  <2>1. AheadInQueue(e, r, m) BY <1>6, <1>10 DEF Ordered
  <2>2. e \in ToSet(batch[r]) => e \in ToSet(batch'[r]) \/ Gone(e)' BY <1>2, <1>7
  <2> QED BY <1>1, <1>7, <2>1, <2>2 DEF AheadInQueue
<1> QED BY <1>1, <1>8, <1>9, <1>10 DEF Ordered

LEMMA OrderStep == BusInv /\ Home /\ InOrder /\ [Next]_vars => Home' /\ InOrder'
<1>1. SUFFICES ASSUME BusInv, Home, InOrder, [Next]_vars PROVE Home' /\ InOrder' OBVIOUS
<1>2. CASE UNCHANGED vars
  BY <1>1, <1>2, OrderStays DEF vars, consumerVars
<1>3. ASSUME NEW g \in Emitters, EmitStart(g) PROVE Home' /\ InOrder'
  BY <1>1, <1>3, EmitStartOrder
<1>4. ASSUME NEW g \in Emitters, EmitSkip(g) \/ Publish(g) \/ SingleLock(g) \/ Notify(g) \/ SinglePanics(g)
      PROVE  Home' /\ InOrder'
  <2>1. /\ UNCHANGED <<queue, batch, handled, slowed, accepted>> /\ lost \subseteq lost'
    BY <1>4 DEF EmitSkip, Publish, SingleLock, Notify, SinglePanics, consumerVars
  <2> QED BY <1>1, <2>1, OrderStays
<1>5. ASSUME NEW g \in Emitters, Emitter(g) PROVE Home' /\ InOrder'
  BY <1>1, <1>4, <1>5, EmitPushOrder, SlowTryOrder, SingleHandleOrder DEF Emitter
<1>6. ASSUME NEW s \in Shards, PopNothing(s) \/ Wake(s) \/ SeeDone(s) \/ BatchDone(s)
      PROVE  Home' /\ InOrder'
  <2>1. UNCHANGED <<queue, batch, handled, slowed, accepted, lost>>
    BY <1>6 DEF PopNothing, Wake, SeeDone, BatchDone
  <2> QED BY <1>1, <2>1, OrderStays
<1>7. ASSUME NEW s \in Shards, Consumer(s) PROVE Home' /\ InOrder'
  BY <1>1, <1>6, <1>7, PopOrder, HandleOrder, HandlerPanicsOrder DEF Consumer
<1>8. ASSUME NEW d \in Closers, Drain(d) \/ Closer(d) PROVE Home' /\ InOrder'
  <2>1. UNCHANGED <<queue, batch, handled, slowed, accepted, lost>>
    BY <1>8 DEF Drain, Closer, CloseDone, CloseWait, consumerVars
  <2> QED BY <1>1, <2>1, OrderStays
<1> QED BY <1>1, <1>2, <1>3, <1>5, <1>7, <1>8 DEF Next

(* Whatever rings are full, handlers panic and batches are cut, two events *)
(* of one emitter for one shard that both stayed on its way are handled in *)
(* the order in which they were emitted.                                   *)
THEOREM BusKeepsOrder == Spec => []HandledInOrder
<1>1. Spec => []OrderInv
  <2>1. Init => OrderInv BY BusInit, OrderInit DEF OrderInv
  <2>2. OrderInv /\ [Next]_vars => OrderInv' BY BusStep, OrderStep DEF OrderInv
  <2> QED BY <2>1, <2>2, PTL DEF Spec
<1>2. ASSUME OrderInv PROVE HandledInOrder
  <2>1. SUFFICES ASSUME NEW g \in Emitters, NEW e \in ToSet(handled) \ slowed,
                        NEW f \in ToSet(handled) \ slowed,
                        EmittedBefore(g, e, f), ShardOf[e] = ShardOf[f]
                 PROVE  Place(e) < Place(f)
    BY DEF HandledInOrder
  <2>2. /\ handled \in Seq(Events) /\ DOMAIN handled = 1 .. Len(handled) /\ Len(handled) \in Nat
        /\ Distinct(handled)
        /\ Partition(InQueues, InBatches, InHands, ToSet(handled), lost, accepted)
    BY <1>2 DEF OrderInv, BusInv, TypeInv, Exclusive
  <2>3. ToSet(handled) = {handled[i] : i \in 1 .. Len(handled)} /\ ToSet(handled) \subseteq Events
    BY <2>2, Elements
  <2>4. Ordered(e, f)
    BY <1>2, <2>1, <2>3 DEF OrderInv, InOrder, Paired
  <2>5. \A x \in ToSet(handled) : Place(x) \in 1 .. Len(handled) /\ handled[Place(x)] = x
    BY <2>2, <2>3 DEF Place
  <2>6. AheadInHandled(e, Place(f)) BY <2>4, <2>5 DEF Ordered
  <2>7. ~ Gone(e) BY <2>1, <2>2 DEF Gone, Partition
  <2>8. PICK i \in 1 .. Len(handled) : i < Place(f) /\ handled[i] = e
    BY <2>6, <2>7 DEF AheadInHandled
  <2>9. Place(e) = i BY <2>2, <2>5, <2>8 DEF Distinct
  <2> QED BY <2>8, <2>9
<1> QED BY <1>1, <1>2, PTL

(***************************************************************************)
(* A Drain waits for what the consumers see.                               *)
(***************************************************************************)
LEMMA ShutdownInit == Init => Shutdown
BY DEF Init, Shutdown

(* What the bus owes stays owed until it is handled or lost: it is enough  *)
(* to look at what each consumer that has not left has pending.            *)
LEMMA OwingGrows ==
  ASSUME ToSet(handled) \cup lost \subseteq ToSet(handled') \cup lost',
         \A s \in Shards : cpc[s] # "exited" =>
           \A e \in Pending(s) : \/ e \in ToSet(handled') \cup lost'
                                 \/ cpc'[s] # "exited" /\ e \in Pending(s)'
  PROVE  Owing \subseteq Owing'
BY DEF Owing

LEMMA QuietOwing ==
  ASSUME BusInv, UNCHANGED <<queue, batch, handled, cpc>>, lost \subseteq lost',
         Unpublished' \subseteq Unpublished
  PROVE  Owing \subseteq Owing'
<1>1. \A s \in Shards : Visible(s) \subseteq Visible(s)' BY DEF Visible
<1> QED BY <1>1, OwingGrows DEF Pending

LEMMA PushedOwing ==
  ASSUME BusInv, NEW g \in Emitters, NEW s \in Shards, Pushed(g, s),
         slowed' \subseteq slowed \cup {Head(todo[g])}, UNCHANGED <<try, closerVars>>
  PROVE  Owing \subseteq Owing'
<1> DEFINE x == Head(todo[g])
<1>1. x \in InHands /\ x \in Events /\ Unpublished' = Unpublished \cup {x}
  BY PushedBus
<1>2. /\ queue' = [queue EXCEPT ![s] = Append(queue[s], x)] /\ TypeInv
      /\ UNCHANGED <<batch, handled, lost, cpc>>
  BY DEF Pushed, Push, consumerVars, BusInv
<1> HIDE DEF x
<1>3. \A r \in Shards : \A i \in 1 .. Len(queue[r]) : queue[r][i] # x
  <2>1. Partition(InQueues, InBatches, InHands, ToSet(handled), lost, accepted)
    BY DEF BusInv, Exclusive
  <2>2. x \notin InQueues BY <1>1, <2>1 DEF Partition
  <2> QED BY <1>2, <2>2, Typed, Members DEF InQueues
<1>4. \A r \in Shards : Len(queue[r]) \in Nat BY <1>2 DEF TypeInv
<1>5. \A r \in Shards : \A i \in 1 .. Len(queue[r]) :
         i \in 1 .. Len(queue'[r]) /\ queue'[r][i] = queue[r][i]
  BY <1>1, <1>2, Appending DEF TypeInv
<1>6. ASSUME NEW r \in Shards, NEW e \in Visible(r) PROVE e \in Visible(r)'
  <2>1. PICK i \in 1 .. Len(queue[r]) : /\ queue[r][i] = e
                                        /\ \A k \in 1 .. i : queue[r][k] \notin Unpublished
    BY <1>6 DEF Visible
  <2>2. \A k \in 1 .. i : queue'[r][k] = queue[r][k] /\ queue'[r][k] \notin Unpublished'
    <3>1. \A k \in 1 .. i : k \in 1 .. Len(queue[r]) BY <1>4, <2>1
    <3> QED BY <1>1, <1>3, <1>5, <2>1, <3>1
  <2>3. i \in 1 .. Len(queue'[r]) /\ queue'[r][i] = e BY <1>5, <2>1
  <2> QED BY <2>2, <2>3 DEF Visible
<1> QED BY <1>2, <1>6, OwingGrows DEF Pending

LEMMA PopOwing ==
  ASSUME BusInv, NEW s \in Shards, Pop(s)
  PROVE  Owing \subseteq Owing'
<1>1. /\ TypeInv /\ batch[s] = << >> /\ cpc' = [cpc EXCEPT ![s] = "handle"]
      /\ UNCHANGED <<handled, lost>> /\ Unpublished' = Unpublished
  BY PopBus DEF Pop, BusInv, Counters
<1>2. PICK p \in Seq(Events) : Took(s, p) BY PopTakes
<1>3. /\ batch'[s] = p /\ CutAt(queue[s], Len(p), p, queue'[s])
      /\ SameBut(queue, queue', Shards, s) /\ SameBut(batch, batch', Shards, s)
  BY <1>2 DEF Took
<1>4. PICK n \in Nat :
         /\ Len(queue[s]) \in Nat /\ n <= Len(queue[s]) /\ Len(queue'[s]) = Len(queue[s]) - n
         /\ \A i \in 1 .. n : p[i] = queue[s][i]
         /\ \A i \in 1 .. Len(queue[s]) - n : queue'[s][i] = queue[s][n + i]
         /\ ToSet(p) = {p[i] : i \in 1 .. n}
  <2>1. Len(queue[s]) \in Nat BY <1>1 DEF TypeInv
  <2>2. Len(p) \in Nat /\ ToSet(p) = {p[i] : i \in 1 .. Len(p)} BY Elements
  <2> DEFINE n == Len(p)
  <2>3. n \in Nat /\ ToSet(p) = {p[i] : i \in 1 .. n} BY <2>2
  <2>4. CutAt(queue[s], n, p, queue'[s]) BY <1>3
  <2> HIDE DEF n
  <2>5. /\ n <= Len(queue[s]) /\ Len(queue'[s]) = Len(queue[s]) - n
        /\ \A i \in 1 .. n : p[i] = queue[s][i]
        /\ \A i \in 1 .. Len(queue[s]) - n : queue'[s][i] = queue[s][n + i]
    BY <2>4 DEF CutAt
  <2> QED BY <2>1, <2>3, <2>5
<1>6. ASSUME NEW e \in Visible(s) PROVE e \in Pending(s)'
  <2>1. PICK i \in 1 .. Len(queue[s]) : /\ queue[s][i] = e
                                        /\ \A k \in 1 .. i : queue[s][k] \notin Unpublished
    BY <1>6 DEF Visible
  <2>2. CASE i <= n
    <3>1. i \in 1 .. n BY <2>2
    <3>2. e \in ToSet(p) BY <1>4, <2>1, <3>1
    <3> QED BY <1>3, <3>2 DEF Pending
  <2>3. CASE i > n
    <3>1. i - n \in 1 .. Len(queue'[s]) /\ queue'[s][i - n] = e
      <4>1. i - n \in 1 .. Len(queue[s]) - n /\ n + (i - n) = i BY <1>4, <2>3
      <4> QED BY <1>4, <2>1, <4>1
    <3>2. \A k \in 1 .. i - n : queue'[s][k] \notin Unpublished'
      <4>1. \A k \in 1 .. i - n : /\ k \in 1 .. Len(queue[s]) - n /\ n + k \in 1 .. i
        BY <1>4, <2>3
      <4> QED BY <1>1, <1>4, <2>1, <4>1
    <3> QED BY <3>1, <3>2 DEF Pending, Visible
  <2> QED BY <1>4, <2>2, <2>3
<1>7. Pending(s) \subseteq Pending(s)'
  <2>1. ToSet(batch[s]) = {} BY <1>1 DEF ToSet
  <2> QED BY <1>6, <2>1 DEF Pending
<1>8. \A r \in Shards \ {s} : Pending(r)' = Pending(r)
  BY <1>1, <1>3 DEF Pending, Visible, SameBut
<1>9. \A r \in Shards : cpc[r] # "exited" => cpc'[r] # "exited" BY <1>1 DEF TypeInv
<1> QED BY <1>1, <1>7, <1>8, <1>9, OwingGrows

LEMMA HandleOwing ==
  ASSUME BusInv, NEW s \in Shards, Handle(s) \/ HandlerPanics(s)
  PROVE  Owing \subseteq Owing'
<1>1. /\ TypeInv /\ batch[s] # << >> /\ batch[s] \in Seq(Events) /\ queue' = queue
      /\ Unpublished' = Unpublished
  BY HandleBus, HandlerPanicsBus DEF Handle, HandlerPanics, BusInv, TypeInv
<1>2. \A r \in Shards : Visible(r)' = Visible(r) BY <1>1 DEF Visible
<1>3. ToSet(batch[s]) = ToSet(Tail(batch[s])) \cup {Head(batch[s])} /\ Head(batch[s]) \in Events
  BY <1>1, Cutting
<1>4. \A r \in Shards : r # s => batch'[r] = batch[r]
  BY <1>1 DEF Handle, HandlerPanics, TypeInv
<1>5. \A r \in Shards : cpc[r] # "exited" => cpc'[r] # "exited"
  BY <1>1 DEF Handle, HandlerPanics, TypeInv
<1>6. CASE Handle(s)
  <2>1. ToSet(handled') = ToSet(handled) \cup {Head(batch[s])} /\ lost' = lost
    BY <1>1, <1>3, <1>6, Appending DEF Handle, TypeInv
  <2>2. batch'[s] = Tail(batch[s]) BY <1>1, <1>6 DEF Handle, TypeInv
  <2> QED BY <1>2, <1>3, <1>4, <1>5, <2>1, <2>2, OwingGrows DEF Pending
<1>7. CASE HandlerPanics(s)
  <2>1. handled' = handled /\ lost' = lost \cup ToSet(batch[s])
    BY <1>7 DEF HandlerPanics
  <2> QED BY <1>2, <1>4, <1>5, <2>1, OwingGrows DEF Pending
<1> QED BY <1>6, <1>7

(* A consumer leaves an empty ring.                                        *)
LEMMA ConsumerMovesOwing ==
  ASSUME BusInv, NEW s \in Shards, PopNothing(s) \/ Wake(s) \/ SeeDone(s) \/ BatchDone(s)
  PROVE  Owing \subseteq Owing'
<1>1. /\ TypeInv /\ UNCHANGED <<queue, batch, handled, lost>> /\ Unpublished' = Unpublished
      /\ batch[s] = << >>
      /\ \A r \in Shards \ {s} : cpc'[r] = cpc[r]
      /\ cpc'[s] # "exited" \/ Ready(s) = << >>
  <2>1. TypeInv /\ UNCHANGED <<queue, batch, handled, lost>>
    BY DEF PopNothing, Wake, SeeDone, BatchDone, BusInv
  <2>2. Unpublished' = Unpublished BY ConsumerMovesBus
  <2>3. batch[s] = << >>
    BY DEF PopNothing, Wake, SeeDone, BatchDone, BusInv, TypeInv, Counters
  <2>4. \A r \in Shards \ {s} : cpc'[r] = cpc[r]
    BY <2>1 DEF PopNothing, Wake, SeeDone, BatchDone, TypeInv
  <2>5. cpc'[s] # "exited" \/ Ready(s) = << >>
    BY <2>1 DEF PopNothing, Wake, SeeDone, BatchDone, TypeInv
  <2> QED BY <2>1, <2>2, <2>3, <2>4, <2>5
<1>2. \A r \in Shards : Pending(r)' = Pending(r) BY <1>1 DEF Pending, Visible
<1>3. ASSUME Ready(s) = << >> PROVE Pending(s) = {}
  <2>1. ToSet(Ready(s)) = Visible(s) BY <1>1, ReadyIsVisible
  <2> QED BY <1>1, <1>3, <2>1 DEF Pending, ToSet
<1> QED BY <1>1, <1>2, <1>3, OwingGrows

LEMMA OwingStep == BusInv /\ [Next]_vars => Owing \subseteq Owing'
<1>1. SUFFICES ASSUME BusInv, [Next]_vars PROVE Owing \subseteq Owing' OBVIOUS
<1>2. CASE UNCHANGED vars
  BY <1>1, <1>2, BusStutter, QuietOwing DEF vars, consumerVars
<1>3. ASSUME NEW g \in Emitters, EmitStart(g) PROVE Owing \subseteq Owing'
  BY <1>1, <1>3, EmitStartBus, QuietOwing DEF EmitStart, consumerVars
<1>4. ASSUME NEW g \in Emitters, EmitSkip(g) \/ Publish(g) \/ SingleLock(g) \/ Notify(g) \/ SinglePanics(g)
      PROVE  Owing \subseteq Owing'
  <2>1. Unpublished' \subseteq Unpublished
    BY <1>1, <1>4, EmitSkipBus, PublishBus, EmitterWaitsBus, SinglePanicsBus
  <2>2. UNCHANGED <<queue, batch, handled, cpc>> /\ lost \subseteq lost'
    BY <1>4 DEF EmitSkip, Publish, SingleLock, Notify, SinglePanics, consumerVars
  <2> QED BY <1>1, <2>1, <2>2, QuietOwing
<1>5. ASSUME NEW g \in Emitters, EmitPush(g) PROVE Owing \subseteq Owing'
  <2>1. Head(todo[g]) \in Events BY <1>1, <1>5, HeadsHeld DEF Holding, EmitPush
  <2>2. ShardOf[Head(todo[g])] \in Shards BY <2>1, FlowBusAssumption DEF Shards
  <2>3. CASE Pushed(g, ShardOf[Head(todo[g])]) /\ UNCHANGED <<slowed, try, closerVars>>
    BY <1>1, <2>2, <2>3, PushedOwing
  <2>4. CASE /\ UNCHANGED <<queue, consumerVars, todo, handled, lost>>
             /\ epc[g] = "push" /\ epc' = [epc EXCEPT ![g] = "slow"]
    <3>1. Unpublished' = Unpublished
      BY <1>1, <2>4 DEF Unpublished, BusInv, TypeInv
    <3> QED BY <1>1, <2>4, <3>1, QuietOwing DEF consumerVars
  <2> QED BY <1>5, <2>3, <2>4, EmitPushSteps
<1>6. ASSUME NEW g \in Emitters, SlowTry(g) PROVE Owing \subseteq Owing'
  <2>1. epc[g] = "slow" /\ Head(todo[g]) # Nil /\ try[g] \in 0 .. NumShards /\ NumShards \in Nat
    BY <1>1, <1>6, FlowBusAssumption DEF SlowTry, BusInv, Counters, TypeInv, Holding
  <2>2. CASE /\ try[g] < NumShards /\ Pushed(g, try[g])
             /\ slowed' = slowed \cup {Head(todo[g])} /\ UNCHANGED <<try, closerVars>>
    <3>1. try[g] \in Shards BY <2>1, <2>2 DEF Shards
    <3> QED BY <1>1, <2>2, <3>1, PushedOwing
  <2>3. CASE UNCHANGED <<queue, consumerVars, epc, todo, handled, lost>>
    <3>1. Unpublished' = Unpublished BY <2>3 DEF Unpublished
    <3> QED BY <1>1, <2>3, <3>1, QuietOwing DEF consumerVars
  <2> QED BY <1>6, <2>1, <2>2, <2>3, SlowTrySteps
<1>7. ASSUME NEW g \in Emitters, SingleHandle(g) PROVE Owing \subseteq Owing'
  <2>1. Unpublished' \subseteq Unpublished BY <1>1, <1>7, SingleHandleBus
  <2>2. \A r \in Shards : Visible(r) \subseteq Visible(r)'
    BY <1>7, <2>1 DEF SingleHandle, Visible
  <2>3. ToSet(handled) \subseteq ToSet(handled')
    <3>1. Head(todo[g]) \in Events
      BY <1>1, <1>7, HeadsHeld DEF SingleHandle, BusInv, Counters, Holding
    <3> QED BY <1>1, <1>7, <3>1, Appending DEF SingleHandle, BusInv, TypeInv
  <2> QED BY <1>7, <2>2, <2>3, OwingGrows DEF SingleHandle, Pending, consumerVars
<1>8. ASSUME NEW s \in Shards, Consumer(s) PROVE Owing \subseteq Owing'
  BY <1>1, <1>8, PopOwing, HandleOwing, ConsumerMovesOwing DEF Consumer
<1>9. ASSUME NEW d \in Closers, Drain(d) \/ Closer(d) PROVE Owing \subseteq Owing'
  <2>1. Unpublished' = Unpublished BY <1>1, <1>9, CloserBus
  <2>2. UNCHANGED <<queue, batch, handled, cpc, lost>>
    BY <1>9 DEF Drain, Closer, CloseDone, CloseWait, consumerVars
  <2> QED BY <1>1, <2>1, <2>2, QuietOwing
<1> QED BY <1>1, <1>2, <1>3, <1>4, <1>5, <1>6, <1>7, <1>8, <1>9 DEF Next, Emitter

LEMMA ShutdownStep == BusInv /\ Shutdown /\ [Next]_vars => Shutdown'
<1>1. SUFFICES ASSUME BusInv, Shutdown, [Next]_vars PROVE Shutdown' OBVIOUS
<1>2. Owing \subseteq Owing' /\ TypeInv BY <1>1, OwingStep DEF BusInv
<1>3. ASSUME UNCHANGED <<closing, cpc, closed, done, dpc, owed>> PROVE Shutdown'
  BY <1>1, <1>2, <1>3 DEF Shutdown
<1>4. CASE UNCHANGED vars BY <1>3, <1>4 DEF vars, consumerVars, closerVars
<1>5. ASSUME NEW g \in Emitters, EmitStart(g) \/ Emitter(g) PROVE Shutdown'
  <2>1. UNCHANGED <<consumerVars, closerVars>>
    BY <1>5 DEF EmitStart, Emitter, EmitSkip, EmitPush, SlowTry, Publish, SingleLock,
       SingleHandle, SinglePanics, Notify
  <2> QED BY <1>3, <2>1 DEF consumerVars, closerVars
<1>6. ASSUME NEW s \in Shards, Consumer(s) PROVE Shutdown'
  <2>1. /\ UNCHANGED closerVars /\ cpc[s] # "exited"
        /\ closing' = closing \/ (closing' = [closing EXCEPT ![s] = TRUE] /\ done)
        /\ cpc' = [cpc EXCEPT ![s] = cpc'[s]] \/ cpc' = cpc
        /\ cpc'[s] = "exited" => closing[s]
    BY <1>2, <1>6 DEF Consumer, Pop, PopNothing, Wake, SeeDone, Handle, HandlerPanics,
       BatchDone, TypeInv
  <2>2. \A r \in Shards : /\ closing'[r] => closing[r] \/ done
                          /\ cpc'[r] = "exited" => cpc[r] = "exited" \/ closing[r]
                          /\ cpc[r] = "exited" => cpc'[r] = "exited"
    BY <1>2, <2>1 DEF TypeInv
  <2> QED BY <1>1, <1>2, <2>1, <2>2 DEF Shutdown, closerVars
<1>7. ASSUME NEW d \in Closers, Drain(d) PROVE Shutdown'
  <2>1. UNCHANGED <<closing, cpc, done, handled, lost, queue, batch>> /\ closed'
    BY <1>7 DEF Drain, consumerVars
  <2>2. dpc' = [dpc EXCEPT ![d] = dpc'[d]] /\ owed' = [owed EXCEPT ![d] = owed'[d]]
    BY <1>2, <1>7 DEF Drain, TypeInv
  <2>3. CASE closed
    <3>1. owed'[d] = {} BY <1>2, <1>7, <2>3 DEF Drain, TypeInv
    <3> QED BY <1>1, <1>2, <2>1, <2>2, <3>1 DEF Shutdown, TypeInv
  <2>4. CASE ~closed
    <3>1. dpc'[d] = "close" BY <1>2, <1>7, <2>4 DEF Drain, TypeInv
    <3>2. \A s \in Shards : cpc[s] # "exited" BY <1>1, <2>4 DEF Shutdown
    <3>3. \A s \in Shards : ToSet(batch[s] \o Ready(s)) = Pending(s)
      <4>1. SUFFICES ASSUME NEW s \in Shards PROVE ToSet(batch[s] \o Ready(s)) = Pending(s)
        OBVIOUS
      <4>2. batch[s] \in Seq(Events) /\ Ready(s) \in Seq(Events)
        BY <1>2, ReadyIsPrefix DEF TypeInv
      <4> QED BY <1>2, <4>2, Joining, ReadyIsVisible DEF Pending
    <3>4. owed'[d] = Owing
      <4>1. owed'[d] = ToSet(handled) \cup lost \cup UNION {ToSet(batch[s] \o Ready(s)) : s \in Shards}
        BY <1>2, <1>7, <2>4 DEF Drain, TypeInv
      <4> QED BY <3>2, <3>3, <4>1 DEF Owing
    <3> QED BY <1>1, <1>2, <2>1, <2>2, <3>1, <3>4 DEF Shutdown, TypeInv
  <2> QED BY <2>3, <2>4
<1>8. ASSUME NEW d \in Closers, Closer(d) PROVE Shutdown'
  <2>1. /\ UNCHANGED <<closing, cpc, closed, owed>> /\ (done => done')
        /\ dpc[d] \in {"close", "wait"} /\ dpc' = [dpc EXCEPT ![d] = dpc'[d]]
        /\ dpc'[d] \in {"wait", "returned"}
        /\ dpc'[d] = "returned" => \A s \in Shards : cpc[s] = "exited"
    BY <1>2, <1>8 DEF Closer, CloseDone, CloseWait, consumerVars, TypeInv
  <2>2. closed BY <1>1, <2>1 DEF Shutdown
  <2>3. \A b \in Closers \ {d} : dpc'[b] = dpc[b] BY <1>2, <2>1 DEF TypeInv
  <2>4. \A s \in Shards : closing'[s] \/ cpc'[s] = "exited" => done'
    BY <1>1, <2>1 DEF Shutdown
  <2>5. \A b \in Closers : owed'[b] \subseteq Owing' BY <1>1, <1>2, <2>1 DEF Shutdown
  <2>6. \A b \in Closers : dpc'[b] = "returned" => owed[b] = {} \/ \A s \in Shards : cpc[s] = "exited"
    BY <1>1, <2>1, <2>3 DEF Shutdown
  <2> QED BY <2>1, <2>2, <2>4, <2>5, <2>6 DEF Shutdown
<1> QED BY <1>1, <1>4, <1>5, <1>6, <1>7, <1>8 DEF Next

(* The Drain that closes the bus and answers nil has waited for all that   *)
(* the consumers could see when it was called, however many goroutines     *)
(* drain, and whatever emitters do meanwhile.                              *)
THEOREM DrainKeepsWord == Spec => []DrainWaitsForReady
<1>1. Spec => []DrainInv
  <2>1. Init => DrainInv BY BusInit, ShutdownInit DEF DrainInv
  <2>2. DrainInv /\ [Next]_vars => DrainInv' BY BusStep, ShutdownStep DEF DrainInv
  <2> QED BY <2>1, <2>2, PTL DEF Spec
<1>2. DrainInv => DrainWaitsForReady
  BY DEF DrainInv, Shutdown, Owing, DrainWaitsForReady
<1> QED BY <1>1, <1>2, PTL
=============================================================================
