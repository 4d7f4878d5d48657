-------------------------- MODULE Accounting_proofs -------------------------
(* Theorems about EventPool, for any clients, chunks, sizes and profiles:  *)
(* no byte is handed out twice, a chunk is put aside once, when it is used *)
(* and no longer current, nil is answered only to the overtaken, and every *)
(* profile gives a bus that can run.  And about BusLifecycle, for any      *)
(* emitters, plans, events and slots: the counters account for every       *)
(* event, Stats reads values that the counters had, and errors are kept.   *)
(* What they share is the sum over a set.                                  *)
EXTENDS EventPool, BusLifecycle, FiniteSetTheorems, WellFoundedInduction, TLAPS
-----------------------------------------------------------------------------
(***************************************************************************)
(* The sum of a function over a finite set: the fold does not depend on    *)
(* the order in which it chooses the elements.                             *)
(***************************************************************************)
One(s) == CHOOSE x \in s : TRUE

Less == {ss \in Nat \X Nat : ss[1] < ss[2]}

LEMMA InductionOverNat ==
  ASSUME NEW S, 0 \in S, \A n \in Nat : n \in S => n + 1 \in S
  PROVE  Nat \subseteq S
<1>0. IsWellFoundedOn(Less, Nat) BY NatLessThanWellFounded DEF OpToRel, Less
<1>1. SUFFICES ASSUME Nat \ S # {} PROVE FALSE
  OBVIOUS
<1>2. PICK m \in Nat \ S : \A k \in Nat \ S : <<k, m>> \notin Less
  BY <1>0, <1>1, WFMin
<1>3. m # 0 /\ m - 1 \in Nat BY <1>2
<1>4. m - 1 \in S
  <2>1. <<m - 1, m>> \in Less BY <1>3 DEF Less
  <2> QED BY <1>2, <1>3, <2>1
<1> QED BY <1>2, <1>3, <1>4

LEMMA OneOf ==
  ASSUME NEW S, IsFiniteSet(S), NEW s \in SUBSET S
  PROVE  /\ IsFiniteSet(s) /\ Cardinality(s) \in Nat
         /\ Cardinality(s) = 0 <=> s = {}
         /\ s # {} => One(s) \in s
         /\ \A x \in s : s \ {x} \in SUBSET S /\ Cardinality(s \ {x}) = Cardinality(s) - 1
<1>1. IsFiniteSet(s) BY FS_Subset
<1>2. Cardinality(s) \in Nat /\ (Cardinality(s) = 0 <=> s = {})
  BY <1>1, FS_CardinalityType, FS_EmptySet
<1>3. \A x \in s : s \ {x} \in SUBSET S /\ Cardinality(s \ {x}) = Cardinality(s) - 1
  BY <1>1, FS_RemoveElement
<1>4. s # {} => One(s) \in s BY DEF One
<1> QED BY <1>1, <1>2, <1>3, <1>4

(* The function that the fold over S is computed by, for sets of up to k.  *)
Sums(it, f, S, k) ==
  /\ it = [s \in SUBSET S |-> it[s]]
  /\ \A s \in SUBSET S :
       Cardinality(s) <= k =>
         it[s] = IF s = {} THEN 0 ELSE f[One(s)] + it[s \ {One(s)}]

LEMMA SumsExist ==
  ASSUME NEW S, IsFiniteSet(S), NEW f, NEW n \in Nat
  PROVE  \E it : Sums(it, f, S, n)
<1> DEFINE T == {k \in Nat : \E it : Sums(it, f, S, k)}
<1>1. 0 \in T
  <2> DEFINE z == [s \in SUBSET S |-> 0]
  <2>1. \A s \in SUBSET S : z[s] = 0 /\ (Cardinality(s) <= 0 => s = {}) BY OneOf
  <2>2. z = [s \in SUBSET S |-> z[s]] OBVIOUS
  <2> HIDE DEF z
  <2>3. Sums(z, f, S, 0) BY <2>1, <2>2 DEF Sums
  <2> QED BY <2>3
<1>2. ASSUME NEW k \in Nat, k \in T PROVE k + 1 \in T
  <2>1. PICK g : Sums(g, f, S, k) BY <1>2
  <2> DEFINE h == [s \in SUBSET S |->
                     IF Cardinality(s) = k + 1 THEN f[One(s)] + g[s \ {One(s)}] ELSE g[s]]
  <2>2. h = [s \in SUBSET S |-> h[s]] OBVIOUS
  <2>3. \A s \in SUBSET S : Cardinality(s) = k + 1 => h[s] = f[One(s)] + g[s \ {One(s)}]
    OBVIOUS
  <2>4. \A s \in SUBSET S : Cardinality(s) # k + 1 => h[s] = g[s]
    OBVIOUS
  <2> HIDE DEF h
  <2>5. ASSUME NEW s \in SUBSET S, Cardinality(s) <= k + 1
        PROVE  h[s] = IF s = {} THEN 0 ELSE f[One(s)] + h[s \ {One(s)}]
    <3>1. Cardinality(s) \in Nat /\ (Cardinality(s) = 0 <=> s = {}) BY OneOf
    <3>2. CASE s = {}
      <4>1. Cardinality(s) <= k /\ Cardinality(s) # k + 1 BY <3>1, <3>2
      <4>2. g[s] = 0 BY <2>1, <3>2, <4>1 DEF Sums
      <4> QED BY <2>4, <3>2, <4>1, <4>2
    <3>3. CASE s # {}
      <4>1. s \ {One(s)} \in SUBSET S /\ Cardinality(s \ {One(s)}) = Cardinality(s) - 1
        BY <3>3, OneOf
      <4>2. h[s \ {One(s)}] = g[s \ {One(s)}] BY <2>4, <2>5, <3>1, <4>1
      <4>3. CASE Cardinality(s) = k + 1 BY <2>3, <3>3, <4>2, <4>3
      <4>4. CASE Cardinality(s) # k + 1
        <5>1. Cardinality(s) <= k BY <2>5, <3>1, <4>4
        <5> QED BY <2>1, <2>4, <3>3, <4>2, <4>4, <5>1 DEF Sums
      <4> QED BY <4>3, <4>4
    <3> QED BY <3>2, <3>3
  <2>6. Sums(h, f, S, k + 1) BY <2>2, <2>5 DEF Sums
  <2> QED BY <2>6
<1>3. n \in T
  <2> HIDE DEF T
  <2> QED BY <1>1, <1>2, InductionOverNat
<1> QED BY <1>3

(* Any element can be the one that is added last.                          *)
LEMMA AnyOrder ==
  ASSUME NEW S, IsFiniteSet(S), NEW f, \A x \in S : f[x] \in Int,
         NEW it, Sums(it, f, S, Cardinality(S)), NEW s \in SUBSET S
  PROVE  it[s] \in Int /\ \A x \in s : it[s] = f[x] + it[s \ {x}]
<1> DEFINE Good(t) == it[t] \in Int /\ \A x \in t : it[t] = f[x] + it[t \ {x}]
           T == {k \in Nat : \A t \in SUBSET S : Cardinality(t) <= k => Good(t)}
<1>0. ASSUME NEW t \in SUBSET S
      PROVE  it[t] = IF t = {} THEN 0 ELSE f[One(t)] + it[t \ {One(t)}]
  <2>1. Cardinality(t) <= Cardinality(S) BY FS_Subset
  <2> QED BY <2>1 DEF Sums
<1>1. 0 \in T
  <2>1. ASSUME NEW t \in SUBSET S, Cardinality(t) <= 0 PROVE Good(t)
    <3>1. t = {} BY <2>1, OneOf
    <3>2. it[t] = 0 BY <1>0, <3>1
    <3> QED BY <3>1, <3>2
  <2> QED BY <2>1
<1>2. ASSUME NEW k \in Nat, k \in T PROVE k + 1 \in T
  <2>1. ASSUME NEW t \in SUBSET S, Cardinality(t) = k + 1 PROVE Good(t)
    <3> DEFINE y == One(t)
    <3>1. t # {} BY <2>1, OneOf
    <3>2. y \in t BY <3>1, OneOf
    <3>3. it[t] = f[y] + it[t \ {y}] BY <1>0, <3>1
    <3> HIDE DEF y
    <3>4. \A x \in t : t \ {x} \in SUBSET S /\ Cardinality(t \ {x}) = k BY <2>1, OneOf
    <3>5. \A x \in t : Good(t \ {x})
      <4>1. \A u \in SUBSET S : Cardinality(u) <= k => Good(u) BY <1>2
      <4>2. \A x \in t : Cardinality(t \ {x}) <= k BY <3>4
      <4> HIDE DEF Good
      <4> QED BY <3>4, <4>1, <4>2
    <3>6. it[t] \in Int
      <4>1. f[y] \in Int /\ it[t \ {y}] \in Int BY <3>2, <3>5
      <4> QED BY <3>3, <4>1
    <3>7. ASSUME NEW x \in t, x # y PROVE it[t] = f[x] + it[t \ {x}]
      <4> DEFINE r == (t \ {y}) \ {x}
      <4>1. x \in t \ {y} /\ y \in t \ {x} /\ (t \ {x}) \ {y} = r BY <3>2, <3>7
      <4>2. r \in SUBSET S /\ Cardinality(r) = k - 1
        <5>1. t \ {y} \in SUBSET S /\ Cardinality(t \ {y}) = k BY <3>2, <3>4
        <5>2. \A u \in t \ {y} : Cardinality((t \ {y}) \ {u}) = Cardinality(t \ {y}) - 1
          BY <5>1, OneOf
        <5> QED BY <4>1, <5>1, <5>2
      <4>3. it[r] \in Int BY <1>2, <4>2
      <4>4. it[t \ {y}] = f[x] + it[r] BY <3>2, <3>5, <4>1
      <4>5. it[t \ {x}] = f[y] + it[r] BY <3>5, <4>1
      <4> HIDE DEF r
      <4>6. f[x] \in Int /\ f[y] \in Int BY <3>2
      <4> QED BY <3>3, <4>3, <4>4, <4>5, <4>6
    <3> QED BY <3>3, <3>6, <3>7
  <2>2. ASSUME NEW t \in SUBSET S, Cardinality(t) <= k + 1 PROVE Good(t)
    <3>1. Cardinality(t) \in Nat BY OneOf
    <3> QED BY <1>2, <2>1, <2>2, <3>1
  <2> QED BY <2>2
<1>3. Cardinality(s) \in T
  <2>1. Cardinality(s) \in Nat BY OneOf
  <2> HIDE DEF T
  <2> QED BY <1>1, <1>2, <2>1, InductionOverNat
<1>4. Cardinality(s) \in Nat BY OneOf
<1>5. Good(s)
  <2> HIDE DEF Good
  <2> QED BY <1>3, <1>4
<1> QED BY <1>5

(* Over a smaller set, or of a function that is the same there, the same.  *)
LEMMA SameSums ==
  ASSUME NEW R, IsFiniteSet(R), NEW S \in SUBSET R, NEW f, NEW g, \A x \in S : f[x] = g[x],
         NEW a, Sums(a, f, R, Cardinality(R)), NEW b, Sums(b, g, S, Cardinality(S))
  PROVE  a[S] = b[S]
<1> DEFINE T == {k \in Nat : \A t \in SUBSET S : Cardinality(t) <= k => a[t] = b[t]}
<1>0. IsFiniteSet(S) BY FS_Subset
<1>1. ASSUME NEW t \in SUBSET S
      PROVE  /\ a[t] = IF t = {} THEN 0 ELSE f[One(t)] + a[t \ {One(t)}]
             /\ b[t] = IF t = {} THEN 0 ELSE g[One(t)] + b[t \ {One(t)}]
  <2>1. t \in SUBSET R OBVIOUS
  <2>2. Cardinality(t) <= Cardinality(S) /\ Cardinality(t) <= Cardinality(R)
    BY <1>0, <2>1, FS_Subset
  <2> QED BY <2>1, <2>2 DEF Sums
<1>2. 0 \in T
  <2>1. \A t \in SUBSET S : Cardinality(t) <= 0 => t = {} BY <1>0, OneOf
  <2> QED BY <1>1, <2>1
<1>3. ASSUME NEW k \in Nat, k \in T PROVE k + 1 \in T
  <2>1. ASSUME NEW t \in SUBSET S, Cardinality(t) <= k + 1 PROVE a[t] = b[t]
    <3>1. CASE t = {} BY <1>1, <3>1
    <3>2. CASE t # {}
      <4>1. One(t) \in S /\ t \ {One(t)} \in SUBSET S /\ Cardinality(t \ {One(t)}) <= k
        BY <1>0, <2>1, <3>2, OneOf
      <4>2. a[t \ {One(t)}] = b[t \ {One(t)}] BY <1>3, <4>1
      <4> QED BY <1>1, <3>2, <4>1, <4>2
    <3> QED BY <3>1, <3>2
  <2> QED BY <2>1
<1>4. Cardinality(S) \in Nat BY <1>0, FS_CardinalityType
<1> HIDE DEF T
<1>5. Cardinality(S) \in T BY <1>2, <1>3, <1>4, InductionOverNat
<1> QED BY <1>4, <1>5 DEF T

LEMMA SumOverSums ==
  ASSUME NEW S, IsFiniteSet(S), NEW f
  PROVE  \E it : Sums(it, f, S, Cardinality(S)) /\ SumOver(S, f) = it[S]
<1> DEFINE Body(it) ==
             [s \in SUBSET S |-> IF s = {} THEN 0
                                 ELSE f[CHOOSE x \in s : TRUE] + it[s \ {CHOOSE x \in s : TRUE}]]
           w == CHOOSE it : it = Body(it)
           n == Cardinality(S)
<1>1. SumOver(S, f) = w[S] BY DEF SumOver, MapThenSumSet, MapThenFoldSet
<1>2. n \in Nat /\ \A s \in SUBSET S : Cardinality(s) <= n BY FS_Subset, FS_CardinalityType
<1>3. \E it : it = Body(it)
  <2>1. PICK g : Sums(g, f, S, n) BY <1>2, SumsExist
  <2>2. \A s \in SUBSET S : g[s] = IF s = {} THEN 0 ELSE f[One(s)] + g[s \ {One(s)}]
    BY <1>2, <2>1 DEF Sums
  <2>3. g = [s \in SUBSET S |-> g[s]] BY <2>1 DEF Sums
  <2>4. g = [s \in SUBSET S |-> IF s = {} THEN 0 ELSE f[One(s)] + g[s \ {One(s)}]]
    BY <2>2, <2>3, Zenon
  <2> QED BY <2>4, Zenon DEF One
<1>4. w = Body(w) BY <1>3, Zenon
<1> HIDE DEF w, n
<1>5. \A s \in SUBSET S : w[s] = IF s = {} THEN 0 ELSE f[One(s)] + w[s \ {One(s)}]
  BY <1>4 DEF One
<1>6. w = [s \in SUBSET S |-> w[s]] BY <1>4
<1>7. Sums(w, f, S, n) BY <1>5, <1>6 DEF Sums
<1> QED BY <1>1, <1>7 DEF n

LEMMA SumOfNone == ASSUME NEW S, S = {}, NEW f PROVE SumOver(S, f) = 0
<1>1. IsFiniteSet(S) /\ Cardinality(S) = 0 BY FS_EmptySet
<1>2. PICK it : Sums(it, f, S, Cardinality(S)) /\ SumOver(S, f) = it[S] BY <1>1, SumOverSums
<1>3. S \in SUBSET S /\ Cardinality(S) <= Cardinality(S) BY <1>1
<1>4. it[S] = 0 BY <1>2, <1>3 DEF Sums
<1> QED BY <1>2, <1>4

LEMMA SumWith ==
  ASSUME NEW S, IsFiniteSet(S), NEW y, y \notin S, NEW f, \A x \in S \cup {y} : f[x] \in Int
  PROVE  SumOver(S, f) \in Int /\ SumOver(S \cup {y}, f) = SumOver(S, f) + f[y]
<1> DEFINE R == S \cup {y}
<1>1. IsFiniteSet(R) BY FS_AddElement
<1>2. PICK a : Sums(a, f, R, Cardinality(R)) /\ SumOver(R, f) = a[R] BY <1>1, SumOverSums
<1>3. PICK b : Sums(b, f, S, Cardinality(S)) /\ SumOver(S, f) = b[S] BY SumOverSums
<1>4. R \in SUBSET R /\ S \in SUBSET R /\ R \ {y} = S /\ y \in R OBVIOUS
<1>5. \A x \in R : f[x] \in Int OBVIOUS
<1> HIDE DEF R
<1>6. a[R] = f[y] + a[S] /\ a[S] \in Int BY <1>1, <1>2, <1>4, <1>5, AnyOrder
<1>7. a[S] = b[S] BY <1>1, <1>2, <1>3, <1>4, SameSums
<1>8. f[y] \in Int BY <1>4, <1>5
<1> QED BY <1>2, <1>3, <1>6, <1>7, <1>8 DEF R

LEMMA SumOfSame ==
  ASSUME NEW S, IsFiniteSet(S), NEW f, NEW g, \A x \in S : f[x] = g[x]
  PROVE  SumOver(S, f) = SumOver(S, g)
<1>1. PICK a : Sums(a, f, S, Cardinality(S)) /\ SumOver(S, f) = a[S] BY SumOverSums
<1>2. PICK b : Sums(b, g, S, Cardinality(S)) /\ SumOver(S, g) = b[S] BY SumOverSums
<1> QED BY <1>1, <1>2, SameSums

(* Changing the function at one place changes the sum by as much.          *)
LEMMA SumOfChanged ==
  ASSUME NEW S, IsFiniteSet(S), NEW y \in S, NEW f, NEW g, \A x \in S : f[x] \in Int,
         g[y] \in Int, \A x \in S \ {y} : g[x] = f[x]
  PROVE  SumOver(S, f) \in Int /\ SumOver(S, g) = SumOver(S, f) + g[y] - f[y]
<1> DEFINE R == S \ {y}
<1>1. IsFiniteSet(R) /\ y \notin R /\ R \cup {y} = S BY FS_Subset
<1>2. \A x \in R \cup {y} : f[x] \in Int /\ g[x] \in Int OBVIOUS
<1>3. \A x \in R : f[x] = g[x] OBVIOUS
<1> HIDE DEF R
<1>4. SumOver(R, f) \in Int /\ SumOver(S, f) = SumOver(R, f) + f[y] BY <1>1, <1>2, SumWith
<1>5. SumOver(S, g) = SumOver(R, g) + g[y] BY <1>1, <1>2, SumWith
<1>6. SumOver(R, f) = SumOver(R, g) BY <1>1, <1>3, SumOfSame
<1>7. f[y] \in Int /\ g[y] \in Int OBVIOUS
<1> QED BY <1>4, <1>5, <1>6, <1>7

(* The sum of the greater function is the greater one.                     *)
LEMMA SumOfGreater ==
  ASSUME NEW S, IsFiniteSet(S), NEW f, NEW g,
         \A x \in S : f[x] \in Int /\ g[x] \in Int /\ f[x] <= g[x]
  PROVE  /\ SumOver(S, f) \in Int /\ SumOver(S, g) \in Int
         /\ SumOver(S, f) <= SumOver(S, g)
<1> DEFINE Good(t) == /\ SumOver(t, f) \in Int /\ SumOver(t, g) \in Int
                      /\ SumOver(t, f) <= SumOver(t, g)
           T == {k \in Nat : \A t \in SUBSET S : Cardinality(t) = k => Good(t)}
<1>1. 0 \in T
  <2>1. ASSUME NEW t \in SUBSET S, Cardinality(t) = 0 PROVE Good(t)
    <3>1. t = {} BY <2>1, OneOf
    <3>2. SumOver(t, f) = 0 /\ SumOver(t, g) = 0 BY <3>1, SumOfNone
    <3> QED BY <3>2
  <2> QED BY <2>1
<1>2. ASSUME NEW k \in Nat, k \in T PROVE k + 1 \in T
  <2>1. ASSUME NEW t \in SUBSET S, Cardinality(t) = k + 1 PROVE Good(t)
    <3> DEFINE y == One(t)
               u == t \ {y}
    <3>1. t # {} BY <2>1, OneOf
    <3>2. y \in t BY <3>1, OneOf
    <3> HIDE DEF y
    <3>3. u \in SUBSET S /\ Cardinality(u) = k BY <2>1, <3>2, OneOf
    <3>4. Good(u) BY <1>2, <3>3
    <3>5. IsFiniteSet(u) /\ y \notin u /\ u \cup {y} = t BY <3>2, <3>3, OneOf
    <3>6. \A x \in u \cup {y} : f[x] \in Int /\ g[x] \in Int BY <3>2
    <3> HIDE DEF u
    <3>7. SumOver(t, f) = SumOver(u, f) + f[y] /\ SumOver(t, g) = SumOver(u, g) + g[y]
      BY <3>5, <3>6, SumWith
    <3>8. f[y] \in Int /\ g[y] \in Int /\ f[y] <= g[y] BY <3>2
    <3> QED BY <3>4, <3>7, <3>8
  <2> QED BY <2>1
<1>3. Cardinality(S) \in Nat BY FS_CardinalityType
<1>4. Cardinality(S) \in T
  <2> HIDE DEF T
  <2> QED BY <1>1, <1>2, <1>3, InductionOverNat
<1> QED BY <1>4

LEMMA SumOfZeros ==
  ASSUME NEW S, IsFiniteSet(S), NEW f, \A x \in S : f[x] = 0
  PROVE  SumOver(S, f) = 0
<1> DEFINE z == [x \in S |-> 0]
           T == {k \in Nat : \A t \in SUBSET S : Cardinality(t) = k => SumOver(t, f) = 0}
<1>1. 0 \in T BY OneOf, SumOfNone
<1>2. ASSUME NEW k \in Nat, k \in T PROVE k + 1 \in T
  <2>1. ASSUME NEW t \in SUBSET S, Cardinality(t) = k + 1 PROVE SumOver(t, f) = 0
    <3> DEFINE y == One(t)
               u == t \ {y}
    <3>1. t # {} BY <2>1, OneOf
    <3>2. y \in t BY <3>1, OneOf
    <3> HIDE DEF y
    <3>3. u \in SUBSET S /\ Cardinality(u) = k BY <2>1, <3>2, OneOf
    <3>4. SumOver(u, f) = 0 BY <1>2, <3>3
    <3>5. IsFiniteSet(u) /\ y \notin u /\ u \cup {y} = t BY <3>2, <3>3, OneOf
    <3>6. \A x \in u \cup {y} : f[x] \in Int /\ f[x] = 0 BY <3>2
    <3> HIDE DEF u
    <3>7. SumOver(t, f) = SumOver(u, f) + f[y] BY <3>5, <3>6, SumWith
    <3>8. f[y] = 0 BY <3>2
    <3> QED BY <3>4, <3>7, <3>8
  <2> QED BY <2>1
<1>3. Cardinality(S) \in Nat BY FS_CardinalityType
<1>4. Cardinality(S) \in T
  <2> HIDE DEF T
  <2> QED BY <1>1, <1>2, <1>3, InductionOverNat
<1> QED BY <1>4

LEMMA SumOfNaturals ==
  ASSUME NEW S, IsFiniteSet(S), NEW f, \A x \in S : f[x] \in Nat
  PROVE  SumOver(S, f) \in Nat
<1> DEFINE z == [x \in S |-> 0]
<1>1. \A x \in S : z[x] = 0 OBVIOUS
<1>2. \A x \in S : z[x] \in Int /\ f[x] \in Int /\ z[x] <= f[x] OBVIOUS
<1> HIDE DEF z
<1>3. SumOver(S, z) = 0 BY <1>1, SumOfZeros
<1> QED BY <1>2, <1>3, SumOfGreater
-----------------------------------------------------------------------------
Locations == {"idle", "alloc", "lock", "again", "switch", "publish", "fill", "put"}
Locked == {"again", "switch", "publish", "fill"}
Cutting == {"alloc", "again", "switch", "publish", "fill"}

PoolTypes ==
  /\ current \in Chunks
  /\ offset \in [Chunks -> Nat]
  /\ pooled \in [Chunks -> Nat]
  /\ era \in [Chunks -> Nat]
  /\ pc \in [Clients -> Locations]
  /\ size \in [Clients -> Nat]
  /\ \A p \in Clients : Aligned(size[p]) \in 0 .. Half
  /\ arena \in [Clients -> Chunks \cup {NoChunk}]
  /\ oldChunk \in [Clients -> Chunks \cup {NoChunk}]
  /\ \A p \in Clients : pc[p] \in Cutting => arena[p] \in Chunks

(* The slices of a chunk lie below its offset, one beside the other.       *)
SlicesInv ==
  /\ \A s \in slices :
       /\ s.chunk \in Chunks /\ s.from \in Nat /\ s.to \in Nat
       /\ s.from <= s.to /\ s.to <= offset[s.chunk]
  /\ SlicesDisjoint

(* c is neither in the pool nor about to go there.                         *)
InUse(c) == pooled[c] = 0 /\ era[c] > 0 /\ \A p \in Clients : oldChunk[p] # c

LockInv ==
  /\ lock \in Clients \cup {NoClient}
  /\ \A p \in Clients : pc[p] \in Locked <=> lock = p
  /\ \A p \in Clients : pc[p] \in {"again", "switch"} => arena[p] = current
  /\ \A p \in Clients : pc[p] \in {"switch", "publish"} => offset[current] > Half
  /\ \A p \in Clients : pc[p] = "publish" => arena[p] # current /\ InUse(arena[p])

AsideInv ==
  /\ InUse(current)
  /\ \A p \in Clients : oldChunk[p] # NoChunk <=> pc[p] \in {"fill", "put"}
  /\ \A p, q \in Clients : oldChunk[p] = oldChunk[q] /\ oldChunk[p] # NoChunk => p = q
  /\ \A p \in Clients :
       oldChunk[p] # NoChunk => /\ offset[oldChunk[p]] > Half
                                /\ pooled[oldChunk[p]] = 0 /\ era[oldChunk[p]] > 0
  /\ \A c \in Chunks : pooled[c] > 0 => pooled[c] = 1 /\ offset[c] > Half /\ era[c] > 0

PoolInv == PoolTypes /\ SlicesInv /\ LockInv /\ AsideInv
-----------------------------------------------------------------------------
LEMMA Sizing ==
  /\ Half \in Nat /\ ChunkSize = 2 * Half /\ Align \in Nat \ {0}
  /\ NoChunk \notin Chunks /\ NoClient \notin Clients /\ Sizes \subseteq Nat
BY PoolAssumption DEF Half

LEMMA Rounding ==
  ASSUME NEW n \in Nat, n <= Half
  PROVE  Aligned(n) \in 0 .. Half
<1> DEFINE q == (n + Align - 1) \div Align
           k == Half \div Align
<1>1. Align \in Nat \ {0} /\ Half \in Nat BY Sizing
<1>2. q \in Nat /\ k \in Nat BY <1>1
<1>3. Half = k * Align BY <1>1, PoolAssumption
<1>4. q * Align <= n + Align - 1 BY <1>1
<1> HIDE DEF q, k
<1>5. q <= k
  <2>1. ASSUME q >= k + 1 PROVE FALSE
    <3>1. q * Align >= (k + 1) * Align BY <1>1, <1>2, <2>1
    <3>2. (k + 1) * Align = k * Align + Align BY <1>1, <1>2
    <3>3. q * Align \in Nat /\ k * Align \in Nat /\ (k + 1) * Align \in Nat
      BY <1>1, <1>2
    <3> QED BY <1>1, <1>3, <1>4, <3>1, <3>2, <3>3
  <2> QED BY <1>2, <2>1
<1>6. q * Align <= k * Align /\ q * Align \in Nat BY <1>1, <1>2, <1>5
<1> QED BY <1>1, <1>3, <1>6 DEF Aligned, q
-----------------------------------------------------------------------------
(* Alloc, in each of the three places that call it.                        *)
LEMMA CutStep ==
  ASSUME PoolTypes, SlicesInv, NEW p \in Clients, arena[p] \in Chunks, Cut(p)
  PROVE  /\ SlicesInv'
         /\ offset' \in [Chunks -> Nat]
         /\ \A c \in Chunks : offset'[c] >= offset[c]
<1> DEFINE c == arena[p]
           to == offset[c] + Aligned(size[p])
           new == [chunk |-> c, from |-> offset[c], to |-> to]
<1>1. c \in Chunks /\ offset[c] \in Nat /\ to \in Nat /\ to >= offset[c]
  BY Sizing DEF PoolTypes
<1>2. offset' = [offset EXCEPT ![c] = to] /\ slices' = slices \cup {new}
  BY DEF Cut
<1>3. new.chunk = c /\ new.from = offset[c] /\ new.to = to
  OBVIOUS
<1> HIDE DEF c, to, new
<1>4. offset' \in [Chunks -> Nat] /\ \A d \in Chunks : offset'[d] >= offset[d]
  BY <1>1, <1>2 DEF PoolTypes
<1>5. ASSUME NEW s \in slices'
      PROVE  /\ s.chunk \in Chunks /\ s.from \in Nat /\ s.to \in Nat
             /\ s.from <= s.to /\ s.to <= offset'[s.chunk]
  <2>1. CASE s = new BY <1>1, <1>2, <1>3, <2>1 DEF PoolTypes
  <2>2. CASE s \in slices
    <3>1. /\ s.chunk \in Chunks /\ s.from \in Nat /\ s.to \in Nat
          /\ s.from <= s.to /\ s.to <= offset[s.chunk]
      BY <2>2 DEF SlicesInv
    <3>2. offset'[s.chunk] >= offset[s.chunk] /\ offset[s.chunk] \in Nat
          /\ offset'[s.chunk] \in Nat
      BY <1>4, <3>1 DEF PoolTypes
    <3> QED BY <3>1, <3>2
  <2> QED BY <1>2, <1>5, <2>1, <2>2
<1>6. ASSUME NEW s \in slices', NEW t \in slices', s # t, s.chunk = t.chunk
      PROVE  s.to <= t.from \/ t.to <= s.from
  <2>1. CASE s \in slices /\ t \in slices
    BY <1>6, <2>1 DEF SlicesInv, SlicesDisjoint
  <2>2. CASE s \in slices /\ t = new BY <1>3, <1>6, <2>2 DEF SlicesInv
  <2>3. CASE t \in slices /\ s = new BY <1>3, <1>6, <2>3 DEF SlicesInv
  <2> QED BY <1>2, <1>6, <2>1, <2>2, <2>3
<1> QED BY <1>4, <1>5, <1>6 DEF SlicesInv, SlicesDisjoint

LEMMA NoCut ==
  ASSUME SlicesInv, UNCHANGED <<offset, slices>>
  PROVE  SlicesInv'
BY DEF SlicesInv, SlicesDisjoint

(* A call returns.                                                         *)
LEMMA Zero == Aligned(0) \in 0 .. Half
BY Rounding, Sizing

(* What a client does with offset, when it does not take a chunk, and with *)
(* its own variables, while it has no part in the exchange of chunks.      *)
LEMMA Apart ==
  ASSUME PoolInv, NEW p \in Clients, NEW l \in {"idle", "alloc", "lock"},
         pc[p] \in {"idle", "alloc", "lock"}, pc' = [pc EXCEPT ![p] = l],
         offset' \in [Chunks -> Nat], \A c \in Chunks : offset'[c] >= offset[c],
         \A q \in Clients \ {p} : arena'[q] = arena[q],
         UNCHANGED <<current, pooled, era, lock, oldChunk>>
  PROVE  LockInv' /\ AsideInv'
<1> USE Sizing DEF PoolInv, PoolTypes, InUse
<1>1. LockInv' BY DEF LockInv, Locked
<1>2. AsideInv' BY DEF AsideInv
<1> QED BY <1>1, <1>2

LEMMA AllocDataStep ==
  ASSUME PoolInv, NEW p \in Clients, NEW n \in Sizes, AllocData(p, n)
  PROVE  PoolInv'
<1> USE Sizing DEF PoolInv, AllocData
<1>1. Aligned(n) \in 0 .. Half BY Rounding
<1>2. PoolTypes' BY <1>1 DEF PoolTypes, Locations, Cutting
<1>3. offset' \in [Chunks -> Nat] /\ \A c \in Chunks : offset'[c] >= offset[c]
  BY DEF PoolTypes
<1>4. \A q \in Clients \ {p} : arena'[q] = arena[q] BY DEF PoolTypes
<1>5. LockInv' /\ AsideInv'
  <2> HIDE DEF PoolInv
  <2> QED BY <1>3, <1>4, Apart
<1>6. SlicesInv' BY NoCut
<1> QED BY <1>2, <1>5, <1>6

LEMMA AllocStep ==
  ASSUME PoolInv, NEW p \in Clients, Alloc(p)
  PROVE  PoolInv'
<1> USE DEF PoolInv, Alloc
<1>1. arena[p] \in Chunks BY DEF PoolTypes, Cutting
<1>2. CASE Cut(p) /\ Return(p)
  <2>1. SlicesInv' /\ offset' \in [Chunks -> Nat] /\ \A c \in Chunks : offset'[c] >= offset[c]
    BY <1>1, <1>2, CutStep
  <2>2. PoolTypes' BY <1>2, <2>1, Zero DEF PoolTypes, Return, Locations, Cutting
  <2>3. LockInv' /\ AsideInv' BY <1>2, <2>1, Apart DEF Return, PoolTypes
  <2> QED BY <2>1, <2>2, <2>3
<1>3. CASE pc' = [pc EXCEPT ![p] = "lock"] /\ UNCHANGED <<offset, size, arena, slices>>
  <2>1. PoolTypes' BY <1>3 DEF PoolTypes, Locations, Cutting
  <2>2. offset' \in [Chunks -> Nat] /\ \A c \in Chunks : offset'[c] >= offset[c]
    BY <1>3 DEF PoolTypes
  <2>3. LockInv' /\ AsideInv' BY <1>3, <2>2, Apart DEF PoolTypes
  <2>4. SlicesInv' BY <1>3, NoCut
  <2> QED BY <2>1, <2>3, <2>4
<1> QED BY <1>2, <1>3

LEMMA LockStep ==
  ASSUME PoolInv, NEW p \in Clients, Lock(p)
  PROVE  PoolInv'
<1> USE Sizing DEF PoolInv, Lock
<1>1. PoolTypes' BY DEF PoolTypes, Locations, Cutting
<1>2. LockInv'
  <2>1. \A q \in Clients : pc[q] \notin Locked BY DEF LockInv
  <2> QED BY <2>1 DEF LockInv, PoolTypes, Locked, InUse
<1>3. AsideInv' BY DEF AsideInv, PoolTypes, InUse
<1>4. SlicesInv' BY NoCut
<1> QED BY <1>1, <1>2, <1>3, <1>4

LEMMA AllocAgainStep ==
  ASSUME PoolInv, NEW p \in Clients, AllocAgain(p)
  PROVE  PoolInv'
<1> USE Sizing DEF PoolInv, AllocAgain
<1>1. arena[p] \in Chunks /\ arena[p] = current /\ lock = p
  BY DEF PoolTypes, Cutting, LockInv, Locked
<1>2. \A q \in Clients \ {p} : pc[q] \notin Locked BY <1>1 DEF LockInv
<1>3. CASE Cut(p) /\ lock' = NoClient /\ Return(p)
  <2>1. SlicesInv' /\ offset' \in [Chunks -> Nat] /\ \A c \in Chunks : offset'[c] >= offset[c]
    BY <1>1, <1>3, CutStep
  <2>2. PoolTypes' BY <1>3, <2>1, Zero DEF PoolTypes, Return, Locations, Cutting
  <2>3. LockInv' BY <1>2, <1>3 DEF LockInv, PoolTypes, Return, Locked, InUse
  <2>4. AsideInv' BY <1>3, <2>1 DEF AsideInv, PoolTypes, Return, InUse
  <2> QED BY <2>1, <2>2, <2>3, <2>4
<1>4. CASE ~Fits(p) /\ pc' = [pc EXCEPT ![p] = "switch"]
           /\ UNCHANGED <<offset, lock, size, arena, slices>>
  <2>1. PoolTypes' BY <1>1, <1>4 DEF PoolTypes, Locations, Cutting
  <2>2. offset[current] > Half BY <1>1, <1>4 DEF Fits, PoolTypes
  <2>3. LockInv' BY <1>1, <1>2, <1>4, <2>2 DEF LockInv, PoolTypes, Locked, InUse
  <2>4. AsideInv' BY <1>4 DEF AsideInv, PoolTypes, InUse
  <2>5. SlicesInv' BY <1>4, NoCut
  <2> QED BY <2>1, <2>3, <2>4, <2>5
<1> QED BY <1>3, <1>4

LEMMA TakeChunkStep ==
  ASSUME PoolInv, NEW p \in Clients, TakeChunk(p)
  PROVE  PoolInv'
<1> USE Sizing DEF PoolInv, TakeChunk
<1>1. PICK c \in Gettable :
        /\ pooled' = [pooled EXCEPT ![c] = IF @ > 0 THEN @ - 1 ELSE 0]
        /\ era' = [era EXCEPT ![c] = @ + 1]
        /\ offset' = [offset EXCEPT ![c] = 0]
        /\ slices' = {s \in slices : s.chunk # c}
        /\ arena' = [arena EXCEPT ![p] = c]
  OBVIOUS
<1>2. c \in Chunks /\ (pooled[c] > 0 \/ era[c] = 0) BY DEF Gettable
<1>3. lock = p /\ \A q \in Clients \ {p} : pc[q] \notin Locked
  BY DEF LockInv, Locked
<1>4. c # current BY <1>2 DEF AsideInv, InUse, PoolTypes
<1>5. \A q \in Clients : oldChunk[q] # c BY <1>2 DEF AsideInv, PoolTypes
<1>6. pooled'[c] = 0 /\ era'[c] > 0 BY <1>1, <1>2 DEF AsideInv, PoolTypes
<1>7. PoolTypes' BY <1>1, <1>2 DEF PoolTypes, Locations, Cutting
<1>8. LockInv'
  BY <1>1, <1>2, <1>3, <1>4, <1>5, <1>6 DEF LockInv, PoolTypes, Locked, InUse
<1>9. AsideInv'
  <2>1. \A d \in Chunks \ {c} :
          pooled'[d] = pooled[d] /\ era'[d] = era[d] /\ offset'[d] = offset[d]
    BY <1>1 DEF PoolTypes
  <2>2. InUse(current)' BY <1>4, <2>1 DEF AsideInv, InUse, PoolTypes
  <2>3. \A q \in Clients : oldChunk'[q] # NoChunk <=> pc'[q] \in {"fill", "put"}
    BY DEF AsideInv, PoolTypes
  <2>4. \A q, r \in Clients : oldChunk'[q] = oldChunk'[r] /\ oldChunk'[q] # NoChunk => q = r
    BY DEF AsideInv
  <2>5. \A q \in Clients :
          oldChunk'[q] # NoChunk => /\ offset'[oldChunk'[q]] > Half
                                    /\ pooled'[oldChunk'[q]] = 0 /\ era'[oldChunk'[q]] > 0
    BY <1>5, <2>1 DEF AsideInv, PoolTypes
  <2>6. \A d \in Chunks : pooled'[d] > 0 => pooled'[d] = 1 /\ offset'[d] > Half /\ era'[d] > 0
    BY <1>6, <2>1 DEF AsideInv
  <2> QED BY <2>2, <2>3, <2>4, <2>5, <2>6 DEF AsideInv
<1>10. SlicesInv'
  <2>1. ASSUME NEW s \in slices'
        PROVE  s \in slices /\ s.chunk # c /\ offset'[s.chunk] = offset[s.chunk]
    BY <1>1, <2>1 DEF SlicesInv, PoolTypes
  <2> QED BY <2>1 DEF SlicesInv, SlicesDisjoint
<1> QED BY <1>7, <1>8, <1>9, <1>10

LEMMA PublishStep ==
  ASSUME PoolInv, NEW p \in Clients, Publish(p)
  PROVE  PoolInv'
<1> USE Sizing DEF PoolInv, Publish
<1>1. arena[p] \in Chunks /\ arena[p] # current /\ InUse(arena[p])
      /\ offset[current] > Half /\ lock = p
  BY DEF PoolTypes, Cutting, LockInv, Locked
<1>2. \A q \in Clients \ {p} : pc[q] \notin Locked BY <1>1 DEF LockInv
<1>3. PoolTypes' BY <1>1 DEF PoolTypes, Locations, Cutting
<1>4. LockInv' BY <1>1, <1>2 DEF LockInv, PoolTypes, Locked
<1>5. AsideInv'
  <2>1. InUse(current) BY DEF AsideInv
  <2>2. InUse(current)' BY <1>1 DEF InUse, PoolTypes
  <2> QED BY <1>1, <2>1, <2>2 DEF AsideInv, PoolTypes, InUse
<1>6. SlicesInv' BY NoCut
<1> QED BY <1>3, <1>4, <1>5, <1>6

LEMMA AllocFirstStep ==
  ASSUME PoolInv, NEW p \in Clients, AllocFirst(p)
  PROVE  PoolInv'
<1> USE Sizing DEF PoolInv, AllocFirst
<1>1. arena[p] \in Chunks /\ lock = p
  BY DEF PoolTypes, Cutting, LockInv, Locked
<1>2. \A q \in Clients \ {p} : pc[q] \notin Locked BY <1>1 DEF LockInv
<1>3. SlicesInv' /\ offset' \in [Chunks -> Nat] /\ \A c \in Chunks : offset'[c] >= offset[c]
  <2>1. CASE Cut(p) BY <1>1, <2>1, CutStep
  <2>2. CASE UNCHANGED <<offset, slices>> BY <2>2, NoCut DEF PoolTypes
  <2> QED BY <2>1, <2>2
<1>4. PoolTypes' BY <1>3 DEF PoolTypes, Locations, Cutting
<1>5. LockInv' BY <1>2 DEF LockInv, PoolTypes, Locked, InUse
<1>6. AsideInv' BY <1>3 DEF AsideInv, PoolTypes, InUse
<1> QED BY <1>3, <1>4, <1>5, <1>6

LEMMA PutChunkStep ==
  ASSUME PoolInv, NEW p \in Clients, PutChunk(p)
  PROVE  PoolInv'
<1> USE Sizing DEF PoolInv, PutChunk, Return
<1> DEFINE c == oldChunk[p]
<1>1. /\ c \in Chunks /\ c # current /\ pooled[c] = 0 /\ offset[c] > Half /\ era[c] > 0
      /\ \A q \in Clients \ {p} : oldChunk[q] # c
  BY DEF AsideInv, PoolTypes, InUse
<1>2. pooled' = [pooled EXCEPT ![c] = 1] BY <1>1 DEF PoolTypes
<1> HIDE DEF c
<1>3. PoolTypes' BY <1>1, <1>2, Zero DEF PoolTypes, Locations, Cutting
<1>4. LockInv'
  <2>1. \A q \in Clients : pc[q] = "publish" => arena[q] # c
    BY DEF LockInv, InUse, c
  <2>2. ASSUME NEW q \in Clients, pc[q] = "publish"
        PROVE  arena'[q] = arena[q] /\ InUse(arena[q])'
    <3>1. arena[q] \in Chunks /\ InUse(arena[q]) /\ arena[q] # c
      BY <2>1, <2>2 DEF LockInv, PoolTypes, Cutting
    <3>2. arena'[q] = arena[q] /\ pc[p] = "put" /\ q # p BY <2>2 DEF PoolTypes
    <3> QED BY <1>1, <1>2, <3>1, <3>2 DEF PoolTypes, InUse
  <2>3. \A q \in Clients :
          q # p => pc'[q] = pc[q] /\ arena'[q] = arena[q]
    BY DEF PoolTypes
  <2>4. pc'[p] = "idle" /\ pc[p] = "put" BY DEF PoolTypes
  <2> QED BY <2>2, <2>3, <2>4 DEF LockInv, Locked
<1>5. AsideInv'
  <2>1. InUse(current)' BY <1>1, <1>2 DEF AsideInv, InUse, PoolTypes
  <2>2. \A q \in Clients : oldChunk'[q] # NoChunk <=> pc'[q] \in {"fill", "put"}
    BY DEF AsideInv, PoolTypes
  <2>3. \A q, r \in Clients : oldChunk'[q] = oldChunk'[r] /\ oldChunk'[q] # NoChunk => q = r
    BY DEF AsideInv, PoolTypes
  <2>4. \A q \in Clients :
          oldChunk'[q] # NoChunk => /\ offset'[oldChunk'[q]] > Half
                                    /\ pooled'[oldChunk'[q]] = 0 /\ era'[oldChunk'[q]] > 0
    <3>1. \A q \in Clients : oldChunk'[q] # NoChunk => oldChunk'[q] = oldChunk[q] /\ oldChunk[q] # c
      BY <1>1 DEF PoolTypes
    <3>2. \A d \in Chunks \ {c} : pooled'[d] = pooled[d] BY <1>2 DEF PoolTypes
    <3> QED BY <3>1, <3>2 DEF AsideInv, PoolTypes
  <2>5. \A d \in Chunks : pooled'[d] > 0 => pooled'[d] = 1 /\ offset'[d] > Half /\ era'[d] > 0
    BY <1>1, <1>2 DEF AsideInv, PoolTypes
  <2> QED BY <2>1, <2>2, <2>3, <2>4, <2>5 DEF AsideInv
<1>6. SlicesInv' BY NoCut
<1> QED BY <1>3, <1>4, <1>5, <1>6

LEMMA PoolInit == Init => PoolInv
<1> SUFFICES ASSUME Init PROVE PoolInv
  OBVIOUS
<1> USE Sizing DEF Init
<1>1. PoolTypes BY Zero DEF PoolTypes, Locations, Cutting
<1>2. SlicesInv BY DEF SlicesInv, SlicesDisjoint
<1>3. LockInv BY DEF LockInv, Locked
<1>4. AsideInv BY DEF AsideInv, InUse
<1> QED BY <1>1, <1>2, <1>3, <1>4 DEF PoolInv

LEMMA PoolStep == PoolInv /\ [Next]_vars => PoolInv'
<1> SUFFICES ASSUME PoolInv, [Next]_vars PROVE PoolInv'
  OBVIOUS
<1>1. CASE UNCHANGED <<current, offset, pooled, era, lock, callVars, slices>>
  BY <1>1 DEF callVars, PoolInv, PoolTypes, SlicesInv, SlicesDisjoint, LockInv, AsideInv, InUse
<1>2. CASE BuildBus BY <1>1, <1>2 DEF BuildBus
<1>3. CASE UNCHANGED vars BY <1>1, <1>3 DEF vars
<1>4. ASSUME NEW p \in Clients, Client(p) PROVE PoolInv'
  BY <1>4, AllocDataStep, AllocStep, LockStep, AllocAgainStep, TakeChunkStep, PublishStep,
     AllocFirstStep, PutChunkStep DEF Client
<1> QED BY <1>2, <1>3, <1>4 DEF Next

(* No byte of a chunk is handed out twice while the chunk is in use, for   *)
(* any number of clients in any part of the exchange (pool.go 25-37).      *)
THEOREM BytesApart == Spec => []SlicesDisjoint
<1>1. PoolInv => SlicesDisjoint BY DEF PoolInv, SlicesInv
<1> QED BY <1>1, PoolInit, PoolStep, PTL DEF Spec

(* A chunk is put aside once, used, and not current (pool.go 95-107).      *)
THEOREM PutAsideOnce == Spec => []RetiredChunksAreUsed
<1>1. PoolInv => RetiredChunksAreUsed
  <2> SUFFICES ASSUME PoolInv, NEW c \in Chunks, pooled[c] > 0 \/ Retiring(c) # {}
               PROVE  /\ offset[c] > Half /\ c # current
                      /\ pooled[c] + Cardinality(Retiring(c)) = 1
    BY DEF RetiredChunksAreUsed
  <2> USE Sizing DEF PoolInv, PoolTypes, AsideInv, InUse
  <2>1. CASE Retiring(c) = {}
    BY <2>1, FS_EmptySet
  <2>2. CASE Retiring(c) # {}
    <3>1. PICK p \in Clients : oldChunk[p] = c BY <2>2 DEF Retiring
    <3>2. Retiring(c) = {p} BY <3>1 DEF Retiring
    <3>3. Cardinality(Retiring(c)) = 1 BY <3>2, FS_Singleton
    <3> QED BY <3>1, <3>3
  <2> QED BY <2>1, <2>2
<1> QED BY <1>1, PoolInit, PoolStep, PTL DEF Spec
-----------------------------------------------------------------------------
(***************************************************************************)
(* The slices of a chunk, together, are what lies below its offset.        *)
(***************************************************************************)
Length(s) == s.to - s.from
Bytes(S) == MapThenSumSet(LAMBDA s : s.to - s.from, S)

LEMMA BytesAreSum ==
  ASSUME NEW S, IsFiniteSet(S)
  PROVE  Bytes(S) = SumOver(S, [s \in S |-> Length(s)])
<1> DEFINE f == [s \in S |-> Length(s)]
           Body(it) ==
             [s \in SUBSET S |-> IF s = {} THEN 0
                                 ELSE Length(CHOOSE x \in s : TRUE) + it[s \ {CHOOSE x \in s : TRUE}]]
           w == CHOOSE it : it = Body(it)
           n == Cardinality(S)
<1>1. Bytes(S) = w[S] BY DEF Bytes, MapThenSumSet, MapThenFoldSet, Length
<1>2. PICK g : Sums(g, f, S, n) /\ SumOver(S, f) = g[S] BY SumOverSums
<1>3. n \in Nat /\ \A s \in SUBSET S : Cardinality(s) <= n BY FS_Subset, FS_CardinalityType
<1>4. \A x \in S : f[x] = Length(x) OBVIOUS
<1> HIDE DEF f
<1>5. \A s \in SUBSET S : g[s] = IF s = {} THEN 0 ELSE Length(One(s)) + g[s \ {One(s)}]
  <2>1. \A s \in SUBSET S : s # {} => One(s) \in S BY OneOf
  <2> QED BY <1>2, <1>3, <1>4, <2>1 DEF Sums
<1>6. \E it : it = Body(it)
  <2>1. g = [s \in SUBSET S |-> g[s]] BY <1>2 DEF Sums
  <2>2. g = [s \in SUBSET S |-> IF s = {} THEN 0 ELSE Length(One(s)) + g[s \ {One(s)}]]
    BY <1>5, <2>1, Zenon
  <2> QED BY <2>2, Zenon DEF One
<1>7. w = Body(w) BY <1>6, Zenon
<1> HIDE DEF w, n
<1>8. \A s \in SUBSET S : w[s] = IF s = {} THEN 0 ELSE Length(One(s)) + w[s \ {One(s)}]
  BY <1>7 DEF One
<1>9. w = [s \in SUBSET S |-> w[s]] BY <1>7
<1>10. Sums(w, f, S, n)
  <2>1. \A s \in SUBSET S : s # {} => One(s) \in S BY OneOf
  <2> QED BY <1>4, <1>8, <1>9, <2>1 DEF Sums
<1>11. g[S] = w[S] BY <1>2, <1>10, SameSums DEF n
<1> QED BY <1>1, <1>2, <1>11 DEF f

LEMMA NoBytes == Bytes({}) = 0
<1> SUFFICES ASSUME NEW S, S = {} PROVE Bytes(S) = 0
  OBVIOUS
<1>1. IsFiniteSet(S) BY FS_EmptySet
<1> QED BY <1>1, BytesAreSum, SumOfNone

LEMMA MoreBytes ==
  ASSUME NEW S, IsFiniteSet(S), NEW y, y \notin S, \A x \in S \cup {y} : Length(x) \in Int
  PROVE  Bytes(S) \in Int /\ Bytes(S \cup {y}) = Bytes(S) + Length(y)
<1> DEFINE R == S \cup {y}
           f == [s \in S |-> Length(s)]
           g == [s \in R |-> Length(s)]
<1>1. IsFiniteSet(R) BY FS_AddElement
<1>2. \A x \in S : f[x] = g[x] OBVIOUS
<1>3. g[y] = Length(y) /\ \A x \in R : g[x] \in Int OBVIOUS
<1>4. Bytes(S) = SumOver(S, f) BY BytesAreSum
<1>5. Bytes(R) = SumOver(R, g) BY <1>1, BytesAreSum
<1> HIDE DEF f, g
<1>6. SumOver(S, f) = SumOver(S, g) BY <1>2, SumOfSame
<1>7. SumOver(S, g) \in Int /\ SumOver(R, g) = SumOver(S, g) + g[y] BY <1>3, SumWith
<1> QED BY <1>3, <1>4, <1>5, <1>6, <1>7
SlicesOf(c) == {s \in slices : s.chunk = c}
SumInv ==
  \A c \in Chunks : \A S : S = SlicesOf(c) => IsFiniteSet(S) /\ Bytes(S) = offset[c]

LEMMA CutKeepsSum ==
  ASSUME PoolTypes, SlicesInv, SumInv, NEW p \in Clients, arena[p] \in Chunks, Cut(p)
  PROVE  SumInv'
<1>0. PICK c, to, new :
        /\ c \in Chunks /\ c = arena[p] /\ to = offset[c] + Aligned(size[p])
        /\ new = [chunk |-> c, from |-> offset[c], to |-> to]
  OBVIOUS
<1>1. /\ c \in Chunks /\ offset[c] \in Nat /\ Aligned(size[p]) \in Nat
      /\ to = offset[c] + Aligned(size[p])
  BY <1>0, Sizing DEF PoolTypes
<1>2. offset' = [offset EXCEPT ![c] = to] /\ slices' = slices \cup {new}
  BY <1>0 DEF Cut
<1>3. new.chunk = c /\ new.from = offset[c] /\ new.to = to
  BY <1>0
<1>4. ASSUME NEW d \in Chunks, d # c
      PROVE  IsFiniteSet(SlicesOf(d)') /\ Bytes(SlicesOf(d)') = offset'[d]
  <2>1. SlicesOf(d)' = SlicesOf(d) BY <1>2, <1>3, <1>4 DEF SlicesOf
  <2>2. offset'[d] = offset[d] BY <1>1, <1>2, <1>4 DEF PoolTypes
  <2> QED BY <2>1, <2>2 DEF SumInv
<1>5. IsFiniteSet(SlicesOf(c)) /\ Bytes(SlicesOf(c)) = offset[c] BY <1>1 DEF SumInv
<1>6. \A s \in SlicesOf(c) : s.from \in Nat /\ s.to \in Nat /\ s.to <= offset[c]
  BY DEF SlicesInv, SlicesOf
<1>7. SlicesOf(c)' = SlicesOf(c) \cup {new}
  <2>1. SlicesOf(c) = {s \in slices : s.chunk = c} BY DEF SlicesOf
  <2>2. SlicesOf(c)' = {s \in slices' : s.chunk = c} BY DEF SlicesOf
  <2> QED BY <1>2, <1>3, <2>1, <2>2
<1>8. offset'[c] = to BY <1>1, <1>2 DEF PoolTypes
<1>9. IsFiniteSet(SlicesOf(c)') /\ Bytes(SlicesOf(c)') = offset'[c]
  <2>1. CASE new \in SlicesOf(c)
    <3>1. to <= offset[c] BY <1>3, <1>6, <2>1
    <3>2. to = offset[c] BY <1>1, <3>1
    <3>3. SlicesOf(c)' = SlicesOf(c) BY <1>7, <2>1
    <3> QED BY <1>5, <1>8, <3>2, <3>3
  <2>2. CASE new \notin SlicesOf(c)
    <3>1. Length(new) = Aligned(size[p]) BY <1>1, <1>3 DEF Length
    <3>2. \A s \in SlicesOf(c) \cup {new} : Length(s) \in Int
      BY <1>1, <1>6, <3>1 DEF Length
    <3>3. Bytes(SlicesOf(c) \cup {new}) = Bytes(SlicesOf(c)) + Length(new)
      BY <1>5, <2>2, <3>2, MoreBytes
    <3>4. IsFiniteSet(SlicesOf(c) \cup {new}) BY <1>5, FS_AddElement
    <3> QED BY <1>1, <1>5, <1>7, <1>8, <3>1, <3>3, <3>4
  <2> QED BY <2>1, <2>2
<1> QED BY <1>4, <1>9 DEF SumInv

LEMMA TakeChunkKeepsSum ==
  ASSUME PoolTypes, SumInv, NEW p \in Clients, TakeChunk(p)
  PROVE  SumInv'
<1>1. PICK c \in Chunks :
        offset' = [offset EXCEPT ![c] = 0] /\ slices' = {s \in slices : s.chunk # c}
  BY DEF TakeChunk, Gettable
<1>2. ASSUME NEW d \in Chunks
      PROVE  IsFiniteSet(SlicesOf(d)') /\ Bytes(SlicesOf(d)') = offset'[d]
  <2>1. CASE d = c
    <3>1. SlicesOf(d)' = {} BY <1>1, <2>1 DEF SlicesOf
    <3>2. offset'[d] = 0 BY <1>1, <2>1 DEF PoolTypes
    <3> QED BY <3>1, <3>2, NoBytes, FS_EmptySet
  <2>2. CASE d # c
    <3>1. SlicesOf(d)' = SlicesOf(d) BY <1>1, <2>2 DEF SlicesOf
    <3>2. offset'[d] = offset[d] BY <1>1, <2>2 DEF PoolTypes
    <3> QED BY <3>1, <3>2 DEF SumInv
  <2> QED BY <2>1, <2>2
<1> QED BY <1>2 DEF SumInv

LEMMA SumInit == Init => SumInv
<1> SUFFICES ASSUME Init, NEW c \in Chunks
             PROVE  IsFiniteSet(SlicesOf(c)) /\ Bytes(SlicesOf(c)) = offset[c]
  BY DEF SumInv
<1>1. SlicesOf(c) = {} /\ offset[c] = 0 BY DEF Init, SlicesOf
<1> QED BY <1>1, NoBytes, FS_EmptySet

LEMMA SumStep == PoolInv /\ SumInv /\ [Next]_vars => SumInv'
<1> SUFFICES ASSUME PoolInv, SumInv, [Next]_vars PROVE SumInv'
  OBVIOUS
<1> USE DEF PoolInv
<1>1. CASE UNCHANGED <<offset, slices>> BY <1>1 DEF SumInv, SlicesOf
<1>2. ASSUME NEW p \in Clients, Cut(p), pc[p] \in Cutting PROVE SumInv'
  BY <1>2, CutKeepsSum DEF PoolTypes
<1>3. ASSUME NEW p \in Clients, Client(p) PROVE SumInv'
  <2>1. CASE \E n \in Sizes : AllocData(p, n) BY <1>1, <2>1 DEF AllocData
  <2>2. CASE Alloc(p) BY <1>1, <1>2, <2>2 DEF Alloc, Cutting
  <2>3. CASE Lock(p) BY <1>1, <2>3 DEF Lock
  <2>4. CASE AllocAgain(p) BY <1>1, <1>2, <2>4 DEF AllocAgain, Cutting
  <2>5. CASE TakeChunk(p) BY <2>5, TakeChunkKeepsSum
  <2>6. CASE Publish(p) BY <1>1, <2>6 DEF Publish
  <2>7. CASE AllocFirst(p) BY <1>1, <1>2, <2>7 DEF AllocFirst, Cutting
  <2>8. CASE PutChunk(p) BY <1>1, <2>8 DEF PutChunk
  <2> QED BY <1>3, <2>1, <2>2, <2>3, <2>4, <2>5, <2>6, <2>7, <2>8 DEF Client
<1>4. CASE BuildBus BY <1>1, <1>4 DEF BuildBus
<1>5. CASE UNCHANGED vars BY <1>1, <1>5 DEF vars
<1> QED BY <1>3, <1>4, <1>5 DEF Next

(* AllocData answers nil only to a client whose new chunk others filled    *)
(* before it cut its own slice (pool.go 104-105).                          *)
THEOREM NilIsOvertaken == Spec => []NilOnlyWhenOvertaken
<1>1. PoolInv /\ SumInv => NilOnlyWhenOvertaken
  <2> SUFFICES ASSUME PoolInv, SumInv, NEW p \in Clients, pc[p] = "fill", ~Fits(p)
               PROVE  Bytes(SlicesOf(arena[p])) + Aligned(size[p]) > ChunkSize
    BY DEF NilOnlyWhenOvertaken, Bytes, SlicesOf
  <2>1. arena[p] \in Chunks /\ offset[arena[p]] \in Nat /\ Aligned(size[p]) \in Nat
    BY Sizing DEF PoolInv, PoolTypes, Cutting
  <2>2. Bytes(SlicesOf(arena[p])) = offset[arena[p]] BY <2>1 DEF SumInv
  <2>3. ChunkSize \in Nat BY PoolAssumption
  <2> QED BY <2>1, <2>2, <2>3 DEF Fits
<1> QED BY <1>1, PoolInit, PoolStep, SumInit, SumStep, PTL DEF Spec
-----------------------------------------------------------------------------
(***************************************************************************)
(* The powers of two: the recursion that defines them has a solution, and  *)
(* the loops that double find the least that is large enough.              *)
(***************************************************************************)
DoubledUpTo(g, n) == \A k \in 0 .. n : g[k] = IF k = 0 THEN 1 ELSE 2 * g[k - 1]

LEMMA DoubledUpToExists ==
  ASSUME NEW n \in Nat
  PROVE  \E g \in [Nat -> Nat] : DoubledUpTo(g, n)
<1> DEFINE T == {m \in Nat : \E g \in [Nat -> Nat] : DoubledUpTo(g, m)}
<1>1. 0 \in T
  <2> DEFINE z == [k \in Nat |-> 1]
  <2>1. z \in [Nat -> Nat] /\ z[0] = 1 OBVIOUS
  <2> HIDE DEF z
  <2>2. DoubledUpTo(z, 0) BY <2>1 DEF DoubledUpTo
  <2> QED BY <2>1, <2>2
<1>2. ASSUME NEW m \in Nat, m \in T PROVE m + 1 \in T
  <2>1. PICK g \in [Nat -> Nat] : DoubledUpTo(g, m) BY <1>2
  <2> DEFINE h == [g EXCEPT ![m + 1] = 2 * g[m]]
  <2>2. h \in [Nat -> Nat] /\ h[m + 1] = 2 * g[m] /\ \A k \in Nat : k # m + 1 => h[k] = g[k]
    <3>1. g[m] \in Nat /\ 2 * g[m] \in Nat /\ m + 1 \in Nat OBVIOUS
    <3> QED BY <3>1
  <2> HIDE DEF h
  <2>3. ASSUME NEW k \in 0 .. m + 1 PROVE h[k] = IF k = 0 THEN 1 ELSE 2 * h[k - 1]
    <3>1. CASE k = m + 1
      <4>1. h[m] = g[m] /\ k # 0 /\ k - 1 = m BY <2>2, <3>1
      <4> QED BY <2>2, <3>1, <4>1
    <3>2. CASE k # m + 1
      <4>1. k \in 0 .. m /\ k \in Nat /\ k # m + 1 BY <3>2
      <4>2. g[k] = IF k = 0 THEN 1 ELSE 2 * g[k - 1] BY <2>1, <4>1 DEF DoubledUpTo
      <4>3. CASE k = 0 BY <2>2, <4>1, <4>2, <4>3
      <4>4. CASE k # 0
        <5>1. k - 1 \in Nat /\ k - 1 # m + 1 BY <4>1, <4>4
        <5> QED BY <2>2, <4>1, <4>2, <4>4, <5>1
      <4> QED BY <4>3, <4>4
    <3> QED BY <3>1, <3>2
  <2>4. DoubledUpTo(h, m + 1) BY <2>3 DEF DoubledUpTo
  <2> QED BY <2>2, <2>4
<1>3. n \in T
  <2> HIDE DEF T
  <2> QED BY <1>1, <1>2, InductionOverNat
<1> QED BY <1>3

LEMMA DoubledUpToAgree ==
  ASSUME NEW g, NEW h, NEW n \in Nat, NEW m \in Nat, DoubledUpTo(g, n), DoubledUpTo(h, m)
  PROVE  \A k \in Nat : k <= n /\ k <= m => g[k] = h[k]
<1> DEFINE T == {k \in Nat : k <= n /\ k <= m => g[k] = h[k]}
<1>1. 0 \in T BY DEF DoubledUpTo
<1>2. ASSUME NEW k \in Nat, k \in T PROVE k + 1 \in T
  <2>1. SUFFICES ASSUME k + 1 <= n, k + 1 <= m PROVE g[k + 1] = h[k + 1] OBVIOUS
  <2>2. g[k] = h[k] BY <1>2, <2>1
  <2>3. k + 1 \in 0 .. n /\ k + 1 \in 0 .. m /\ k + 1 # 0 /\ (k + 1) - 1 = k BY <2>1
  <2>4. g[k + 1] = 2 * g[k] BY <2>3 DEF DoubledUpTo
  <2>5. h[k + 1] = 2 * h[k] BY <2>3 DEF DoubledUpTo
  <2> QED BY <2>2, <2>4, <2>5
<1>3. Nat \subseteq T
  <2> HIDE DEF T
  <2> QED BY <1>1, <1>2, InductionOverNat
<1> QED BY <1>3

LEMMA DoubledIs ==
  /\ Doubled \in [Nat -> Nat]
  /\ Doubled[0] = 1
  /\ \A k \in Nat : Doubled[k + 1] = 2 * Doubled[k]
<1> DEFINE Up(n) == CHOOSE g \in [Nat -> Nat] : DoubledUpTo(g, n)
           F == [k \in Nat |-> Up(k)[k]]
<1>1. \A n \in Nat : Up(n) \in [Nat -> Nat] /\ DoubledUpTo(Up(n), n) BY DoubledUpToExists
<1> HIDE DEF Up
<1>2. ASSUME NEW k \in Nat PROVE F[k] = IF k = 0 THEN 1 ELSE 2 * F[k - 1]
  <2>1. Up(k)[k] = IF k = 0 THEN 1 ELSE 2 * Up(k)[k - 1]
    BY <1>1 DEF DoubledUpTo
  <2>2. CASE k = 0 BY <2>1, <2>2
  <2>3. CASE k # 0
    <3>1. k - 1 \in Nat /\ k - 1 <= k BY <2>3
    <3>2. Up(k)[k - 1] = Up(k - 1)[k - 1] BY <1>1, <3>1, DoubledUpToAgree
    <3> QED BY <2>1, <2>3, <3>1, <3>2
  <2> QED BY <2>2, <2>3
<1>3. F = [k \in Nat |-> IF k = 0 THEN 1 ELSE 2 * F[k - 1]]
  <2>1. F = [k \in Nat |-> F[k]] OBVIOUS
  <2> HIDE DEF F
  <2> QED BY <1>2, <2>1
<1>4. Doubled = [k \in Nat |-> IF k = 0 THEN 1 ELSE 2 * Doubled[k - 1]]
  <2> HIDE DEF F
  <2> QED BY <1>3 DEF Doubled
<1>5. Doubled[0] = 1 /\ \A k \in Nat : Doubled[k + 1] = 2 * Doubled[k]
  <2>1. \A k \in Nat : Doubled[k] = IF k = 0 THEN 1 ELSE 2 * Doubled[k - 1] BY <1>4
  <2>2. \A k \in Nat : k + 1 \in Nat /\ k + 1 # 0 /\ (k + 1) - 1 = k OBVIOUS
  <2>3. Doubled[0] = 1 BY <2>1
  <2>4. \A k \in Nat : Doubled[k + 1] = 2 * Doubled[k]
    <3> TAKE k \in Nat
    <3>1. Doubled[k + 1] = 2 * Doubled[(k + 1) - 1] BY <2>1, <2>2
    <3> QED BY <2>2, <3>1
  <2> QED BY <2>3, <2>4
<1>6. \A k \in Nat : Doubled[k] \in Nat
  <2> DEFINE T == {k \in Nat : Doubled[k] \in Nat}
  <2>1. 0 \in T BY <1>5
  <2>2. ASSUME NEW k \in Nat, k \in T PROVE k + 1 \in T
    <3>1. Doubled[k] \in Nat BY <2>2
    <3>2. Doubled[k + 1] = 2 * Doubled[k] BY <1>5
    <3> QED BY <3>1, <3>2
  <2>3. Nat \subseteq T
    <3> HIDE DEF T
    <3> QED BY <2>1, <2>2, InductionOverNat
  <2> QED BY <2>3
<1>7. Doubled = [k \in Nat |-> Doubled[k]] BY <1>4
<1> QED BY <1>5, <1>6, <1>7

LEMMA DoubledGrows == \A k \in Nat : Doubled[k] \in Nat /\ Doubled[k] > k
<1> DEFINE T == {k \in Nat : Doubled[k] > k}
<1>1. 0 \in T BY DoubledIs
<1>2. ASSUME NEW k \in Nat, k \in T PROVE k + 1 \in T
  <2>1. Doubled[k] \in Nat /\ Doubled[k] > k BY <1>2, DoubledIs
  <2>2. Doubled[k + 1] = 2 * Doubled[k] BY DoubledIs
  <2> QED BY <2>1, <2>2
<1>3. Nat \subseteq T
  <2> HIDE DEF T
  <2> QED BY <1>1, <1>2, InductionOverNat
<1> QED BY <1>3, DoubledIs

LEMMA DoubledIsPower == \A k \in Nat : PowerOfTwo(Doubled[k])
<1> TAKE k \in Nat
<1>1. k \in 0 .. Doubled[k] BY DoubledGrows
<1> QED BY <1>1 DEF PowerOfTwo

LEMMA RoundUpIs ==
  ASSUME NEW n \in Int
  PROVE  RoundUp(n) \in Nat /\ RoundUp(n) >= n /\ PowerOfTwo(RoundUp(n))
<1> DEFINE N == AtLeastOne(n)
           Fit == {k \in 0 .. N : Doubled[k] >= n}
<1>1. N \in Nat /\ N >= n BY DEF AtLeastOne
<1> HIDE DEF N
<1>2. N \in Fit BY <1>1, DoubledGrows
<1>3. PICK k \in Fit : \A j \in Fit : <<j, k>> \notin Less
  <2>1. IsWellFoundedOn(Less, Nat) BY NatLessThanWellFounded DEF OpToRel, Less
  <2>2. Fit # {} /\ Fit \subseteq Nat BY <1>1, <1>2
  <2> HIDE DEF Fit
  <2> QED BY <2>1, <2>2, WFMin
<1>4. k \in 0 .. N /\ Doubled[k] >= n /\ \A j \in 0 .. k - 1 : Doubled[j] < n
  <2>1. k \in 0 .. N /\ Doubled[k] >= n OBVIOUS
  <2>2. ASSUME NEW j \in 0 .. k - 1 PROVE Doubled[j] < n
    <3>1. j \in Nat /\ k \in Nat /\ j < k /\ j \in 0 .. N BY <1>1, <2>1
    <3>2. <<j, k>> \in Less BY <3>1 DEF Less
    <3>3. ~(Doubled[j] >= n) BY <1>3, <3>1, <3>2
    <3> QED BY <3>1, <3>3, DoubledGrows
  <2> QED BY <2>1, <2>2
<1> DEFINE c == CHOOSE i \in 0 .. N : Doubled[i] >= n /\ \A j \in 0 .. i - 1 : Doubled[j] < n
<1>5. c \in 0 .. N /\ Doubled[c] >= n BY <1>4
<1>6. RoundUp(n) = Doubled[c] BY DEF RoundUp, N
<1> HIDE DEF c
<1>7. c \in Nat BY <1>1, <1>5
<1> QED BY <1>5, <1>6, <1>7, DoubledGrows, DoubledIsPower

LEMMA EightThousand == PowerOfTwo(8192)
<1>1. \A k \in Nat : Doubled[k + 1] = 2 * Doubled[k] BY DoubledIs
<1>2. Doubled[4] = 16
  <2>1. Doubled[0 + 1] = 2 BY <1>1, DoubledIs
  <2>2. Doubled[1 + 1] = 4 BY <1>1, <2>1
  <2>3. Doubled[2 + 1] = 8 BY <1>1, <2>2
  <2> QED BY <1>1, <2>3
<1>3. Doubled[8] = 256
  <2>1. Doubled[4 + 1] = 32 BY <1>1, <1>2
  <2>2. Doubled[5 + 1] = 64 BY <1>1, <2>1
  <2>3. Doubled[6 + 1] = 128 BY <1>1, <2>2
  <2> QED BY <1>1, <2>3
<1>4. Doubled[12] = 4096
  <2>1. Doubled[8 + 1] = 512 BY <1>1, <1>3
  <2>2. Doubled[9 + 1] = 1024 BY <1>1, <2>1
  <2>3. Doubled[10 + 1] = 2048 BY <1>1, <2>2
  <2> QED BY <1>1, <2>3
<1>5. Doubled[13] = 8192 BY <1>1, <1>4
<1> QED BY <1>5, DoubledIsPower

(* What a profile has to give to Advise and the constructors.              *)
IsProfile(p) ==
  /\ p.arena \in BOOLEAN
  /\ p.conc \in Int /\ p.tps \in Int /\ p.cores \in Int /\ p.timeout \in Int

LEMMA QuotientIsInt ==
  ASSUME NEW x \in Int PROVE Quotient(x, 2) \in Int /\ Quotient(x, 50) \in Int
BY DEF Quotient

LEMMA FlowRuns ==
  ASSUME NEW b, NEW adv, adv.batchsz \in Int, adv.timeout \in Nat, NEW n \in Int,
         b = NewFlow(adv, n)
  PROVE  Runnable(b)
<1> DEFINE batch == IF adv.batchsz <= 0 THEN 100 ELSE adv.batchsz
           least == IF n < 2 THEN 2 ELSE n
<1>1. batch \in Int /\ batch >= 1 /\ batch * 4 \in Int /\ batch * 4 >= batch OBVIOUS
<1>2. least \in Int OBVIOUS
<1>3. /\ b.impl = "flow" /\ b.batchSz = batch /\ b.shards = RoundUp(least)
      /\ b.ringSize = RoundUp(batch * 4)
      /\ b.timeout = IF adv.timeout = 0 THEN 100 ELSE adv.timeout
  BY DEF NewFlow
<1> HIDE DEF batch, least
<1>4. RoundUp(batch * 4) \in Nat /\ RoundUp(batch * 4) >= batch * 4 /\ PowerOfTwo(RoundUp(batch * 4))
  BY <1>1, RoundUpIs
<1>5. PowerOfTwo(RoundUp(least)) BY <1>2, RoundUpIs
<1>6. batch \in 1 .. RoundUp(batch * 4) BY <1>1, <1>4
<1>7. b.timeout > 0 BY <1>3
<1> QED BY <1>3, <1>4, <1>5, <1>6, <1>7 DEF Runnable

LEMMA AsyncRuns ==
  ASSUME NEW b, NEW adv, adv.workers \in Int, adv.workers >= 1, adv.ringSize = 8192,
         NEW n \in Int, b = NewAsync(adv, n)
  PROVE  Runnable(b)
<1>1. /\ b.impl = "async" /\ b.workers = adv.workers /\ b.rings = RoundUp(n)
      /\ b.ringSize = 8192
  BY DEF NewAsync
<1>2. PowerOfTwo(RoundUp(n)) BY RoundUpIs
<1> QED BY <1>1, <1>2, EightThousand DEF Runnable

LEMMA AdviseIs ==
  ASSUME NEW p, IsProfile(p), NEW adv, adv = Advise(p)
  PROVE  /\ adv.impl \in {"sync", "async", "flow"}
         /\ adv.batchsz \in Int /\ adv.timeout \in Nat
         /\ adv.impl = "async" => /\ adv.workers \in Int /\ adv.workers >= 1
                                  /\ adv.ringSize = 8192
         /\ adv.arena \in BOOLEAN
<1> DEFINE async == \/ p.name = "async"
                    \/ /\ p.name \notin {"sync", "flow"}
                       /\ p.tps > 50000 \/ p.lat = "ultra_low" \/ p.cores >= 4
           flow == p.name = "flow"
<1>1. /\ adv.impl = IF async THEN "async" ELSE IF flow THEN "flow" ELSE "sync"
      /\ adv.workers = IF async THEN AtLeastOne(Quotient(p.cores, 2)) ELSE 0
      /\ adv.ringSize = IF async THEN 8192 ELSE 0
      /\ adv.batchsz = IF flow THEN 200 + Quotient(p.conc, 50) ELSE 0
      /\ adv.timeout = IF flow /\ p.timeout > 0 THEN p.timeout ELSE 0
      /\ adv.arena = p.arena
  BY DEF Advise
<1> HIDE DEF async, flow
<1>2. Quotient(p.cores, 2) \in Int /\ Quotient(p.conc, 50) \in Int
  BY QuotientIsInt DEF IsProfile
<1>3. AtLeastOne(Quotient(p.cores, 2)) \in Int /\ AtLeastOne(Quotient(p.cores, 2)) >= 1
  BY <1>2 DEF AtLeastOne
<1>4. adv.impl \in {"sync", "async", "flow"} BY <1>1
<1>5. adv.batchsz \in Int BY <1>1, <1>2
<1>6. adv.timeout \in Nat BY <1>1 DEF IsProfile
<1>7. ASSUME adv.impl = "async"
      PROVE  adv.workers \in Int /\ adv.workers >= 1 /\ adv.ringSize = 8192
  <2>1. async BY <1>1, <1>7
  <2> QED BY <1>1, <1>3, <2>1
<1> QED BY <1>1, <1>4, <1>5, <1>6, <1>7 DEF IsProfile

LEMMA OptionRuns ==
  ASSUME NEW p, IsProfile(p), NEW n \in Int
  PROVE  Runnable(Option(p, n)) /\ Option(p, n).arena \in BOOLEAN
<1> DEFINE adv == Advise(p)
           b == Option(p, n)
<1>1. /\ adv.impl \in {"sync", "async", "flow"}
      /\ adv.batchsz \in Int /\ adv.timeout \in Nat
      /\ adv.impl = "async" => adv.workers \in Int /\ adv.workers >= 1 /\ adv.ringSize = 8192
      /\ adv.arena \in BOOLEAN
  BY AdviseIs
<1>2. b = Build(adv, n) BY DEF Option
<1> HIDE DEF adv, b
<1>3. CASE adv.impl = "async"
  <2>1. b = NewAsync(adv, n) BY <1>2, <1>3 DEF Build
  <2>2. b.arena = adv.arena BY <2>1 DEF NewAsync
  <2>3. Runnable(b) BY <1>1, <1>3, <2>1, AsyncRuns
  <2> QED BY <1>1, <2>2, <2>3 DEF b
<1>4. CASE adv.impl = "flow"
  <2>1. b = NewFlow(adv, n) BY <1>2, <1>4 DEF Build
  <2>2. b.arena = adv.arena BY <2>1 DEF NewFlow
  <2>3. Runnable(b) BY <1>1, <2>1, FlowRuns
  <2> QED BY <1>1, <2>2, <2>3 DEF b
<1>5. CASE adv.impl = "sync"
  <2>1. b = NewSync(adv, n) BY <1>2, <1>5 DEF Build
  <2>2. b.arena = adv.arena /\ b.impl = "sync" BY <2>1 DEF NewSync
  <2>3. Runnable(b) BY <2>2 DEF Runnable
  <2> QED BY <1>1, <2>2, <2>3 DEF b
<1> QED BY <1>1, <1>3, <1>4, <1>5

LEMMA ProfilesAreProfiles ==
  ASSUME NEW n \in Int, NEW p \in PackageProfiles(n) \cup Profiles
  PROVE  IsProfile(p)
<1>1. CASE p \in Profiles
  BY <1>1, PoolAssumption DEF IsProfile
<1>2. IsProfile(Sync(n)) BY DEF IsProfile, Sync
<1>3. IsProfile(Async(n)) BY DEF IsProfile, Async
<1>4. IsProfile(Flow(n)) BY DEF IsProfile, Flow
<1>5. \A name : IsProfile(Preset(name, n)) BY <1>2, <1>3, <1>4 DEF Preset
<1>6. IsProfile(AutoDetect(n))
  <2> DEFINE base == IF n >= 4 THEN Async(n) ELSE Sync(n)
  <2>1. IsProfile(base) BY <1>2, <1>3
  <2>2. /\ AutoDetect(n).arena = base.arena /\ AutoDetect(n).conc = base.conc
        /\ AutoDetect(n).tps = base.tps /\ AutoDetect(n).cores = base.cores
        /\ AutoDetect(n).timeout = base.timeout
    BY DEF AutoDetect, Async, Sync
  <2> HIDE DEF base
  <2> QED BY <2>1, <2>2 DEF IsProfile
<1> QED BY <1>1, <1>5, <1>6 DEF PackageProfiles

(* Whatever a caller passes to Option, with fields of any sign and size,   *)
(* and on any number of CPUs: NewSPSCRing and NewTicker do not panic, a     *)
(* batch fits its ring and there is a worker (advisor.go 19-79, factory.go *)
(* 15-96, flow/bus.go 161-203, sched.go 55-90).                            *)
THEOREM BuildsRun == Spec => []BuildsAreRunnable
<1> DEFINE Inv == cpus \in Int /\ Runnable(bus)
<1>1. Inv => BuildsAreRunnable BY DEF BuildsAreRunnable
<1>2. Init => Inv
  <2> SUFFICES ASSUME Init PROVE Inv OBVIOUS
  <2>1. cpus \in Int /\ bus = Option(Sync(cpus), cpus) BY PoolAssumption DEF Init
  <2>2. IsProfile(Sync(cpus)) BY <2>1 DEF IsProfile, Sync
  <2> QED BY <2>1, <2>2, OptionRuns
<1>3. Inv /\ [Next]_vars => Inv'
  <2> SUFFICES ASSUME Inv, [Next]_vars PROVE Inv' OBVIOUS
  <2>1. CASE BuildBus
    <3>1. PICK p \in PackageProfiles(cpus) \cup Profiles : bus' = Option(p, cpus)
      BY <2>1 DEF BuildBus
    <3>2. IsProfile(p) BY ProfilesAreProfiles
    <3>3. cpus' = cpus BY <2>1 DEF BuildBus
    <3> QED BY <3>1, <3>2, <3>3, OptionRuns
  <2>2. CASE UNCHANGED busVars BY <2>2 DEF busVars
  <2>3. ASSUME NEW p \in Clients, Client(p) PROVE UNCHANGED busVars
    BY <2>3 DEF Client, AllocData, Alloc, Lock, AllocAgain, TakeChunk, Publish, AllocFirst, PutChunk
  <2>4. UNCHANGED vars => UNCHANGED busVars BY DEF vars
  <2> QED BY <2>1, <2>2, <2>3, <2>4 DEF Next
<1> QED BY <1>1, <1>2, <1>3, PTL DEF Spec
-----------------------------------------------------------------------------
(***************************************************************************)
(* BusLifecycle: what a call has still to do, and where events are.        *)
(***************************************************************************)
Cells == 1 .. Slots

LEMMA BusConstants ==
  /\ IsFiniteSet(Emitters) /\ Slots \in Nat \ {0}
  /\ WorkerSlot \in Cells /\ \A g \in Emitters : SlotOf[g] \in Cells
  /\ \A p \in Plans :
       p.calls \in [Emitters -> Seq([op : {"emit", "match"}, batch : BOOLEAN, events : Seq(Events)])]
BY BusAssumption DEF Cells

CallTypes ==
  /\ plan \in Plans
  /\ epc \in [Emitters -> {"idle", "each", "submit", "sent", "inline"}]
  /\ op \in [Emitters -> {"emit", "match"}]
  /\ todo \in [Emitters -> Seq(Events)]
  /\ count \in [Counters -> [Cells -> Nat]]
  /\ uncounted \in Nat /\ entered \in Nat

(* A call that has begun an event has it first in todo.                    *)
CallsGoOn ==
  \A g \in Emitters :
    /\ epc[g] = "idle" => todo[g] = << >>
    /\ epc[g] \in {"submit", "sent", "inline"} => todo[g] # << >>
    /\ epc[g] = "inline" => Inline(g)

CallsInv == CallTypes /\ CallsGoOn

InScheduler == offered \cup queued \cup running \cup dropped

(* An event is in one place of the scheduler at most.                      *)
PlacesInv ==
  /\ IsFiniteSet(InScheduler) /\ free \cap InScheduler = {}
  /\ offered \cap (queued \cup running \cup dropped) = {}
  /\ queued \cap (running \cup dropped) = {} /\ running \cap dropped = {}

LEMMA Submitted ==
  ASSUME PlacesInv, NEW e, D!Submit(e)
  PROVE  PlacesInv' /\ Cardinality(InScheduler') = Cardinality(InScheduler) + 1
<1>1. e \notin InScheduler /\ InScheduler' = InScheduler \cup {e}
  BY DEF PlacesInv, InScheduler, D!Submit
<1>2. IsFiniteSet(InScheduler)' BY <1>1, FS_AddElement DEF PlacesInv
<1>3. (free \cap InScheduler)' = {} BY DEF PlacesInv, InScheduler, D!Submit
<1>4. /\ (offered \cap (queued \cup running \cup dropped))' = {}
      /\ (queued \cap (running \cup dropped))' = {} /\ (running \cap dropped)' = {}
  BY DEF PlacesInv, InScheduler, D!Submit
<1>5. Cardinality(InScheduler') = Cardinality(InScheduler) + 1
  BY <1>1, FS_AddElement DEF PlacesInv
<1> QED BY <1>2, <1>3, <1>4, <1>5 DEF PlacesInv

LEMMA Shifted ==
  ASSUME PlacesInv, NEW e, D!Queue(e) \/ D!Drop(e) \/ D!Take(e)
  PROVE  PlacesInv' /\ Cardinality(InScheduler') = Cardinality(InScheduler)
<1>1. InScheduler' = InScheduler BY DEF InScheduler, D!Queue, D!Drop, D!Take
<1>2. CASE D!Queue(e) BY <1>1, <1>2 DEF PlacesInv, D!Queue
<1>3. CASE D!Drop(e) BY <1>1, <1>3 DEF PlacesInv, D!Drop
<1>4. CASE D!Take(e) BY <1>1, <1>4 DEF PlacesInv, D!Take
<1> QED BY <1>1, <1>2, <1>3, <1>4

LEMMA Finished ==
  ASSUME PlacesInv, NEW e, D!Finish(e)
  PROVE  PlacesInv' /\ Cardinality(InScheduler') = Cardinality(InScheduler) - 1
<1>1. e \in InScheduler BY DEF InScheduler, D!Finish
<1>2. InScheduler' = InScheduler \ {e} BY DEF PlacesInv, InScheduler, D!Finish
<1>3. IsFiniteSet(InScheduler)' BY <1>2, FS_Subset DEF PlacesInv
<1>4. (free \cap InScheduler)' = {} BY <1>2 DEF PlacesInv, D!Finish
<1>5. /\ (offered \cap (queued \cup running \cup dropped))' = {}
      /\ (queued \cap (running \cup dropped))' = {} /\ (running \cap dropped)' = {}
  BY DEF PlacesInv, D!Finish
<1>6. Cardinality(InScheduler') = Cardinality(InScheduler) - 1
  BY <1>1, <1>2, FS_RemoveElement DEF PlacesInv
<1> QED BY <1>3, <1>4, <1>5, <1>6 DEF PlacesInv

LEMMA Idle ==
  ASSUME PlacesInv, UNCHANGED <<free, offered, queued, running, dropped>>
  PROVE  PlacesInv' /\ Cardinality(InScheduler') = Cardinality(InScheduler)
<1>1. InScheduler' = InScheduler BY DEF InScheduler
<1> QED BY <1>1 DEF PlacesInv
-----------------------------------------------------------------------------
(* A counter that is added to.                                             *)
LEMMA Added ==
  ASSUME count \in [Counters -> [Cells -> Nat]], NEW k \in Counters, NEW s \in Cells,
         NEW n \in Nat, Add(k, s, n)
  PROVE  /\ count' \in [Counters -> [Cells -> Nat]]
         /\ count'[k][s] = count[k][s] + n
         /\ \A t \in Cells \ {s} : count'[k][t] = count[k][t]
         /\ \A j \in Counters \ {k} : count'[j] = count[j]
         /\ \A j \in Counters : \A t \in Cells : count'[j][t] \in Nat /\ count[j][t] \in Nat
<1>1. count' = [count EXCEPT ![k][s] = @ + n] BY DEF Add
<1>2. count[k][s] + n \in Nat OBVIOUS
<1>3. count' \in [Counters -> [Cells -> Nat]] BY <1>1, <1>2
<1>4. count'[k] = [count[k] EXCEPT ![s] = @ + n] BY <1>1
<1>5. count'[k][s] = count[k][s] + n /\ \A t \in Cells \ {s} : count'[k][t] = count[k][t]
  BY <1>4
<1>6. \A j \in Counters \ {k} : count'[j] = count[j] BY <1>1
<1> QED BY <1>3, <1>5, <1>6

(* The counter k has grown by n.                                           *)
Grown(k, n) ==
  \A j \in Counters :
    SumOver(Cells, count'[j]) = SumOver(Cells, count[j]) + (IF j = k THEN n ELSE 0)

LEMMA CellsFinite == IsFiniteSet(Cells)
BY BusConstants, FS_Interval DEF Cells

LEMMA TotalsAreNatural ==
  ASSUME CallsInv, NEW k \in Counters
  PROVE  SumOver(Cells, count[k]) \in Nat
<1>1. \A s \in Cells : count[k][s] \in Nat BY DEF CallsInv, CallTypes
<1> QED BY <1>1, CellsFinite, SumOfNaturals

LEMMA AddedGrows ==
  ASSUME CallsInv, NEW k \in Counters, NEW s \in Cells, NEW n \in Nat, Add(k, s, n)
  PROVE  Grown(k, n)
<1>1. /\ count'[k][s] = count[k][s] + n
      /\ \A t \in Cells \ {s} : count'[k][t] = count[k][t]
      /\ \A j \in Counters \ {k} : count'[j] = count[j]
      /\ \A j \in Counters : \A t \in Cells : count'[j][t] \in Nat /\ count[j][t] \in Nat
  BY Added DEF CallsInv, CallTypes
<1>2. ASSUME NEW j \in Counters, j # k
      PROVE  SumOver(Cells, count'[j]) = SumOver(Cells, count[j]) + 0
  <2>1. SumOver(Cells, count[j]) \in Nat BY TotalsAreNatural
  <2> QED BY <1>1, <1>2, <2>1
<1>3. SumOver(Cells, count'[k]) = SumOver(Cells, count[k]) + n
  <2> DEFINE f == count[k]
             h == count'[k]
  <2>1. \A t \in Cells : f[t] \in Int BY <1>1
  <2>2. h[s] \in Int /\ f[s] \in Int /\ h[s] = f[s] + n BY <1>1
  <2>3. \A t \in Cells \ {s} : h[t] = f[t] BY <1>1
  <2> HIDE DEF f, h
  <2>4. SumOver(Cells, f) \in Int /\ SumOver(Cells, h) = SumOver(Cells, f) + h[s] - f[s]
    BY <2>1, <2>2, <2>3, CellsFinite, SumOfChanged
  <2>5. SumOver(Cells, h) = SumOver(Cells, f) + n BY <2>2, <2>4
  <2> QED BY <2>5 DEF f, h
<1> QED BY <1>2, <1>3 DEF Grown

LEMMA NothingGrows ==
  ASSUME CallsInv, UNCHANGED count, NEW k
  PROVE  Grown(k, 0)
<1>1. \A j \in Counters : SumOver(Cells, count[j]) \in Nat BY TotalsAreNatural
<1> QED BY <1>1 DEF Grown
-----------------------------------------------------------------------------
(* What a call holds, at l, with s to do.                                  *)
Holds(o, l, s) ==
  IF kind = "async" \/ (kind = "pool" /\ o = "match")
    THEN IF l \in {"submit", "inline"} THEN 1 ELSE 0
    ELSE Len(s) - (IF l = "sent" THEN 1 ELSE 0)

InCalls == SumOver(Emitters, [i \in Emitters |-> InCall(i)])

(* An emitter that moves changes its own call only.                        *)
LEMMA CallMoves ==
  ASSUME CallsInv, plan' = plan, NEW g \in Emitters,
         NEW l \in {"idle", "each", "submit", "sent", "inline"},
         NEW s \in Seq(Events), NEW o \in {"emit", "match"},
         epc' = [epc EXCEPT ![g] = l], todo' = [todo EXCEPT ![g] = s], op' = [op EXCEPT ![g] = o],
         l = "idle" => s = << >>, l \in {"submit", "sent", "inline"} => s # << >>,
         l = "inline" => kind = "sync" \/ o = "match",
         count' \in [Counters -> [Cells -> Nat]], uncounted' \in Nat, entered' \in Nat
  PROVE  /\ CallsInv'
         /\ InCalls \in Int
         /\ SumOver(Emitters, [i \in Emitters |-> InCall(i)'])
              = InCalls + Holds(o, l, s) - Holds(op[g], epc[g], todo[g])
<1>1. CallTypes' BY DEF CallsInv, CallTypes
<1>2. epc'[g] = l /\ todo'[g] = s /\ op'[g] = o BY DEF CallsInv, CallTypes
<1>3. \A i \in Emitters \ {g} : epc'[i] = epc[i] /\ todo'[i] = todo[i] /\ op'[i] = op[i]
  BY DEF CallsInv, CallTypes
<1>4. CallsGoOn' BY <1>2, <1>3 DEF CallsInv, CallsGoOn, Inline, kind
<1> DEFINE f == [i \in Emitters |-> InCall(i)]
           h == [i \in Emitters |-> InCall(i)']
<1>5. \A i \in Emitters : f[i] \in Int /\ h[i] \in Int
  <2>1. \A i \in Emitters : Len(todo[i]) \in Nat /\ Len(todo'[i]) \in Nat
    BY <1>1 DEF CallsInv, CallTypes
  <2> QED BY <2>1 DEF InCall
<1>6. \A i \in Emitters \ {g} : h[i] = f[i] BY <1>3 DEF InCall, kind
<1>7. f[g] = Holds(op[g], epc[g], todo[g]) /\ h[g] = Holds(o, l, s)
  <2>1. InCall(g) = Holds(op[g], epc[g], todo[g]) BY DEF InCall, Holds
  <2>2. kind' = kind BY DEF kind
  <2>3. Len(todo'[g]) = Len(s) /\ Len(s) \in Nat BY <1>2
  <2>4. InCall(g)' = Holds(o, l, s)
    <3>1. CASE kind = "async" \/ (kind = "pool" /\ o = "match")
      BY <1>2, <2>2, <3>1 DEF InCall, Holds
    <3>2. CASE ~(kind = "async" \/ (kind = "pool" /\ o = "match"))
      <4>1. Holds(o, l, s) = Len(s) - (IF l = "sent" THEN 1 ELSE 0) BY <3>2 DEF Holds
      <4>2. InCall(g)' = Len(todo'[g]) - (IF epc'[g] = "sent" THEN 1 ELSE 0)
        BY <1>2, <2>2, <3>2 DEF InCall
      <4>3. (IF epc'[g] = "sent" THEN 1 ELSE 0) = (IF l = "sent" THEN 1 ELSE 0) BY <1>2
      <4> QED BY <2>3, <4>1, <4>2, <4>3
    <3> QED BY <3>1, <3>2
  <2> QED BY <2>1, <2>4
<1>8. InCalls = SumOver(Emitters, f) BY DEF InCalls
<1> HIDE DEF f, h
<1>9. SumOver(Emitters, f) \in Int /\ SumOver(Emitters, h) = SumOver(Emitters, f) + h[g] - f[g]
  BY <1>5, <1>6, BusConstants, SumOfChanged
<1>10. SumOver(Emitters, h) = InCalls + Holds(o, l, s) - Holds(op[g], epc[g], todo[g])
  BY <1>7, <1>8, <1>9
<1> QED BY <1>1, <1>4, <1>8, <1>9, <1>10 DEF CallsInv, h

LEMMA CallsStay ==
  ASSUME CallsInv, UNCHANGED <<plan, epc, op, todo, entered>>,
         count' \in [Counters -> [Cells -> Nat]], uncounted' \in Nat
  PROVE  /\ CallsInv' /\ InCalls \in Int
         /\ SumOver(Emitters, [i \in Emitters |-> InCall(i)']) = InCalls
<1>1. CallsInv' BY DEF CallsInv, CallTypes, CallsGoOn, Inline, kind
<1>2. \A i \in Emitters : InCall(i)' = InCall(i) BY DEF InCall, kind
<1> DEFINE f == [i \in Emitters |-> InCall(i)]
           h == [i \in Emitters |-> InCall(i)']
<1>3. h = f BY <1>2
<1>4. \A i \in Emitters : f[i] \in Int
  <2>1. \A i \in Emitters : Len(todo[i]) \in Nat BY DEF CallsInv, CallTypes
  <2> QED BY <2>1 DEF InCall
<1>5. InCalls = SumOver(Emitters, f) BY DEF InCalls
<1> HIDE DEF f
<1>6. SumOver(Emitters, f) \in Int BY <1>4, BusConstants, SumOfGreater
<1> QED BY <1>1, <1>3, <1>5, <1>6
-----------------------------------------------------------------------------
(* CountersAgree, over functions and a set that do not change.             *)
Accounted ==
  \A c, h, T :
    c = count /\ h = [i \in Emitters |-> InCall(i)] /\ T = InScheduler =>
      (IF kind = "async" THEN entered ELSE SumOver(Cells, c["emitted"]))
        = SumOver(Cells, c["processed"]) + SumOver(Cells, c["panics"]) + uncounted
          + Cardinality(T) + SumOver(Emitters, h)

(* A step keeps the balance if it takes as much as it gives.               *)
LEMMA Rebalanced ==
  ASSUME CallsInv, PlacesInv, Accounted, plan' = plan, InCalls \in Int,
         NEW in \in Nat, NEW k, NEW n \in Nat, NEW u \in Nat, NEW t \in Int, NEW h \in Int,
         entered' = entered + in, Grown(k, n), uncounted' = uncounted + u,
         Cardinality(InScheduler') = Cardinality(InScheduler) + t,
         SumOver(Emitters, [i \in Emitters |-> InCall(i)']) = InCalls + h,
         (IF kind = "async" THEN in ELSE IF k = "emitted" THEN n ELSE 0)
           = (IF k \in {"processed", "panics"} THEN n ELSE 0) + u + t + h
  PROVE  Accounted'
<1>1. /\ SumOver(Cells, count["emitted"]) \in Nat /\ SumOver(Cells, count["processed"]) \in Nat
      /\ SumOver(Cells, count["panics"]) \in Nat
  BY TotalsAreNatural DEF Counters
<1>2. /\ SumOver(Cells, count'["emitted"])
           = SumOver(Cells, count["emitted"]) + (IF k = "emitted" THEN n ELSE 0)
      /\ SumOver(Cells, count'["processed"])
           = SumOver(Cells, count["processed"]) + (IF k = "processed" THEN n ELSE 0)
      /\ SumOver(Cells, count'["panics"])
           = SumOver(Cells, count["panics"]) + (IF k = "panics" THEN n ELSE 0)
  BY DEF Grown, Counters
<1>3. (IF kind = "async" THEN entered ELSE SumOver(Cells, count["emitted"]))
        = SumOver(Cells, count["processed"]) + SumOver(Cells, count["panics"]) + uncounted
          + Cardinality(InScheduler) + InCalls
  BY DEF Accounted, InCalls
<1>4. Cardinality(InScheduler) \in Nat BY FS_CardinalityType DEF PlacesInv
<1>5. entered \in Nat /\ uncounted \in Nat BY DEF CallsInv, CallTypes
<1>6. (IF kind = "async" THEN entered' ELSE SumOver(Cells, count'["emitted"]))
        = SumOver(Cells, count'["processed"]) + SumOver(Cells, count'["panics"]) + uncounted'
          + Cardinality(InScheduler') + SumOver(Emitters, [i \in Emitters |-> InCall(i)'])
  BY <1>1, <1>2, <1>3, <1>4, <1>5
<1>7. kind' = kind BY DEF kind
<1> QED BY <1>6, <1>7 DEF Accounted
-----------------------------------------------------------------------------
(***************************************************************************)
(* The balance, action by action.                                          *)
(***************************************************************************)
AccountInv == CallsInv /\ PlacesInv /\ Accounted

CountType == count \in [Counters -> [Cells -> Nat]]

LEMMA HoldsInt ==
  ASSUME NEW o, NEW l, NEW s \in Seq(Events)
  PROVE  Holds(o, l, s) \in Int
<1>1. Len(s) \in Nat OBVIOUS
<1> QED BY <1>1 DEF Holds

(* Emitter g goes to l, with s to do in a call of the kind o.              *)
Moves(g, l, s, o) ==
  /\ plan' = plan
  /\ l \in {"idle", "each", "submit", "sent", "inline"}
  /\ s \in Seq(Events) /\ o \in {"emit", "match"}
  /\ epc' = [epc EXCEPT ![g] = l] /\ todo' = [todo EXCEPT ![g] = s]
  /\ op' = [op EXCEPT ![g] = o]
  /\ l = "idle" => s = << >>
  /\ l \in {"submit", "sent", "inline"} => s # << >>
  /\ l = "inline" => kind = "sync" \/ o = "match"

(* The bus lets in events in, counts n more in k, leaves u uncounted, and  *)
(* t more are in the scheduler.                                            *)
Changes(in, k, n, u, t) ==
  /\ in \in Nat /\ n \in Nat /\ u \in Nat /\ t \in Int
  /\ CountType' /\ Grown(k, n)
  /\ uncounted' = uncounted + u /\ entered' = entered + in
  /\ PlacesInv' /\ Cardinality(InScheduler') = Cardinality(InScheduler) + t

(* What comes in, or is added to a counter, goes out.                      *)
Balances(in, k, n, u, t, now, before) ==
  (IF kind = "async" THEN in ELSE IF k = "emitted" THEN n ELSE 0)
    = (IF k \in {"processed", "panics"} THEN n ELSE 0) + u + t + (now - before)

LEMMA EmitterBalances ==
  ASSUME AccountInv, NEW g \in Emitters, NEW l, NEW s, NEW o, Moves(g, l, s, o),
         NEW in, NEW k, NEW n, NEW u, NEW t, Changes(in, k, n, u, t),
         Balances(in, k, n, u, t, Holds(o, l, s), Holds(op[g], epc[g], todo[g]))
  PROVE  AccountInv'
<1> USE DEF Moves, Changes
<1> DEFINE h == Holds(o, l, s) - Holds(op[g], epc[g], todo[g])
<1>1. CallsInv /\ PlacesInv /\ Accounted BY DEF AccountInv
<1>2. todo[g] \in Seq(Events) BY <1>1 DEF CallsInv, CallTypes
<1>3. Holds(o, l, s) \in Int /\ Holds(op[g], epc[g], todo[g]) \in Int BY <1>2, HoldsInt
<1>4. h \in Int BY <1>3
<1>5. uncounted' \in Nat /\ entered' \in Nat BY <1>1 DEF CallsInv, CallTypes
<1>6. /\ CallsInv' /\ InCalls \in Int
      /\ SumOver(Emitters, [i \in Emitters |-> InCall(i)'])
           = InCalls + Holds(o, l, s) - Holds(op[g], epc[g], todo[g])
  BY <1>1, <1>5, CallMoves DEF CountType
<1>7. SumOver(Emitters, [i \in Emitters |-> InCall(i)']) = InCalls + h BY <1>3, <1>6
<1>8. (IF kind = "async" THEN in ELSE IF k = "emitted" THEN n ELSE 0)
        = (IF k \in {"processed", "panics"} THEN n ELSE 0) + u + t + h
  BY DEF h, Balances
<1> HIDE DEF h
<1>9. Accounted' BY <1>1, <1>4, <1>6, <1>7, <1>8, Rebalanced
<1> QED BY <1>6, <1>9 DEF AccountInv

(* A step that leaves the emitters alone.                                  *)
LEMMA OthersBalance ==
  ASSUME AccountInv, UNCHANGED <<plan, epc, op, todo>>,
         NEW k, NEW n, NEW u, NEW t, Changes(0, k, n, u, t), Balances(0, k, n, u, t, 0, 0)
  PROVE  AccountInv'
<1> USE DEF Changes
<1>1. CallsInv /\ PlacesInv /\ Accounted BY DEF AccountInv
<1>2. uncounted' \in Nat /\ entered' = entered BY <1>1 DEF CallsInv, CallTypes
<1>3. /\ CallsInv' /\ InCalls \in Int
      /\ SumOver(Emitters, [i \in Emitters |-> InCall(i)']) = InCalls + 0
  BY <1>1, <1>2, CallsStay DEF CountType
<1>4. (IF kind = "async" THEN 0 ELSE IF k = "emitted" THEN n ELSE 0)
        = (IF k \in {"processed", "panics"} THEN n ELSE 0) + u + t + 0
  BY DEF Balances
<1>5. Accounted' BY <1>1, <1>3, <1>4, Rebalanced
<1> QED BY <1>3, <1>5 DEF AccountInv

LEMMA Unmoved ==
  ASSUME AccountInv
  PROVE  /\ CountType
         /\ UNCHANGED count => CountType' /\ Grown("none", 0)
         /\ uncounted \in Nat /\ uncounted = uncounted + 0
         /\ entered \in Nat /\ entered = entered + 0
         /\ Cardinality(InScheduler) \in Nat
         /\ UNCHANGED <<free, offered, queued, running, dropped>> =>
              PlacesInv' /\ Cardinality(InScheduler') = Cardinality(InScheduler) + 0
<1>1. CallsInv /\ PlacesInv BY DEF AccountInv
<1>2. CountType /\ uncounted \in Nat /\ entered \in Nat
  BY <1>1 DEF CountType, CallsInv, CallTypes
<1>3. ASSUME UNCHANGED count PROVE CountType' /\ Grown("none", 0)
  BY <1>1, <1>2, <1>3, NothingGrows DEF CountType
<1>4. Cardinality(InScheduler) \in Nat BY <1>1, FS_CardinalityType DEF PlacesInv
<1>5. ASSUME UNCHANGED <<free, offered, queued, running, dropped>>
      PROVE  PlacesInv' /\ Cardinality(InScheduler') = Cardinality(InScheduler) + 0
  BY <1>1, <1>4, <1>5, Idle
<1> QED BY <1>2, <1>3, <1>4, <1>5

LEMMA Counting ==
  ASSUME AccountInv, NEW k \in Counters, NEW s \in Cells, NEW n \in Nat, Add(k, s, n)
  PROVE  CountType' /\ Grown(k, n)
BY AddedGrows, Added DEF AccountInv, CallsInv, CallTypes, CountType

LEMMA StartBalances ==
  ASSUME AccountInv, NEW g \in Emitters, Start(g)
  PROVE  AccountInv'
<1> DEFINE o == plan.calls[g][call[g]].op
           events == plan.calls[g][call[g]].events
           ignored == ~plan.calls[g][call[g]].batch /\ events[1] \in Nils
           s == IF ignored THEN << >> ELSE events
           adds == ~ignored /\ (kind = "sync" \/ (kind = "pool" /\ o = "emit"))
<1>1. plan.calls[g][call[g]] \in [op : {"emit", "match"}, batch : BOOLEAN, events : Seq(Events)]
  <2>1. plan.calls \in [Emitters -> Seq([op : {"emit", "match"}, batch : BOOLEAN, events : Seq(Events)])]
    BY BusConstants DEF AccountInv, CallsInv, CallTypes
  <2>2. call[g] \in DOMAIN plan.calls[g] BY DEF Start
  <2> DEFINE R == [op : {"emit", "match"}, batch : BOOLEAN, events : Seq(Events)]
  <2> HIDE DEF R
  <2>3. plan.calls[g] \in Seq(R) BY <2>1 DEF R
  <2>4. plan.calls[g][call[g]] \in R BY <2>2, <2>3
  <2> QED BY <2>4 DEF R
<1>2. o \in {"emit", "match"} /\ events \in Seq(Events) /\ s \in Seq(Events) /\ Len(s) \in Nat
  BY <1>1
<1>3. /\ epc[g] = "idle" /\ plan' = plan
      /\ epc' = [epc EXCEPT ![g] = "each"] /\ todo' = [todo EXCEPT ![g] = s]
      /\ op' = [op EXCEPT ![g] = o] /\ UNCHANGED <<uncounted, entered>>
      /\ UNCHANGED <<free, offered, queued, running, dropped>>
  BY DEF Start, schedVars
<1>4. Holds(op[g], epc[g], todo[g]) = 0
  <2>1. todo[g] = << >> BY <1>3 DEF AccountInv, CallsInv, CallsGoOn
  <2> QED BY <1>3, <2>1 DEF Holds
<1>5. /\ adds => Add("emitted", SlotOf[g], Len(s)) /\ kind # "async"
      /\ ~adds => UNCHANGED count
  BY DEF Start
<1>6. Holds(o, "each", s) = IF adds THEN Len(s) ELSE 0
  <2>1. ~ignored /\ kind # "async" /\ ~(kind = "pool" /\ o = "match") => adds
    <3>1. kind \in {"sync", "pool", "async"}
      BY BusAssumption DEF AccountInv, CallsInv, CallTypes, kind
    <3> QED BY <1>2, <3>1
  <2>2. ignored => s = << >> /\ ~adds OBVIOUS
  <2>3. adds => kind # "async" /\ ~(kind = "pool" /\ o = "match") OBVIOUS
  <2> HIDE DEF o, events, ignored, s, adds
  <2>4. CASE adds BY <2>3, <2>4 DEF Holds
  <2>5. CASE ~adds BY <2>1, <2>2, <2>5 DEF Holds
  <2> QED BY <2>4, <2>5
<1> HIDE DEF o, events, ignored, s, adds
<1>7. Moves(g, "each", s, o) BY <1>2, <1>3 DEF Moves
<1>8. CASE adds
  <2>1. Changes(0, "emitted", Len(s), 0, 0)
    <3>1. CountType' /\ Grown("emitted", Len(s))
      BY <1>2, <1>5, <1>8, Counting, BusConstants DEF Counters
    <3> QED BY <1>2, <1>3, <3>1, Unmoved DEF Changes
  <2>2. Balances(0, "emitted", Len(s), 0, 0, Holds(o, "each", s), Holds(op[g], epc[g], todo[g]))
    BY <1>2, <1>4, <1>5, <1>6, <1>8 DEF Balances
  <2> QED BY <1>7, <2>1, <2>2, EmitterBalances
<1>9. CASE ~adds
  <2>1. Changes(0, "none", 0, 0, 0) BY <1>3, <1>5, <1>9, Unmoved DEF Changes
  <2>2. Balances(0, "none", 0, 0, 0, Holds(o, "each", s), Holds(op[g], epc[g], todo[g]))
    BY <1>4, <1>6, <1>9 DEF Balances
  <2> QED BY <1>7, <2>1, <2>2, EmitterBalances
<1> QED BY <1>8, <1>9

LEMMA EachBalances ==
  ASSUME AccountInv, NEW g \in Emitters, Each(g)
  PROVE  AccountInv'
<1>1. /\ epc[g] = "each" /\ todo[g] # << >> /\ plan' = plan /\ UNCHANGED <<op, uncounted>>
      /\ UNCHANGED <<free, offered, queued, running, dropped>>
  BY DEF Each, schedVars
<1>2. todo[g] \in Seq(Events) /\ Len(todo[g]) \in Nat /\ op[g] \in {"emit", "match"}
  BY DEF AccountInv, CallsInv, CallTypes
<1>3. op' = [op EXCEPT ![g] = op[g]] BY <1>1 DEF AccountInv, CallsInv, CallTypes
<1>4. CASE kind = "async" /\ (closed \/ Head(todo[g]) \in Nils)
  <2>1. /\ todo' = [todo EXCEPT ![g] = Tail(todo[g])] /\ UNCHANGED <<epc, count, entered>>
    BY <1>4 DEF Each
  <2>2. epc' = [epc EXCEPT ![g] = "each"]
    BY <1>1, <2>1 DEF AccountInv, CallsInv, CallTypes
  <2>3. Tail(todo[g]) \in Seq(Events) BY <1>1, <1>2
  <2>4. Moves(g, "each", Tail(todo[g]), op[g]) BY <1>1, <1>2, <1>3, <2>1, <2>2, <2>3 DEF Moves
  <2>5. Changes(0, "none", 0, 0, 0) BY <1>1, <2>1, Unmoved DEF Changes
  <2>6. Balances(0, "none", 0, 0, 0, Holds(op[g], "each", Tail(todo[g])), Holds(op[g], epc[g], todo[g]))
    BY <1>1, <1>4 DEF Balances, Holds
  <2> QED BY <2>4, <2>5, <2>6, EmitterBalances
<1>5. CASE ~(kind = "async" /\ (closed \/ Head(todo[g]) \in Nils))
  <2> DEFINE l == IF Inline(g) THEN "inline" ELSE "submit"
             adds == kind = "pool" /\ op[g] = "match"
             in == IF kind = "async" THEN 1 ELSE 0
  <2>1. /\ epc' = [epc EXCEPT ![g] = l] /\ UNCHANGED todo
        /\ adds => Add("emitted", SlotOf[g], 1)
        /\ ~adds => UNCHANGED count
    BY <1>5 DEF Each
  <2>2. entered' = IF kind = "async" THEN entered + 1 ELSE entered BY <1>5 DEF Each
  <2>3. entered' = entered + in /\ in \in Nat BY <2>2, Unmoved
  <2>4. todo' = [todo EXCEPT ![g] = todo[g]] BY <2>1 DEF AccountInv, CallsInv, CallTypes
  <2>5. Moves(g, l, todo[g], op[g])
    BY <1>1, <1>2, <1>3, <2>1, <2>4 DEF Moves, Inline
  <2>6. Holds(op[g], l, todo[g]) - Holds(op[g], epc[g], todo[g])
          = IF kind = "async" \/ adds THEN 1 ELSE 0
    BY <1>1, <1>2 DEF Holds
  <2>7. Holds(op[g], l, todo[g]) \in Int /\ Holds(op[g], epc[g], todo[g]) \in Int
    BY <1>2, HoldsInt
  <2>8. /\ adds => kind # "async"
        /\ in = IF kind = "async" THEN 1 ELSE 0
    OBVIOUS
  <2> HIDE DEF l, adds, in
  <2>9. CASE adds
    <3>1. CountType' /\ Grown("emitted", 1) BY <2>1, <2>9, Counting, BusConstants DEF Counters
    <3>2. Changes(in, "emitted", 1, 0, 0) BY <1>1, <2>3, <3>1, Unmoved DEF Changes
    <3>3. Balances(in, "emitted", 1, 0, 0, Holds(op[g], l, todo[g]), Holds(op[g], epc[g], todo[g]))
      BY <2>6, <2>7, <2>8, <2>9 DEF Balances
    <3> QED BY <2>5, <3>2, <3>3, EmitterBalances
  <2>10. CASE ~adds
    <3>1. Changes(in, "none", 0, 0, 0) BY <1>1, <2>1, <2>3, <2>10, Unmoved DEF Changes
    <3>2. Balances(in, "none", 0, 0, 0, Holds(op[g], l, todo[g]), Holds(op[g], epc[g], todo[g]))
      BY <2>6, <2>7, <2>8, <2>10 DEF Balances
    <3> QED BY <2>5, <3>1, <3>2, EmitterBalances
  <2> QED BY <2>9, <2>10
<1> QED BY <1>4, <1>5

LEMMA SubmitBalances ==
  ASSUME AccountInv, NEW g \in Emitters, Submit(g)
  PROVE  AccountInv'
<1>1. /\ epc[g] = "submit" /\ plan' = plan /\ UNCHANGED <<op, todo, uncounted, entered, count>>
      /\ epc' = [epc EXCEPT ![g] = "sent"] /\ D!Submit(Head(todo[g]))
  BY DEF Submit, countVars
<1>2. /\ todo[g] \in Seq(Events) /\ todo[g] # << >> /\ op[g] \in {"emit", "match"}
      /\ Len(todo[g]) \in Nat
      /\ op' = [op EXCEPT ![g] = op[g]] /\ todo' = [todo EXCEPT ![g] = todo[g]]
  BY <1>1 DEF AccountInv, CallsInv, CallTypes, CallsGoOn
<1>3. Moves(g, "sent", todo[g], op[g]) BY <1>1, <1>2 DEF Moves
<1>4. PlacesInv' /\ Cardinality(InScheduler') = Cardinality(InScheduler) + 1
  BY <1>1, Submitted DEF AccountInv
<1>5. Changes(0, "none", 0, 0, 1) BY <1>1, <1>4, Unmoved DEF Changes
<1>6. Balances(0, "none", 0, 0, 1, Holds(op[g], "sent", todo[g]), Holds(op[g], epc[g], todo[g]))
  BY <1>1, <1>2 DEF Balances, Holds
<1> QED BY <1>3, <1>5, <1>6, EmitterBalances

LEMMA SentBalances ==
  ASSUME AccountInv, NEW g \in Emitters, Sent(g)
  PROVE  AccountInv'
<1>1. /\ epc[g] = "sent" /\ plan' = plan /\ UNCHANGED <<op, uncounted, entered, count>>
      /\ epc' = [epc EXCEPT ![g] = "each"] /\ todo' = [todo EXCEPT ![g] = Tail(todo[g])]
      /\ UNCHANGED <<free, offered, queued, running, dropped>>
  BY DEF Sent, countVars, schedVars
<1>2. /\ todo[g] \in Seq(Events) /\ todo[g] # << >> /\ op[g] \in {"emit", "match"}
      /\ op' = [op EXCEPT ![g] = op[g]]
  BY <1>1 DEF AccountInv, CallsInv, CallTypes, CallsGoOn
<1>3. Tail(todo[g]) \in Seq(Events) /\ Len(Tail(todo[g])) = Len(todo[g]) - 1 /\ Len(todo[g]) \in Nat
  BY <1>2
<1>4. Moves(g, "each", Tail(todo[g]), op[g]) BY <1>1, <1>2, <1>3 DEF Moves
<1>5. Changes(0, "none", 0, 0, 0) BY <1>1, Unmoved DEF Changes
<1>6. Balances(0, "none", 0, 0, 0, Holds(op[g], "each", Tail(todo[g])), Holds(op[g], epc[g], todo[g]))
  BY <1>1, <1>3 DEF Balances, Holds
<1> QED BY <1>4, <1>5, <1>6, EmitterBalances

LEMMA ReturnBalances ==
  ASSUME AccountInv, NEW g \in Emitters, EmitReturns(g)
  PROVE  AccountInv'
<1>1. /\ epc[g] = "each" /\ todo[g] = << >> /\ plan' = plan
      /\ UNCHANGED <<op, todo, uncounted, entered, count>>
      /\ epc' = [epc EXCEPT ![g] = "idle"]
      /\ UNCHANGED <<free, offered, queued, running, dropped>>
  BY DEF EmitReturns, countVars, schedVars
<1>2. /\ todo[g] \in Seq(Events) /\ op[g] \in {"emit", "match"} /\ Len(todo[g]) \in Nat
      /\ op' = [op EXCEPT ![g] = op[g]] /\ todo' = [todo EXCEPT ![g] = todo[g]]
  BY <1>1 DEF AccountInv, CallsInv, CallTypes
<1>3. Moves(g, "idle", todo[g], op[g]) BY <1>1, <1>2 DEF Moves
<1>4. Changes(0, "none", 0, 0, 0) BY <1>1, Unmoved DEF Changes
<1>5. Balances(0, "none", 0, 0, 0, Holds(op[g], "idle", todo[g]), Holds(op[g], epc[g], todo[g]))
  BY <1>1, <1>2 DEF Balances, Holds
<1> QED BY <1>3, <1>4, <1>5, EmitterBalances

LEMMA EndInlineBalances ==
  ASSUME AccountInv, NEW g \in Emitters, NEW o \in {"ok", "error", "panic"}, EndInline(g, o)
  PROVE  AccountInv'
<1> DEFINE aborts == o = "panic" \/ (o = "error" /\ kind # "pool")
           rest == IF aborts /\ kind = "sync" THEN Len(todo[g]) - 1 ELSE 0
           in == CASE o = "panic" /\ kind # "async" -> "panics"
                   [] kind = "pool" \/ (kind = "async" /\ ~aborts) -> "processed"
                   [] OTHER -> "none"
           s == IF aborts THEN << >> ELSE Tail(todo[g])
           u == rest + (IF in = "none" THEN 1 ELSE 0)
           n == IF in = "none" THEN 0 ELSE 1
<1>1. /\ epc[g] = "inline" /\ plan' = plan /\ UNCHANGED <<op, entered>>
      /\ epc' = [epc EXCEPT ![g] = "each"] /\ todo' = [todo EXCEPT ![g] = s]
      /\ uncounted' = uncounted + rest + (IF in = "none" THEN 1 ELSE 0)
      /\ in = "none" => UNCHANGED count
      /\ in # "none" => Add(in, SlotOf[g], 1)
      /\ UNCHANGED <<free, offered, queued, running, dropped>>
  BY DEF EndInline, schedVars
<1>2. /\ todo[g] \in Seq(Events) /\ todo[g] # << >> /\ op[g] \in {"emit", "match"}
      /\ op' = [op EXCEPT ![g] = op[g]]
      /\ kind = "sync" \/ op[g] = "match"
  BY <1>1 DEF AccountInv, CallsInv, CallTypes, CallsGoOn, Inline
<1>3. /\ Tail(todo[g]) \in Seq(Events) /\ Len(todo[g]) \in Nat \ {0}
      /\ Len(Tail(todo[g])) = Len(todo[g]) - 1
  BY <1>2
<1>4. s \in Seq(Events) BY <1>3
<1>5. rest \in Nat /\ u \in Nat /\ n \in Nat
  <2>1. rest \in Nat BY <1>3
  <2> HIDE DEF in, rest
  <2> QED BY <2>1
<1>6. uncounted' = uncounted + u
  <2>1. uncounted \in Nat BY Unmoved
  <2>2. rest \in Nat BY <1>5
  <2> HIDE DEF in, rest
  <2> QED BY <1>1, <2>1, <2>2
<1>7. kind \in {"sync", "pool", "async"}
  BY BusAssumption DEF AccountInv, CallsInv, CallTypes, kind
<1>8. in \in {"panics", "processed", "none"} OBVIOUS
<1>9. Moves(g, "each", s, op[g])
  <2> HIDE DEF s
  <2> QED BY <1>1, <1>2, <1>4 DEF Moves
<1>10. Balances(0, in, n, u, 0, Holds(op[g], "each", s), Holds(op[g], epc[g], todo[g]))
  <2>1. CASE kind = "sync"
    <3>1. Holds(op[g], epc[g], todo[g]) = Len(todo[g]) BY <1>1, <1>3, <2>1 DEF Holds
    <3>2. Holds(op[g], "each", s) = IF aborts THEN 0 ELSE Len(todo[g]) - 1
      BY <1>3, <2>1 DEF Holds
    <3>3. rest = IF aborts THEN Len(todo[g]) - 1 ELSE 0 BY <2>1
    <3> HIDE DEF aborts, rest, in, s
    <3>4. CASE in = "none"
      <4>1. u = rest + 1 /\ n = 0 BY <3>4
      <4> HIDE DEF u, n
      <4> QED BY <1>3, <1>5, <2>1, <3>1, <3>2, <3>3, <3>4, <4>1 DEF Balances
    <3>5. CASE in # "none"
      <4>1. u = rest + 0 /\ n = 1 /\ in \in {"processed", "panics"} BY <1>8, <3>5
      <4> HIDE DEF u, n
      <4> QED BY <1>3, <1>5, <2>1, <3>1, <3>2, <3>3, <4>1 DEF Balances
    <3> QED BY <3>4, <3>5
  <2>2. CASE kind = "async"
    <3>1. Holds(op[g], epc[g], todo[g]) = 1 /\ Holds(op[g], "each", s) = 0
      BY <1>1, <2>2 DEF Holds
    <3>2. rest = 0 /\ in \in {"processed", "none"} BY <2>2
    <3> QED BY <2>2, <3>1, <3>2 DEF Balances
  <2>3. CASE kind = "pool"
    <3>1. Holds(op[g], epc[g], todo[g]) = 1 /\ Holds(op[g], "each", s) = 0
      BY <1>1, <1>2, <2>3 DEF Holds
    <3>2. rest = 0 /\ in \in {"processed", "panics"} BY <2>3
    <3> QED BY <2>3, <3>1, <3>2 DEF Balances
  <2> QED BY <1>7, <2>1, <2>2, <2>3
<1>11. Changes(0, in, n, u, 0)
  <2>1. CASE in = "none"
    <3>1. n = 0 BY <2>1
    <3> HIDE DEF in, n, u
    <3> QED BY <1>1, <1>5, <1>6, <2>1, <3>1, Unmoved DEF Changes
  <2>2. CASE in # "none"
    <3>1. n = 1 BY <2>2
    <3> HIDE DEF in, n, u
    <3>2. CountType' /\ Grown(in, n)
      BY <1>1, <1>8, <2>2, <3>1, Counting, BusConstants DEF Counters
    <3> QED BY <1>1, <1>5, <1>6, <3>2, Unmoved DEF Changes
  <2> QED BY <2>1, <2>2
<1> HIDE DEF in, n, u, s
<1> QED BY <1>9, <1>10, <1>11, EmitterBalances

(* A step that moves no call, counts nothing and leaves the scheduler.     *)
LEMMA NothingBalances ==
  ASSUME AccountInv, UNCHANGED <<plan, epc, op, todo, count, uncounted, entered>>,
         UNCHANGED <<free, offered, queued, running, dropped>>
  PROVE  AccountInv'
<1>1. Changes(0, "none", 0, 0, 0) BY Unmoved DEF Changes
<1>2. Balances(0, "none", 0, 0, 0, 0, 0) BY DEF Balances
<1> QED BY <1>1, <1>2, OthersBalance

LEMMA ShiftBalances ==
  ASSUME AccountInv, UNCHANGED <<plan, epc, op, todo, count, uncounted, entered>>,
         NEW e, D!Queue(e) \/ D!Drop(e) \/ D!Take(e)
  PROVE  AccountInv'
<1>1. PlacesInv' /\ Cardinality(InScheduler') = Cardinality(InScheduler) + 0
  BY Shifted, Unmoved DEF AccountInv
<1>2. Changes(0, "none", 0, 0, 0) BY <1>1, Unmoved DEF Changes
<1>3. Balances(0, "none", 0, 0, 0, 0, 0) BY DEF Balances
<1> QED BY <1>2, <1>3, OthersBalance

LEMMA WorkerBalances ==
  ASSUME AccountInv, NEW e \in Events, Worker(e)
  PROVE  AccountInv'
<1>1. D!Finish(e) /\ UNCHANGED <<plan, epc, op, todo, entered>>
  BY DEF Worker, WorkerSkips, WorkerEnds, emitVars
<1>2. PlacesInv' /\ Cardinality(InScheduler') = Cardinality(InScheduler) - 1
  BY <1>1, Finished DEF AccountInv
<1>3. CASE WorkerSkips(e)
  <2>1. UNCHANGED count /\ uncounted' = uncounted + 1 BY <1>3 DEF WorkerSkips
  <2>2. Changes(0, "none", 0, 1, -1) BY <1>1, <1>2, <2>1, Unmoved DEF Changes
  <2>3. Balances(0, "none", 0, 1, -1, 0, 0) BY DEF Balances
  <2> QED BY <1>1, <2>2, <2>3, OthersBalance
<1>4. ASSUME NEW o, WorkerEnds(e, o) PROVE AccountInv'
  <2> DEFINE k == IF o = "panic" THEN "panics" ELSE "processed"
  <2>1. Add(k, WorkerSlot, 1) /\ UNCHANGED uncounted BY <1>4 DEF WorkerEnds
  <2>2. k \in {"panics", "processed"} OBVIOUS
  <2> HIDE DEF k
  <2>3. CountType' /\ Grown(k, 1) BY <2>1, <2>2, Counting, BusConstants DEF Counters
  <2>4. Changes(0, k, 1, 0, -1) BY <1>1, <1>2, <2>1, <2>3, Unmoved DEF Changes
  <2>5. Balances(0, k, 1, 0, -1, 0, 0) BY <2>2 DEF Balances
  <2> QED BY <1>1, <2>4, <2>5, OthersBalance
<1> QED BY <1>3, <1>4 DEF Worker

LEMMA AccountInit == LifeInit => AccountInv
<1> SUFFICES ASSUME LifeInit PROVE AccountInv
  OBVIOUS
<1>1. CallsInv
  <2>1. plan \in Plans /\ uncounted \in Nat /\ entered \in Nat BY DEF LifeInit
  <2>2. /\ epc = [g \in Emitters |-> "idle"] /\ op = [g \in Emitters |-> "emit"]
        /\ todo = [g \in Emitters |-> << >>]
    BY DEF LifeInit
  <2>3. count = [k \in Counters |-> [s \in Cells |-> 0]] BY DEF LifeInit, Cells
  <2>4. count \in [Counters -> [Cells -> Nat]] BY <2>3
  <2>5. /\ epc \in [Emitters -> {"idle", "each", "submit", "sent", "inline"}]
        /\ op \in [Emitters -> {"emit", "match"}] /\ todo \in [Emitters -> Seq(Events)]
    BY <2>2
  <2>6. CallsGoOn BY <2>2 DEF CallsGoOn
  <2> QED BY <2>1, <2>4, <2>5, <2>6 DEF CallsInv, CallTypes
<1>2. InScheduler = {} /\ PlacesInv
  BY FS_EmptySet DEF LifeInit, D!Init, InScheduler, PlacesInv
<1>3. Cardinality(InScheduler) = 0 BY <1>2, FS_EmptySet
<1>4. ASSUME NEW k \in Counters PROVE SumOver(Cells, count[k]) = 0
  <2>1. \A s \in Cells : count[k][s] = 0 BY DEF LifeInit, Cells
  <2> QED BY <2>1, CellsFinite, SumOfZeros
<1>5. SumOver(Emitters, [i \in Emitters |-> InCall(i)]) = 0
  <2> DEFINE f == [i \in Emitters |-> InCall(i)]
  <2>1. \A i \in Emitters : f[i] = 0 BY DEF LifeInit, InCall
  <2> HIDE DEF f
  <2>2. SumOver(Emitters, f) = 0 BY <2>1, BusConstants, SumOfZeros
  <2> QED BY <2>2 DEF f
<1>6. Accounted BY <1>3, <1>4, <1>5 DEF Accounted, Counters, LifeInit
<1> QED BY <1>1, <1>2, <1>6 DEF AccountInv

LEMMA AccountStep == AccountInv /\ [LifeNext]_lifeVars => AccountInv'
<1> SUFFICES ASSUME AccountInv, [LifeNext]_lifeVars PROVE AccountInv'
  OBVIOUS
<1> USE DEF schedVars, emitVars, countVars
<1>1. ASSUME NEW g \in Emitters, Emitter(g) PROVE AccountInv'
  BY <1>1, StartBalances, EachBalances, SubmitBalances, SentBalances, EndInlineBalances,
     ReturnBalances DEF Emitter
<1>2. ASSUME NEW e \in Events, WorkerTakes(e) \/ HandlerBlocks(e) \/ Worker(e) \/ Room(e)
      PROVE  AccountInv'
  <2>1. CASE WorkerTakes(e) BY <2>1, ShiftBalances DEF WorkerTakes
  <2>2. CASE HandlerBlocks(e) BY <2>2, NothingBalances DEF HandlerBlocks
  <2>3. CASE Worker(e) BY <2>3, WorkerBalances
  <2>4. CASE Room(e) BY <2>4, ShiftBalances DEF Room
  <2> QED BY <1>2, <2>1, <2>2, <2>3, <2>4
<1>3. ASSUME NEW d \in Closers, CloseStart(d) \/ CloseEnds(d) \/ DrainTimesOut(d)
      PROVE  AccountInv'
  BY <1>3, NothingBalances DEF CloseStart, CloseEnds, DrainTimesOut
<1>4. CASE StopScheduler
  <2>1. UNCHANGED <<free, offered, queued, running, dropped>>
    BY <1>4 DEF StopScheduler, D!Stop, D!places
  <2> QED BY <1>4, <2>1, NothingBalances DEF StopScheduler
<1>5. CASE ErrorHandler \/ ClearError
  BY <1>5, NothingBalances DEF ErrorHandler, ReceiveError, StoreError, SeeErrDone, ClearError
<1>6. CASE StatsBegin \/ StatsRead BY <1>6, NothingBalances DEF StatsBegin, StatsRead
<1>7. CASE UNCHANGED lifeVars BY <1>7, NothingBalances DEF lifeVars
<1> QED BY <1>1, <1>2, <1>3, <1>4, <1>5, <1>6, <1>7 DEF LifeNext

(* Each event that a call counts in, the async bus aside, ends as          *)
(* processed or as a panic, once, unless it is one of the exceptions that  *)
(* uncounted and dropped name (sync/bus.go 395-416, 447-453).              *)
THEOREM CountersBalance == LifeSpec => []CountersAgree
<1>1. AccountInv => CountersAgree
  <2> SUFFICES ASSUME AccountInv PROVE CountersAgree
    OBVIOUS
  <2>1. Accounted BY DEF AccountInv
  <2> QED BY <2>1 DEF Accounted, CountersAgree, Total, Cells, InScheduler
<1> QED BY <1>1, AccountInit, AccountStep, PTL DEF LifeSpec
-----------------------------------------------------------------------------
(***************************************************************************)
(* Stats reads slot by slot what only grows.                               *)
(***************************************************************************)
Turn(k) == IF k = "emitted" THEN 0 ELSE IF k = "processed" THEN 1 ELSE 2

(* How many slots of k Stats has read when it is at m.                     *)
Reached(m, k) ==
  LET r == m - 1 - Turn(k) * Slots
  IN IF r < 0 THEN 0 ELSE IF r > Slots THEN Slots ELSE r

StatsTypes ==
  /\ spc \in 0 .. 3 * Slots + 1
  /\ sum \in [Counters -> Int] /\ low \in [Counters -> Int]
  /\ spc = 0 => sum = [k \in Counters |-> 0]

(* What was read is no more than what the slots read hold now, and with    *)
(* the others it comes to no less than there was when Stats began.         *)
Between ==
  \A c, m :
    c = count /\ m = spc =>
      \A k \in Counters :
        /\ sum[k] <= SumOver(1 .. Reached(m, k), c[k])
        /\ m > 0 => low[k] <= sum[k] + SumOver(Reached(m, k) + 1 .. Slots, c[k])

StatsInv == StatsTypes /\ Between

LEMMA ReachedInt ==
  ASSUME NEW m \in Nat, NEW k \in Counters
  PROVE  Reached(m, k) \in 0 .. Slots
<1>1. Slots \in Nat BY BusConstants
<1>2. Turn(k) = 0 \/ Turn(k) = 1 \/ Turn(k) = 2 BY DEF Turn
<1>3. Turn(k) * Slots \in Nat BY <1>1, <1>2
<1>4. m - 1 - Turn(k) * Slots \in Int BY <1>3
<1> QED BY <1>1, <1>4 DEF Reached

LEMMA PartFinite ==
  ASSUME NEW a \in Int, NEW b \in Int
  PROVE  IsFiniteSet(a .. b)
BY FS_Interval

LEMMA PartInt ==
  ASSUME count \in [Counters -> [Cells -> Nat]], NEW k \in Counters,
         NEW a \in Int, NEW b \in Int, 1 <= a, b <= Slots
  PROVE  /\ \A s \in a .. b : s \in Cells /\ count[k][s] \in Nat
         /\ SumOver(a .. b, count[k]) \in Nat
<1>1. \A s \in a .. b : s \in Cells BY BusConstants DEF Cells
<1>2. \A s \in a .. b : count[k][s] \in Nat BY <1>1
<1> QED BY <1>1, <1>2, PartFinite, SumOfNaturals

LEMMA DivisionBySlots ==
  ASSUME NEW x \in Nat, x < 3 * Slots, NEW q, q = x \div Slots, NEW r, r = x % Slots
  PROVE  q \in 0 .. 2 /\ r \in 0 .. Slots - 1 /\ x = q * Slots + r
<1>1. Slots \in Nat \ {0} BY BusConstants
<1>2. q \in Nat /\ r \in 0 .. Slots - 1 /\ x = q * Slots + r BY <1>1
<1>3. q <= 2
  <2>1. ASSUME q >= 3 PROVE FALSE
    <3>1. q * Slots >= 3 * Slots BY <1>1, <1>2, <2>1
    <3>2. q * Slots \in Nat /\ 3 * Slots \in Nat BY <1>1, <1>2
    <3> QED BY <1>2, <3>1, <3>2
  <2> QED BY <1>2, <2>1
<1>4. q \in 0 .. 2 BY <1>2, <1>3
<1> QED BY <1>2, <1>4

LEMMA ReadingNext ==
  ASSUME NEW m \in 1 .. 3 * Slots,
         NEW k, k = ReadOrder[((m - 1) \div Slots) + 1], NEW s, s = ((m - 1) % Slots) + 1
  PROVE  /\ k \in Counters /\ s \in Cells
         /\ Reached(m, k) = s - 1 /\ Reached(m + 1, k) = s
         /\ \A j \in Counters \ {k} : Reached(m + 1, j) = Reached(m, j)
<1>0. PICK x, q, r : x = m - 1 /\ q = x \div Slots /\ r = x % Slots
  OBVIOUS
<1>1. Slots \in Nat \ {0} BY BusConstants
<1>2. x \in Nat /\ x < 3 * Slots BY <1>0, <1>1
<1>3. q \in 0 .. 2 /\ r \in 0 .. Slots - 1 /\ m - 1 = q * Slots + r
  <2>1. q \in 0 .. 2 /\ r \in 0 .. Slots - 1 /\ x = q * Slots + r
    BY <1>0, <1>2, DivisionBySlots
  <2> QED BY <1>0, <2>1
<1>4. k = ReadOrder[q + 1] /\ s = r + 1 BY <1>0
<1>5. k = (IF q = 0 THEN "emitted" ELSE IF q = 1 THEN "processed" ELSE "panics")
  BY <1>3, <1>4 DEF ReadOrder
<1>6. s \in Cells BY <1>1, <1>3, <1>4 DEF Cells
<1>7. CASE q = 0
  <2>1. m - 1 = r /\ k = "emitted" BY <1>1, <1>3, <1>5, <1>7
  <2> QED BY <1>1, <1>3, <1>4, <1>6, <2>1 DEF Reached, Turn, Counters
<1>8. CASE q = 1
  <2>1. m - 1 = Slots + r /\ k = "processed" BY <1>1, <1>3, <1>5, <1>8
  <2> QED BY <1>1, <1>3, <1>4, <1>6, <2>1 DEF Reached, Turn, Counters
<1>9. CASE q = 2
  <2>1. m - 1 = 2 * Slots + r /\ k = "panics" BY <1>1, <1>3, <1>5, <1>9
  <2> QED BY <1>1, <1>3, <1>4, <1>6, <2>1 DEF Reached, Turn, Counters
<1> QED BY <1>3, <1>7, <1>8, <1>9
-----------------------------------------------------------------------------
(* No counter goes down.                                                   *)
Up ==
  \A k \in Counters : \A s \in Cells :
    count'[k][s] \in Nat /\ count[k][s] \in Nat /\ count[k][s] <= count'[k][s]

LEMMA AddedUp ==
  ASSUME CallsInv, NEW k \in Counters, NEW s \in Cells, NEW n \in Nat, Add(k, s, n)
  PROVE  Up
<1>1. count \in [Counters -> [Cells -> Nat]] BY DEF CallsInv, CallTypes
<1>2. /\ count'[k][s] = count[k][s] + n
      /\ \A t \in Cells \ {s} : count'[k][t] = count[k][t]
      /\ \A j \in Counters \ {k} : count'[j] = count[j]
      /\ \A j \in Counters : \A t \in Cells : count'[j][t] \in Nat /\ count[j][t] \in Nat
  BY <1>1, Added
<1>3. \A t \in Cells : count[k][t] <= count'[k][t] BY <1>2
<1>4. \A j \in Counters \ {k} : \A t \in Cells : count[j][t] <= count'[j][t] BY <1>2
<1> QED BY <1>2, <1>3, <1>4 DEF Up

LEMMA CountGoesUp ==
  ASSUME CallsInv, [LifeNext]_lifeVars
  PROVE  Up
<1>1. CASE UNCHANGED count BY <1>1 DEF Up, CallsInv, CallTypes
<1> USE DEF countVars
<1>2. ASSUME NEW g \in Emitters, Emitter(g) PROVE Up
  <2>1. SlotOf[g] \in Cells BY BusConstants
  <2>2. CASE Start(g)
    <3> DEFINE events == plan.calls[g][call[g]].events
    <3>1. events \in Seq(Events)
      <4>1. plan.calls \in [Emitters -> Seq([op : {"emit", "match"}, batch : BOOLEAN, events : Seq(Events)])]
        BY BusConstants DEF CallsInv, CallTypes
      <4>2. call[g] \in DOMAIN plan.calls[g] BY <2>2 DEF Start
      <4> DEFINE R == [op : {"emit", "match"}, batch : BOOLEAN, events : Seq(Events)]
      <4> HIDE DEF R
      <4>3. plan.calls[g] \in Seq(R) BY <4>1 DEF R
      <4>4. plan.calls[g][call[g]] \in R BY <4>2, <4>3
      <4> QED BY <4>4 DEF R
    <3>2. UNCHANGED count \/ Add("emitted", SlotOf[g], Len(events)) BY <2>2 DEF Start
    <3> HIDE DEF events
    <3>3. Len(events) \in Nat BY <3>1
    <3> QED BY <1>1, <2>1, <3>2, <3>3, AddedUp DEF Counters
  <2>3. CASE Each(g)
    <3>1. UNCHANGED count \/ Add("emitted", SlotOf[g], 1) BY <2>3 DEF Each
    <3> QED BY <1>1, <2>1, <3>1, AddedUp DEF Counters
  <2>4. CASE Submit(g) BY <1>1, <2>4 DEF Submit
  <2>5. CASE Sent(g) BY <1>1, <2>5 DEF Sent
  <2>6. ASSUME NEW o, EndInline(g, o) PROVE Up
    <3>1. \/ UNCHANGED count \/ Add("panics", SlotOf[g], 1) \/ Add("processed", SlotOf[g], 1)
      BY <2>6 DEF EndInline
    <3> QED BY <1>1, <2>1, <3>1, AddedUp DEF Counters
  <2>7. CASE EmitReturns(g) BY <1>1, <2>7 DEF EmitReturns
  <2> QED BY <1>2, <2>2, <2>3, <2>4, <2>5, <2>6, <2>7 DEF Emitter
<1>3. ASSUME NEW e \in Events, WorkerTakes(e) \/ HandlerBlocks(e) \/ Worker(e) \/ Room(e)
      PROVE  Up
  <2>1. CASE WorkerTakes(e) BY <1>1, <2>1 DEF WorkerTakes
  <2>2. CASE HandlerBlocks(e) BY <1>1, <2>2 DEF HandlerBlocks
  <2>3. CASE WorkerSkips(e) BY <1>1, <2>3 DEF WorkerSkips
  <2>4. ASSUME NEW o, WorkerEnds(e, o) PROVE Up
    <3>1. Add("panics", WorkerSlot, 1) \/ Add("processed", WorkerSlot, 1) BY <2>4 DEF WorkerEnds
    <3> QED BY <3>1, BusConstants, AddedUp DEF Counters
  <2>5. CASE Room(e) BY <1>1, <2>5 DEF Room
  <2> QED BY <1>3, <2>1, <2>2, <2>3, <2>4, <2>5 DEF Worker
<1>4. ASSUME NEW d \in Closers, CloseStart(d) \/ CloseEnds(d) \/ DrainTimesOut(d)
      PROVE  Up
  BY <1>1, <1>4 DEF CloseStart, CloseEnds, DrainTimesOut
<1>5. CASE StopScheduler BY <1>1, <1>5 DEF StopScheduler
<1>6. CASE ErrorHandler \/ ClearError
  BY <1>1, <1>6 DEF ErrorHandler, ReceiveError, StoreError, SeeErrDone, ClearError
<1>7. CASE StatsBegin \/ StatsRead BY <1>1, <1>7 DEF StatsBegin, StatsRead
<1>8. CASE UNCHANGED lifeVars BY <1>1, <1>8 DEF lifeVars
<1> QED BY <1>2, <1>3, <1>4, <1>5, <1>6, <1>7, <1>8 DEF LifeNext

LEMMA StatsInit == LifeInit => StatsInv
<1> SUFFICES ASSUME LifeInit PROVE StatsInv
  OBVIOUS
<1>1. /\ spc = 0 /\ sum = [k \in Counters |-> 0] /\ low = [k \in Counters |-> 0]
      /\ count \in [Counters -> [Cells -> Nat]]
  BY DEF LifeInit, Cells
<1>2. Slots \in Nat BY BusConstants
<1>3. StatsTypes BY <1>1, <1>2 DEF StatsTypes
<1>4. ASSUME NEW m, m = spc, NEW k \in Counters
      PROVE  sum[k] <= SumOver(1 .. Reached(m, k), count[k])
  <2>1. Reached(m, k) \in 0 .. Slots BY <1>1, <1>4, ReachedInt
  <2>2. SumOver(1 .. Reached(m, k), count[k]) \in Nat BY <1>1, <1>2, <2>1, PartInt
  <2>3. sum[k] = 0 BY <1>1
  <2> QED BY <2>2, <2>3
<1>5. Between BY <1>1, <1>4 DEF Between
<1> QED BY <1>3, <1>5 DEF StatsInv

LEMMA StatsWaits ==
  ASSUME CallsInv, StatsInv, Up, UNCHANGED <<spc, sum, low>>,
         count' \in [Counters -> [Cells -> Nat]]
  PROVE  StatsInv'
<1>1. StatsTypes' BY DEF StatsInv, StatsTypes
<1>2. spc \in Nat /\ Slots \in Nat BY BusConstants DEF StatsInv, StatsTypes
<1>3. ASSUME NEW k \in Counters
      PROVE  /\ sum'[k] <= SumOver(1 .. Reached(spc, k), count'[k])
             /\ (spc > 0 => low'[k] <= sum'[k] + SumOver(Reached(spc, k) + 1 .. Slots, count'[k]))
  <2> DEFINE a == 1 .. Reached(spc, k)
             b == Reached(spc, k) + 1 .. Slots
             f == count[k]
             h == count'[k]
  <2>1. Reached(spc, k) \in 0 .. Slots BY <1>2, ReachedInt
  <2>2. IsFiniteSet(a) /\ IsFiniteSet(b) BY <1>2, <2>1, PartFinite
  <2>3. \A s \in Cells : f[s] \in Int /\ h[s] \in Int /\ f[s] <= h[s] BY DEF Up
  <2>4. a \subseteq Cells /\ b \subseteq Cells BY <1>2, <2>1 DEF Cells
  <2>5. sum[k] <= SumOver(a, f) /\ (spc > 0 => low[k] <= sum[k] + SumOver(b, f))
    BY DEF StatsInv, Between
  <2>6. sum[k] \in Int /\ low[k] \in Int BY DEF StatsInv, StatsTypes
  <2> HIDE DEF a, b, f, h
  <2>7. \A s \in a : f[s] \in Int /\ h[s] \in Int /\ f[s] <= h[s] BY <2>3, <2>4
  <2>8. \A s \in b : f[s] \in Int /\ h[s] \in Int /\ f[s] <= h[s] BY <2>3, <2>4
  <2>9. SumOver(a, f) \in Int /\ SumOver(a, h) \in Int /\ SumOver(a, f) <= SumOver(a, h)
    BY <2>2, <2>7, SumOfGreater
  <2>10. SumOver(b, f) \in Int /\ SumOver(b, h) \in Int /\ SumOver(b, f) <= SumOver(b, h)
    BY <2>2, <2>8, SumOfGreater
  <2>11. sum[k] <= SumOver(a, h) BY <2>5, <2>6, <2>9
  <2>12. ASSUME spc > 0 PROVE low[k] <= sum[k] + SumOver(b, h)
    <3>1. low[k] <= sum[k] + SumOver(b, f) BY <2>5, <2>12
    <3> QED BY <2>6, <2>10, <3>1
  <2> QED BY <2>11, <2>12 DEF a, b, h
<1>4. Between' BY <1>3 DEF Between
<1> QED BY <1>1, <1>4 DEF StatsInv

LEMMA StatsBegins ==
  ASSUME CallsInv, StatsInv, StatsBegin
  PROVE  StatsInv'
<1>1. /\ spc = 0 /\ spc' = 1 /\ UNCHANGED <<sum, count>>
      /\ low' = [k \in Counters |-> SumOver(Cells, count[k])]
  BY DEF StatsBegin, countVars, Total, Cells
<1>2. sum = [k \in Counters |-> 0] BY <1>1 DEF StatsInv, StatsTypes
<1>3. Slots \in Nat \ {0} /\ count \in [Counters -> [Cells -> Nat]]
  BY BusConstants DEF CallsInv, CallTypes
<1>4. \A k \in Counters : low'[k] = SumOver(Cells, count[k]) /\ low'[k] \in Int
  BY <1>1, TotalsAreNatural
<1>5. low' \in [Counters -> Int] BY <1>1, <1>4
<1>6. StatsTypes' BY <1>1, <1>3, <1>5 DEF StatsInv, StatsTypes
<1>7. ASSUME NEW k \in Counters
      PROVE  /\ sum'[k] <= SumOver(1 .. Reached(1, k), count'[k])
             /\ low'[k] <= sum'[k] + SumOver(Reached(1, k) + 1 .. Slots, count'[k])
  <2>1. Reached(1, k) = 0 BY <1>3 DEF Reached, Turn
  <2>2. SumOver(1 .. 0, count[k]) = 0 BY SumOfNone
  <2>3. sum'[k] = 0 BY <1>1, <1>2
  <2>4. Reached(1, k) + 1 .. Slots = Cells BY <2>1 DEF Cells
  <2>5. SumOver(Cells, count[k]) \in Nat BY TotalsAreNatural
  <2> QED BY <1>1, <1>4, <2>1, <2>2, <2>3, <2>4, <2>5
<1>8. Between' BY <1>1, <1>7 DEF Between
<1> QED BY <1>6, <1>8 DEF StatsInv

LEMMA StatsReads ==
  ASSUME CallsInv, StatsInv, StatsRead
  PROVE  StatsInv'
<1>1. PICK k, s : /\ k = ReadOrder[((spc - 1) \div Slots) + 1] /\ s = ((spc - 1) % Slots) + 1
                  /\ sum' = [sum EXCEPT ![k] = @ + count[k][s]]
  BY DEF StatsRead
<1>2. /\ spc \in 1 .. 3 * Slots /\ spc' = spc + 1 /\ UNCHANGED <<low, count>>
  BY DEF StatsRead, countVars
<1>3. Slots \in Nat \ {0} /\ count \in [Counters -> [Cells -> Nat]]
  BY BusConstants DEF CallsInv, CallTypes
<1>4. /\ k \in Counters /\ s \in Cells
      /\ Reached(spc, k) = s - 1 /\ Reached(spc + 1, k) = s
      /\ \A j \in Counters \ {k} : Reached(spc + 1, j) = Reached(spc, j)
  BY <1>1, <1>2, ReadingNext
<1>5. sum \in [Counters -> Int] /\ low \in [Counters -> Int] BY DEF StatsInv, StatsTypes
<1>6. count[k][s] \in Nat BY <1>3, <1>4
<1>7. /\ sum' \in [Counters -> Int] /\ sum'[k] = sum[k] + count[k][s]
      /\ \A j \in Counters \ {k} : sum'[j] = sum[j]
  BY <1>1, <1>4, <1>5, <1>6
<1>8. StatsTypes' BY <1>2, <1>3, <1>5, <1>7 DEF StatsTypes
<1>9. \A j \in Counters :
        /\ sum[j] <= SumOver(1 .. Reached(spc, j), count[j])
        /\ low[j] <= sum[j] + SumOver(Reached(spc, j) + 1 .. Slots, count[j])
  <2>1. spc > 0 BY <1>2, <1>3
  <2> QED BY <2>1 DEF StatsInv, Between
<1>10. ASSUME NEW j \in Counters, j # k
       PROVE  /\ sum'[j] <= SumOver(1 .. Reached(spc + 1, j), count'[j])
              /\ low'[j] <= sum'[j] + SumOver(Reached(spc + 1, j) + 1 .. Slots, count'[j])
  <2>1. Reached(spc + 1, j) = Reached(spc, j) /\ sum'[j] = sum[j] BY <1>4, <1>7, <1>10
  <2> QED BY <1>2, <1>9, <2>1
<1>11. /\ sum'[k] <= SumOver(1 .. s, count[k])
       /\ low[k] <= sum'[k] + SumOver(s + 1 .. Slots, count[k])
  <2> DEFINE f == count[k]
             a == 1 .. s - 1
             b == s + 1 .. Slots
  <2>1. s \in 1 .. Slots BY <1>4 DEF Cells
  <2>2. IsFiniteSet(a) /\ IsFiniteSet(b) BY <1>3, <2>1, PartFinite
  <2>3. s \notin a /\ s \notin b BY <1>3, <2>1
  <2>4. 1 .. s = a \cup {s} /\ s .. Slots = b \cup {s} BY <1>3, <2>1
  <2>5. a \cup {s} \subseteq Cells /\ b \cup {s} \subseteq Cells BY <1>3, <2>1 DEF Cells
  <2>6. \A t \in Cells : f[t] \in Int BY <1>3, <1>4
  <2>7. sum[k] <= SumOver(a, f) /\ low[k] <= sum[k] + SumOver(s .. Slots, f)
    <3>1. Reached(spc, k) + 1 = s /\ Reached(spc, k) = s - 1 BY <1>4, <2>1
    <3> QED BY <1>4, <1>9, <3>1
  <2>8. sum'[k] = sum[k] + f[s] /\ f[s] \in Int /\ sum[k] \in Int /\ low[k] \in Int
    BY <1>4, <1>5, <1>6, <1>7
  <2> HIDE DEF f, a, b
  <2>9. \A t \in a \cup {s} : f[t] \in Int BY <2>5, <2>6
  <2>10. \A t \in b \cup {s} : f[t] \in Int BY <2>5, <2>6
  <2>11. SumOver(a, f) \in Int /\ SumOver(a \cup {s}, f) = SumOver(a, f) + f[s]
    BY <2>2, <2>3, <2>9, SumWith
  <2>12. SumOver(b, f) \in Int /\ SumOver(b \cup {s}, f) = SumOver(b, f) + f[s]
    BY <2>2, <2>3, <2>10, SumWith
  <2>13. sum'[k] <= SumOver(a \cup {s}, f) BY <2>7, <2>8, <2>11
  <2>14. low[k] <= sum'[k] + SumOver(b, f)
    <3>1. low[k] <= sum[k] + SumOver(b \cup {s}, f) BY <2>4, <2>7
    <3> QED BY <2>8, <2>12, <3>1
  <2> QED BY <2>4, <2>13, <2>14 DEF f, b
<1>12. ASSUME NEW j \in Counters
       PROVE  /\ sum'[j] <= SumOver(1 .. Reached(spc + 1, j), count'[j])
              /\ low'[j] <= sum'[j] + SumOver(Reached(spc + 1, j) + 1 .. Slots, count'[j])
  <2>1. CASE j # k BY <1>10, <2>1
  <2>2. CASE j = k BY <1>2, <1>4, <1>11, <2>2
  <2> QED BY <2>1, <2>2
<1>13. Between' BY <1>2, <1>12 DEF Between
<1> QED BY <1>8, <1>13 DEF StatsInv

LEMMA StatsStep == CallsInv /\ CallsInv' /\ StatsInv /\ [LifeNext]_lifeVars => StatsInv'
<1> SUFFICES ASSUME CallsInv, CallsInv', StatsInv, [LifeNext]_lifeVars PROVE StatsInv'
  OBVIOUS
<1>1. Up /\ count' \in [Counters -> [Cells -> Nat]] BY CountGoesUp DEF CallsInv, CallTypes
<1>2. CASE UNCHANGED <<spc, sum, low>> BY <1>1, <1>2, StatsWaits
<1> USE DEF statsVars
<1>3. ASSUME NEW g \in Emitters, Emitter(g) PROVE StatsInv'
  BY <1>2, <1>3 DEF Emitter, Start, Each, Submit, Sent, EndInline, EmitReturns
<1>4. ASSUME NEW e \in Events, WorkerTakes(e) \/ HandlerBlocks(e) \/ Worker(e) \/ Room(e)
      PROVE  StatsInv'
  BY <1>2, <1>4 DEF WorkerTakes, HandlerBlocks, Worker, WorkerSkips, WorkerEnds, Room
<1>5. ASSUME NEW d \in Closers, CloseStart(d) \/ CloseEnds(d) \/ DrainTimesOut(d)
      PROVE  StatsInv'
  BY <1>2, <1>5 DEF CloseStart, CloseEnds, DrainTimesOut
<1>6. CASE StopScheduler BY <1>2, <1>6 DEF StopScheduler
<1>7. CASE ErrorHandler \/ ClearError
  BY <1>2, <1>7 DEF ErrorHandler, ReceiveError, StoreError, SeeErrDone, ClearError
<1>8. CASE StatsBegin BY <1>8, StatsBegins
<1>9. CASE StatsRead BY <1>9, StatsReads
<1>10. CASE UNCHANGED lifeVars BY <1>2, <1>10 DEF lifeVars
<1> QED BY <1>3, <1>4, <1>5, <1>6, <1>7, <1>8, <1>9, <1>10 DEF LifeNext

(* Stats gives for each counter a value it had while Stats ran, or passed  *)
(* through, although the slots are read at different times, and counts no  *)
(* more as processed than was emitted when it returns (util.go 59-66,      *)
(* sync/bus.go 447-459).                                                   *)
THEOREM StatsReadsWithin == LifeSpec => []StatsInWindow
<1>1. AccountInv /\ StatsInv => StatsInWindow
  <2> SUFFICES ASSUME AccountInv, StatsInv, spc > 3 * Slots
               PROVE  /\ \A k \in Counters : low[k] <= sum[k] /\ sum[k] <= Total(k)
                      /\ kind = "pool" => sum["processed"] + sum["panics"] <= Total("emitted")
    BY DEF StatsInWindow
  <2>1. Slots \in Nat \ {0} BY BusConstants
  <2>2. spc = 3 * Slots + 1 BY <2>1 DEF StatsInv, StatsTypes
  <2>3. ASSUME NEW k \in Counters
        PROVE  /\ low[k] <= sum[k] /\ sum[k] <= Total(k)
               /\ Total(k) \in Nat /\ sum[k] \in Int
    <3>1. Reached(spc, k) = Slots
      <4>1. Turn(k) = 0 \/ Turn(k) = 1 \/ Turn(k) = 2 BY DEF Turn
      <4> QED BY <2>1, <2>2, <4>1 DEF Reached
    <3>2. /\ sum[k] <= SumOver(1 .. Slots, count[k])
          /\ low[k] <= sum[k] + SumOver(Slots + 1 .. Slots, count[k])
      <4>1. spc > 0 BY <2>1, <2>2
      <4> QED BY <3>1, <4>1 DEF StatsInv, Between
    <3>3. Slots + 1 .. Slots = {} BY <2>1
    <3>4. SumOver(Slots + 1 .. Slots, count[k]) = 0 BY <3>3, SumOfNone
    <3>5. Total(k) = SumOver(1 .. Slots, count[k]) BY DEF Total
    <3>6. Total(k) \in Nat BY TotalsAreNatural DEF AccountInv, Total, Cells
    <3>7. sum[k] \in Int /\ low[k] \in Int BY DEF StatsInv, StatsTypes
    <3> QED BY <3>2, <3>4, <3>5, <3>6, <3>7
  <2>4. ASSUME kind = "pool" PROVE Total("processed") + Total("panics") <= Total("emitted")
    <3>1. \A g \in Emitters : InCall(g) \in Nat
      <4>1. \A g \in Emitters :
              Len(todo[g]) \in Nat /\ (epc[g] = "sent" => Len(todo[g]) > 0)
        BY DEF AccountInv, CallsInv, CallTypes, CallsGoOn
      <4> QED BY <4>1 DEF InCall
    <3> DEFINE f == [g \in Emitters |-> InCall(g)]
    <3>2. \A g \in Emitters : f[g] \in Nat BY <3>1
    <3>3. Total("emitted")
            = Total("processed") + Total("panics") + uncounted + Cardinality(InScheduler)
              + SumOver(Emitters, f)
      BY <2>4 DEF AccountInv, Accounted, Total, Cells
    <3> HIDE DEF f
    <3>4. SumOver(Emitters, f) \in Nat BY <3>2, BusConstants, SumOfNaturals
    <3>5. uncounted \in Nat /\ Cardinality(InScheduler) \in Nat BY Unmoved
    <3>6. Total("processed") \in Nat /\ Total("panics") \in Nat BY <2>3 DEF Counters
    <3> QED BY <3>3, <3>4, <3>5, <3>6
  <2>5. /\ sum["processed"] <= Total("processed") /\ sum["panics"] <= Total("panics")
        /\ Total("processed") \in Nat /\ Total("panics") \in Nat /\ Total("emitted") \in Nat
        /\ sum["processed"] \in Int /\ sum["panics"] \in Int
    BY <2>3 DEF Counters
  <2> QED BY <2>3, <2>4, <2>5
<1>2. AccountInv /\ StatsInv /\ [LifeNext]_lifeVars => (AccountInv /\ StatsInv)'
  BY AccountStep, StatsStep DEF AccountInv
<1> QED BY <1>1, <1>2, AccountInit, StatsInit, PTL DEF LifeSpec
-----------------------------------------------------------------------------
(***************************************************************************)
(* Errors are numbered as they are reported, and go through errChan in     *)
(* that order.                                                             *)
(***************************************************************************)
Numbers == Nat \ {0}
Waiting == 1 .. Len(errChan)

ErrorTypes ==
  /\ reported \in Nat /\ errChan \in Seq(Numbers) /\ held \in Nat
  /\ stored \subseteq Nat /\ byWorkers \subseteq Numbers
  /\ hpc \notin {"store", "drainStore"} => held = 0

(* errorHandler begins to drain only when the workers have gone.           *)
Closing ==
  /\ errDone => kind = "pool" /\ phase = "joined"
  /\ phase = "joined" => running = {}
  /\ hpc \in {"drain", "drainStore", "gone"} => errDone

(* An error of a worker is stored, or on its way.                          *)
OnTheWay ==
  /\ \A n \in byWorkers : n \in stored \/ n = held \/ \E i \in Waiting : errChan[i] = n
  /\ hpc = "gone" => byWorkers \subseteq stored

(* Those on their way follow those that were stored.                       *)
InOrder ==
  ~overflowed =>
    /\ lastErr = 0 \/ \A n \in stored : n <= lastErr
    /\ \A n \in stored :
         /\ n <= reported /\ (held # 0 => n < held)
         /\ \A i \in Waiting : n < errChan[i]
    /\ held <= reported
    /\ \A i \in Waiting : held < errChan[i] /\ errChan[i] <= reported
    /\ \A i, j \in Waiting : i < j => errChan[i] < errChan[j]

ErrorsInv == ErrorTypes /\ Closing /\ OnTheWay /\ InOrder

(* What the parts other than Closing depend on.                            *)
Kept == ErrorTypes /\ OnTheWay /\ InOrder

LEMMA ErrorsInit == LifeInit => ErrorsInv
<1> SUFFICES ASSUME LifeInit PROVE ErrorsInv
  OBVIOUS
<1>1. /\ errChan = << >> /\ errDone = FALSE /\ lastErr = 0 /\ hpc \in {"select", "none"}
      /\ held = 0 /\ reported = 0 /\ byWorkers = {} /\ stored = {}
      /\ running = {} /\ phase = "running"
  BY DEF LifeInit, D!Init
<1>2. Len(errChan) = 0 BY <1>1
<1>3. Waiting = {} BY <1>2 DEF Waiting
<1>4. ErrorTypes BY <1>1 DEF ErrorTypes
<1>5. Closing BY <1>1 DEF Closing
<1>6. OnTheWay BY <1>1 DEF OnTheWay
<1>7. InOrder BY <1>1, <1>3 DEF InOrder
<1> QED BY <1>4, <1>5, <1>6, <1>7 DEF ErrorsInv

LEMMA ErrorAdded ==
  ASSUME ErrorTypes, NEW n \in Numbers, errChan' = Append(errChan, n)
  PROVE  /\ errChan' \in Seq(Numbers) /\ Waiting' = Waiting \cup {Len(errChan) + 1}
         /\ errChan'[Len(errChan) + 1] = n
         /\ \A i \in Waiting : errChan'[i] = errChan[i] /\ i < Len(errChan) + 1
<1>1. errChan \in Seq(Numbers) /\ Len(errChan) \in Nat BY DEF ErrorTypes
<1>2. /\ errChan' \in Seq(Numbers) /\ Len(errChan') = Len(errChan) + 1
      /\ errChan'[Len(errChan) + 1] = n
      /\ \A i \in 1 .. Len(errChan) : errChan'[i] = errChan[i]
  BY <1>1
<1>3. Waiting' = Waiting \cup {Len(errChan) + 1} BY <1>1, <1>2 DEF Waiting
<1> QED BY <1>1, <1>2, <1>3 DEF Waiting

LEMMA ErrorTaken ==
  ASSUME ErrorTypes, errChan # << >>, errChan' = Tail(errChan)
  PROVE  /\ errChan' \in Seq(Numbers) /\ Head(errChan) = errChan[1] /\ errChan[1] \in Numbers
         /\ 1 \in Waiting /\ Waiting \subseteq Nat
         /\ \A i \in Waiting' : i + 1 \in Waiting /\ errChan'[i] = errChan[i + 1] /\ i \in Numbers
         /\ \A i \in Waiting \ {1} : i - 1 \in Waiting' /\ errChan'[i - 1] = errChan[i]
<1>1. errChan \in Seq(Numbers) /\ Len(errChan) \in Nat \ {0} BY DEF ErrorTypes
<1>2. /\ errChan' \in Seq(Numbers) /\ Len(errChan') = Len(errChan) - 1
      /\ Head(errChan) = errChan[1]
      /\ \A i \in 1 .. Len(errChan) - 1 : errChan'[i] = errChan[i + 1]
  BY <1>1
<1>3. Waiting' = 1 .. Len(errChan) - 1 BY <1>2 DEF Waiting
<1>4. \A i \in Waiting' : i + 1 \in Waiting /\ errChan'[i] = errChan[i + 1] /\ i \in Numbers
  BY <1>1, <1>2, <1>3 DEF Waiting, Numbers
<1>5. ASSUME NEW i \in Waiting \ {1}
      PROVE  i - 1 \in Waiting' /\ errChan'[i - 1] = errChan[i]
  <2>1. i \in Nat /\ i - 1 \in 1 .. Len(errChan) - 1 BY <1>1 DEF Waiting
  <2>2. (i - 1) + 1 = i BY <2>1
  <2> QED BY <1>2, <1>3, <2>1, <2>2
<1>6. 1 \in Waiting /\ Waiting \subseteq Nat BY <1>1 DEF Waiting
<1>7. errChan[1] \in Numbers BY <1>1
<1> QED BY <1>2, <1>4, <1>5, <1>6, <1>7

LEMMA Reports ==
  ASSUME Kept, NEW w \in BOOLEAN, w => hpc # "gone", Report(w)
  PROVE  Kept'
<1> USE DEF Kept
<1> DEFINE n == reported + 1
<1>1. n \in Numbers /\ n \in Nat /\ n > reported /\ reported \in Nat BY DEF ErrorTypes, Numbers
<1>2. /\ reported' = n /\ hpc' = hpc /\ held' = held
      /\ byWorkers' \subseteq byWorkers \cup {n} /\ (~w => byWorkers' = byWorkers)
  BY DEF Report
<1> HIDE DEF n
<1>3. CASE errChan' = Append(errChan, n) /\ UNCHANGED <<lastErr, stored, overflowed>>
  <2> DEFINE z == Len(errChan) + 1
  <2>1. /\ errChan' \in Seq(Numbers) /\ Waiting' = Waiting \cup {z} /\ errChan'[z] = n
        /\ \A i \in Waiting : errChan'[i] = errChan[i] /\ i < z
    BY <1>1, <1>3, ErrorAdded
  <2>2. z \in Nat /\ Waiting \subseteq Nat BY DEF ErrorTypes, Waiting
  <2> HIDE DEF z
  <2>3. ErrorTypes' BY <1>1, <1>2, <1>3, <2>1 DEF ErrorTypes
  <2>4. OnTheWay'
    <3>1. ASSUME NEW m \in byWorkers'
          PROVE  m \in stored' \/ m = held' \/ \E i \in Waiting' : errChan'[i] = m
      BY <1>2, <1>3, <2>1 DEF OnTheWay
    <3>2. ASSUME hpc' = "gone" PROVE byWorkers' \subseteq stored'
      BY <1>2, <1>3, <3>2 DEF OnTheWay
    <3> QED BY <3>1, <3>2 DEF OnTheWay
  <2>5. ASSUME ~overflowed' PROVE
          /\ lastErr' = 0 \/ \A m \in stored' : m <= lastErr'
          /\ \A m \in stored' :
               /\ m <= reported' /\ (held' # 0 => m < held')
               /\ \A i \in Waiting' : m < errChan'[i]
          /\ held' <= reported'
          /\ \A i \in Waiting' : held' < errChan'[i] /\ errChan'[i] <= reported'
          /\ \A i, j \in Waiting' : i < j => errChan'[i] < errChan'[j]
    <3>1. ~overflowed BY <1>3, <2>5
    <3>2. stored \subseteq Nat /\ held \in Nat BY DEF ErrorTypes
    <3>3. \A i \in Waiting : errChan[i] \in Nat BY DEF ErrorTypes, Waiting, Numbers
    <3>4. lastErr' = 0 \/ \A m \in stored' : m <= lastErr' BY <1>3, <3>1 DEF InOrder
    <3>5. ASSUME NEW m \in stored'
          PROVE  m <= reported' /\ (held' # 0 => m < held') /\ \A i \in Waiting' : m < errChan'[i]
      <4>1. /\ m \in Nat /\ m <= reported /\ (held # 0 => m < held)
            /\ \A i \in Waiting : m < errChan[i]
        BY <1>3, <3>1, <3>2, <3>5 DEF InOrder
      <4>2. m < n BY <1>1, <4>1
      <4> QED BY <1>1, <1>2, <2>1, <4>1, <4>2
    <3>6. held <= reported /\ \A i \in Waiting : held < errChan[i] /\ errChan[i] <= reported
      BY <3>1 DEF InOrder
    <3>7. held < n /\ \A i \in Waiting : errChan[i] < n BY <1>1, <3>2, <3>3, <3>6
    <3>8. held' <= reported' BY <1>1, <1>2, <3>2, <3>7
    <3>9. \A i \in Waiting' : held' < errChan'[i] /\ errChan'[i] <= reported'
      BY <1>1, <1>2, <2>1, <3>3, <3>6, <3>7
    <3>10. ASSUME NEW i \in Waiting', NEW j \in Waiting', i < j PROVE errChan'[i] < errChan'[j]
      <4>1. i \in Waiting BY <2>1, <2>2, <3>10
      <4>2. CASE j \in Waiting BY <2>1, <3>1, <3>10, <4>1, <4>2 DEF InOrder
      <4>3. CASE j = z BY <2>1, <3>7, <4>1, <4>3
      <4> QED BY <2>1, <4>2, <4>3
    <3> QED BY <3>4, <3>5, <3>8, <3>9, <3>10
  <2>6. InOrder' BY <2>5 DEF InOrder
  <2> QED BY <2>3, <2>4, <2>6
<1>4. CASE /\ errChan' = errChan /\ stored' = stored \cup {n} /\ overflowed' = TRUE
  <2>1. ErrorTypes' BY <1>1, <1>2, <1>4 DEF ErrorTypes, Numbers
  <2>2. OnTheWay' BY <1>2, <1>4 DEF OnTheWay, Waiting
  <2>3. InOrder' BY <1>4 DEF InOrder
  <2> QED BY <2>1, <2>2, <2>3
<1> QED BY <1>3, <1>4 DEF Report, n

LEMMA ErrorReceived == ASSUME Kept, ReceiveError PROVE Kept'
<1> USE DEF Kept
<1>1. /\ hpc \in {"select", "drain"} /\ errChan # << >> /\ errChan' = Tail(errChan)
      /\ held' = Head(errChan) /\ hpc' \in {"store", "drainStore"}
      /\ UNCHANGED <<lastErr, reported, byWorkers, stored, overflowed>>
  BY DEF ReceiveError
<1>2. /\ errChan' \in Seq(Numbers) /\ held' = errChan[1] /\ errChan[1] \in Numbers
      /\ 1 \in Waiting /\ Waiting \subseteq Nat
      /\ \A i \in Waiting' : i + 1 \in Waiting /\ errChan'[i] = errChan[i + 1] /\ i \in Numbers
      /\ \A i \in Waiting \ {1} : i - 1 \in Waiting' /\ errChan'[i - 1] = errChan[i]
  BY <1>1, ErrorTaken
<1>3. held = 0 BY <1>1 DEF ErrorTypes
<1>4. ErrorTypes' BY <1>1, <1>2 DEF ErrorTypes, Numbers
<1>5. OnTheWay'
  <2>1. ASSUME NEW m \in byWorkers'
        PROVE  m \in stored' \/ m = held' \/ \E i \in Waiting' : errChan'[i] = m
    <3>1. m # 0 BY <1>1, <2>1 DEF ErrorTypes, Numbers
    <3>2. CASE m \in stored BY <1>1, <3>2
    <3>3. ASSUME NEW i \in Waiting, errChan[i] = m
          PROVE  m = held' \/ \E k \in Waiting' : errChan'[k] = m
      <4>1. CASE i = 1 BY <1>2, <3>3, <4>1
      <4>2. CASE i # 1 BY <1>2, <3>3, <4>2
      <4> QED BY <4>1, <4>2
    <3> QED BY <1>1, <1>3, <2>1, <3>1, <3>2, <3>3 DEF OnTheWay
  <2> QED BY <1>1, <2>1 DEF OnTheWay
<1>6. ASSUME ~overflowed PROVE
        /\ lastErr = 0 \/ \A m \in stored : m <= lastErr
        /\ \A m \in stored :
             /\ m <= reported /\ m < held'
             /\ \A i \in Waiting' : m < errChan'[i]
        /\ held' <= reported
        /\ \A i \in Waiting' : held' < errChan'[i] /\ errChan'[i] <= reported
        /\ \A i, j \in Waiting' : i < j => errChan'[i] < errChan'[j]
  <2>1. /\ lastErr = 0 \/ \A m \in stored : m <= lastErr
        /\ \A m \in stored : m <= reported /\ \A i \in Waiting : m < errChan[i]
        /\ \A i \in Waiting : errChan[i] <= reported
        /\ \A i, j \in Waiting : i < j => errChan[i] < errChan[j]
    BY <1>6 DEF InOrder
  <2>2. \A i \in Waiting' : i + 1 \in Waiting /\ 1 < i + 1 /\ errChan'[i] = errChan[i + 1]
    BY <1>2 DEF Numbers
  <2>3. \A i \in Waiting' : held' < errChan'[i] /\ errChan'[i] <= reported
    BY <1>2, <2>1, <2>2
  <2>4. \A i, j \in Waiting' : i < j => errChan'[i] < errChan'[j]
    <3>1. ASSUME NEW i \in Waiting', NEW j \in Waiting', i < j
          PROVE  errChan'[i] < errChan'[j]
      <4>1. i + 1 < j + 1 BY <1>2, <3>1 DEF Numbers
      <4> QED BY <2>1, <2>2, <4>1
    <3> QED BY <3>1
  <2> QED BY <1>2, <2>1, <2>2, <2>3, <2>4
<1>7. InOrder' BY <1>1, <1>6 DEF InOrder
<1> QED BY <1>4, <1>5, <1>7

LEMMA ErrorStored == ASSUME Kept, StoreError PROVE Kept'
<1> USE DEF Kept
<1>1. /\ hpc \in {"store", "drainStore"} /\ hpc' \in {"select", "drain"}
      /\ lastErr' = held /\ stored' = stored \cup {held} /\ held' = 0
      /\ UNCHANGED <<errChan, reported, byWorkers, overflowed>>
  BY DEF StoreError
<1>2. Waiting' = Waiting BY <1>1 DEF Waiting
<1>3. ErrorTypes' BY <1>1 DEF ErrorTypes
<1>4. OnTheWay' BY <1>1, <1>2 DEF OnTheWay
<1>5. ASSUME ~overflowed PROVE
        /\ held = 0 \/ \A m \in stored \cup {held} : m <= held
        /\ \A m \in stored \cup {held} : m <= reported /\ \A i \in Waiting : m < errChan[i]
        /\ 0 <= reported
        /\ \A i \in Waiting : 0 < errChan[i] /\ errChan[i] <= reported
        /\ \A i, j \in Waiting : i < j => errChan[i] < errChan[j]
  <2>1. /\ \A m \in stored : m <= reported /\ (held # 0 => m < held)
        /\ \A m \in stored : \A i \in Waiting : m < errChan[i]
        /\ held <= reported
        /\ \A i \in Waiting : held < errChan[i] /\ errChan[i] <= reported
        /\ \A i, j \in Waiting : i < j => errChan[i] < errChan[j]
    BY <1>5 DEF InOrder
  <2>2. held \in Nat /\ reported \in Nat /\ stored \subseteq Nat BY DEF ErrorTypes
  <2>3. \A i \in Waiting : errChan[i] \in Nat /\ 0 < errChan[i]
    BY DEF ErrorTypes, Waiting, Numbers
  <2>4. held = 0 \/ \A m \in stored \cup {held} : m <= held BY <2>1, <2>2
  <2> QED BY <2>1, <2>2, <2>3, <2>4
<1>6. InOrder' BY <1>1, <1>2, <1>5 DEF InOrder
<1> QED BY <1>3, <1>4, <1>6

LEMMA ErrDoneSeen == ASSUME Kept, SeeErrDone PROVE Kept'
<1> USE DEF Kept
<1>1. /\ UNCHANGED <<errChan, lastErr, held, reported, byWorkers, stored, overflowed>>
      /\ \/ hpc = "select" /\ hpc' = "drain"
         \/ hpc = "drain" /\ errChan = << >> /\ hpc' = "gone"
  BY DEF SeeErrDone
<1>2. Waiting' = Waiting BY <1>1 DEF Waiting
<1>3. ErrorTypes' BY <1>1 DEF ErrorTypes
<1>4. InOrder' BY <1>1, <1>2 DEF InOrder
<1>5. \A m \in byWorkers' : m \in stored' \/ m = held' \/ \E i \in Waiting' : errChan'[i] = m
  BY <1>1, <1>2 DEF OnTheWay
<1>6. ASSUME hpc' = "gone" PROVE byWorkers' \subseteq stored'
  <2> USE <1>1, <1>6
  <2>1. Len(errChan) = 0 OBVIOUS
  <2>2. Waiting = {} BY <2>1 DEF Waiting
  <2>3. held = 0 /\ \A m \in byWorkers : m # 0 BY DEF ErrorTypes, Numbers
  <2> QED BY <2>2, <2>3 DEF OnTheWay
<1>7. OnTheWay' BY <1>5, <1>6 DEF OnTheWay
<1> QED BY <1>3, <1>4, <1>7

LEMMA ErrorCleared == ASSUME Kept, ClearError PROVE Kept'
<1>1. lastErr' = 0 /\ UNCHANGED <<errChan, hpc, held, reported, byWorkers, stored, overflowed>>
  BY DEF ClearError
<1>2. Waiting' = Waiting BY <1>1 DEF Waiting
<1> QED BY <1>1, <1>2 DEF Kept, ErrorTypes, OnTheWay, InOrder

LEMMA ErrorsUntouched == ASSUME Kept, UNCHANGED errVars PROVE Kept'
<1>1. UNCHANGED <<errChan, lastErr, hpc, held, reported, byWorkers, stored, overflowed>>
  BY DEF errVars
<1>2. Waiting' = Waiting BY <1>1 DEF Waiting
<1> QED BY <1>1, <1>2 DEF Kept, ErrorTypes, OnTheWay, InOrder

LEMMA KeptStep == ErrorsInv /\ [LifeNext]_lifeVars => Kept'
<1> SUFFICES ASSUME ErrorsInv, [LifeNext]_lifeVars PROVE Kept'
  OBVIOUS
<1>1. Kept BY DEF ErrorsInv, Kept
<1>2. CASE UNCHANGED errVars BY <1>1, <1>2, ErrorsUntouched
<1>3. ASSUME NEW g \in Emitters, Emitter(g) PROVE Kept'
  <2>1. ASSUME NEW o, EndInline(g, o) PROVE UNCHANGED errVars \/ Report(FALSE)
    BY <2>1 DEF EndInline
  <2>2. CASE Report(FALSE) BY <1>1, <2>2, Reports
  <2>3. CASE Start(g) \/ Each(g) \/ Submit(g) \/ Sent(g) \/ EmitReturns(g)
    BY <1>2, <2>3 DEF Start, Each, Submit, Sent, EmitReturns
  <2> QED BY <1>2, <1>3, <2>1, <2>2, <2>3 DEF Emitter
<1>4. ASSUME NEW e \in Events, WorkerTakes(e) \/ HandlerBlocks(e) \/ Worker(e) \/ Room(e)
      PROVE  Kept'
  <2>1. ASSUME NEW o, WorkerEnds(e, o) PROVE UNCHANGED errVars \/ Report(TRUE)
    BY <2>1 DEF WorkerEnds
  <2>2. ASSUME NEW o, WorkerEnds(e, o), Report(TRUE) PROVE Kept'
    <3>1. running # {} BY <2>2 DEF WorkerEnds, D!Finish
    <3>2. hpc # "gone" BY <3>1 DEF ErrorsInv, Closing
    <3> QED BY <1>1, <2>2, <3>2, Reports
  <2>3. CASE WorkerTakes(e) \/ HandlerBlocks(e) \/ WorkerSkips(e) \/ Room(e)
    BY <1>2, <2>3 DEF WorkerTakes, HandlerBlocks, WorkerSkips, Room
  <2> QED BY <1>2, <1>4, <2>1, <2>2, <2>3 DEF Worker
<1>5. ASSUME NEW d \in Closers, CloseStart(d) \/ CloseEnds(d) \/ DrainTimesOut(d)
      PROVE  Kept'
  BY <1>2, <1>5 DEF CloseStart, CloseEnds, DrainTimesOut
<1>6. CASE StopScheduler BY <1>2, <1>6 DEF StopScheduler
<1>7. CASE ErrorHandler BY <1>1, <1>7, ErrorReceived, ErrorStored, ErrDoneSeen DEF ErrorHandler
<1>8. CASE ClearError BY <1>1, <1>8, ErrorCleared
<1>9. CASE StatsBegin \/ StatsRead BY <1>2, <1>9 DEF StatsBegin, StatsRead
<1>10. CASE UNCHANGED lifeVars BY <1>2, <1>10 DEF lifeVars
<1> QED BY <1>3, <1>4, <1>5, <1>6, <1>7, <1>8, <1>9, <1>10 DEF LifeNext

LEMMA ClosingStep == ErrorsInv /\ [LifeNext]_lifeVars => Closing'
<1> SUFFICES ASSUME Closing, [LifeNext]_lifeVars PROVE Closing'
  BY DEF ErrorsInv
<1>1. CASE /\ UNCHANGED <<plan, errDone, phase>>
           /\ (phase = "joined" => running' \subseteq running)
           /\ (hpc' = hpc \/ hpc' \notin {"drain", "drainStore", "gone"})
  BY <1>1 DEF Closing, kind
<1> USE DEF schedVars, errVars
<1>2. ASSUME NEW g \in Emitters, Emitter(g) PROVE Closing'
  <2>1. ASSUME NEW o, EndInline(g, o) PROVE Closing'
    BY <1>1, <2>1 DEF EndInline, Report
  <2>2. CASE Submit(g) BY <1>1, <2>2 DEF Submit, D!Submit
  <2>3. CASE Start(g) \/ Each(g) \/ Sent(g) \/ EmitReturns(g)
    BY <1>1, <2>3 DEF Start, Each, Sent, EmitReturns
  <2> QED BY <1>2, <2>1, <2>2, <2>3 DEF Emitter
<1>3. ASSUME NEW e \in Events
      PROVE  WorkerTakes(e) \/ HandlerBlocks(e) \/ Worker(e) \/ Room(e) => Closing'
  <2>1. CASE WorkerTakes(e) BY <1>1, <2>1 DEF WorkerTakes, D!Take
  <2>2. CASE HandlerBlocks(e) BY <1>1, <2>2 DEF HandlerBlocks
  <2>3. CASE WorkerSkips(e) BY <1>1, <2>3 DEF WorkerSkips, D!Finish
  <2>4. ASSUME NEW o, WorkerEnds(e, o) PROVE Closing'
    BY <1>1, <2>4 DEF WorkerEnds, D!Finish, Report
  <2>5. CASE Room(e) BY <1>1, <2>5 DEF Room, D!Queue, D!Drop
  <2> QED BY <2>1, <2>2, <2>3, <2>4, <2>5 DEF Worker
<1>4. ASSUME NEW d \in Closers, CloseStart(d) \/ CloseEnds(d) \/ DrainTimesOut(d)
      PROVE  Closing'
  <2>1. CASE CloseStart(d) \/ DrainTimesOut(d) BY <1>1, <2>1 DEF CloseStart, DrainTimesOut
  <2>2. CASE CloseEnds(d)
    <3>1. /\ errDone' = (kind = "pool") /\ (kind = "sync" \/ phase = "joined")
          /\ UNCHANGED <<plan, phase, running, hpc>>
      BY <2>2 DEF CloseEnds
    <3>2. kind' = kind BY <3>1 DEF kind
    <3>3. CASE kind = "pool" BY <3>1, <3>2, <3>3 DEF Closing
    <3>4. CASE kind # "pool" BY <3>1, <3>2, <3>4 DEF Closing
    <3> QED BY <3>3, <3>4
  <2> QED BY <1>4, <2>1, <2>2
<1>5. CASE StopScheduler
  <2>1. /\ UNCHANGED <<plan, errDone, hpc, running>> /\ D!Stop
    BY <1>5 DEF StopScheduler, D!Stop, D!places
  <2> QED BY <2>1 DEF Closing, D!Stop, kind
<1>6. CASE ErrorHandler \/ ClearError
  BY <1>6 DEF Closing, kind, ErrorHandler, ReceiveError, StoreError, SeeErrDone, ClearError
<1>7. CASE StatsBegin \/ StatsRead BY <1>1, <1>7 DEF StatsBegin, StatsRead
<1>8. CASE UNCHANGED lifeVars BY <1>1, <1>8 DEF lifeVars
<1> QED BY <1>2, <1>3, <1>4, <1>5, <1>6, <1>7, <1>8 DEF LifeNext

(* LastError is the newest error that was stored, unless errChan ran full, *)
(* and when the error handler has gone every error of a handler on a       *)
(* worker was stored: the workers go first, and errChan is emptied after   *)
(* them (sync/bus.go 112-120, 467-475, 516-538).                           *)
THEOREM NoErrorIsLost == LifeSpec => []ErrorsAreKept
<1>1. ErrorsInv => ErrorsAreKept BY DEF ErrorsInv, OnTheWay, InOrder, ErrorsAreKept
<1>2. ErrorsInv /\ [LifeNext]_lifeVars => ErrorsInv'
  BY KeptStep, ClosingStep DEF ErrorsInv, Kept
<1> QED BY <1>1, <1>2, ErrorsInit, PTL DEF LifeSpec
=============================================================================
