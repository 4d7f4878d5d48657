-------------------------- MODULE Delivery_proofs --------------------------
(* Theorems about Subscriptions and FlowSubscriptions, for any goroutines, *)
(* patterns and event types.                                               *)
EXTENDS Subscriptions, FlowSubscriptions, SequenceTheorems, FiniteSetTheorems,
        WellFoundedInduction, TLAPS

(***************************************************************************)
(* Lists of subscriptions.                                                 *)
(***************************************************************************)
LEMMA Appended ==
  ASSUME NEW s \in Seq(Ids), IsInjective(s), NEW i \in Ids, i \notin ToSet(s)
  PROVE  /\ Append(s, i) \in Seq(Ids)
         /\ ToSet(Append(s, i)) = ToSet(s) \cup {i}
         /\ IsInjective(Append(s, i))
<1> DEFINE t == Append(s, i)
           n == Len(s)
<1>1. /\ t \in Seq(Ids) /\ n \in Nat
      /\ DOMAIN t = 1 .. n + 1 /\ DOMAIN s = 1 .. n
      /\ t[n + 1] = i /\ \A j \in 1 .. n : t[j] = s[j]
  OBVIOUS
<1> HIDE DEF t, n
<1>2. ToSet(t) = ToSet(s) \cup {i} BY <1>1 DEF ToSet
<1>3. ASSUME NEW j \in DOMAIN t, NEW k \in DOMAIN t, t[j] = t[k] PROVE j = k
  <2>1. \A l \in 1 .. n : t[l] # i BY <1>1 DEF ToSet
  <2>2. \A a, b \in 1 .. n : s[a] = s[b] => a = b BY <1>1 DEF IsInjective
  <2> QED BY <1>1, <1>3, <2>1, <2>2
<1> QED BY <1>1, <1>2, <1>3 DEF t, IsInjective
-----------------------------------------------------------------------------
(***************************************************************************)
(* Lists that are gathered piece by piece: what Off leaves, and what is    *)
(* called for the patterns that the matcher found.                         *)
(***************************************************************************)
Less == {ss \in Nat \X Nat : ss[1] < ss[2]}

LEMMA InductionOverNat ==
  ASSUME NEW S, 0 \in S, \A n \in Nat : n \in S => n + 1 \in S
  PROVE  Nat \subseteq S
<1>0. IsWellFoundedOn(Less, Nat) BY NatLessThanWellFounded DEF OpToRel, Less
<1>1. SUFFICES ASSUME Nat \ S # {} PROVE FALSE
  OBVIOUS
<1>2. PICK m \in Nat \ S : \A k \in Nat \ S : <<k, m>> \notin Less
  BY <1>0, <1>1, WFMin
<1>3. m # 0 /\ m - 1 \in Nat BY <1>2
<1>4. m - 1 \in S
  <2>1. <<m - 1, m>> \in Less BY <1>3 DEF Less
  <2> QED BY <1>2, <1>3, <2>1
<1> QED BY <1>2, <1>3, <1>4

(* The function that FlattenSeq(G) is computed by, for G of length n.      *)
Flattens(f, G, n) == f = [i \in 1 .. n |-> IF i = 1 THEN G[i] ELSE f[i - 1] \o G[i]]

LEMMA FlattenSolved ==
  ASSUME NEW n \in Nat, NEW G PROVE \E f : Flattens(f, G, n)
<1> DEFINE S == {k \in Nat : \E f : Flattens(f, G, k)}
<1>1. 0 \in S
  <2>1. Flattens([i \in 1 .. 0 |-> << >>], G, 0) BY DEF Flattens
  <2> QED BY <2>1
<1>2. ASSUME NEW k \in Nat, k \in S PROVE k + 1 \in S
  <2>1. PICK g : Flattens(g, G, k) BY <1>2
  <2> DEFINE h == [i \in 1 .. k + 1 |->
                     IF i <= k THEN g[i] ELSE IF i = 1 THEN G[i] ELSE g[i - 1] \o G[i]]
  <2>2. h = [i \in 1 .. k + 1 |-> h[i]] OBVIOUS
  <2>3. \A i \in 1 .. k : i \in 1 .. k + 1 /\ h[i] = g[i] OBVIOUS
  <2>4. h[k + 1] = IF k + 1 = 1 THEN G[k + 1] ELSE g[k] \o G[k + 1]
    <3>1. k + 1 \in 1 .. k + 1 /\ ~(k + 1 <= k) /\ (k + 1) - 1 = k OBVIOUS
    <3> QED BY <3>1
  <2> HIDE DEF h
  <2>5. ASSUME NEW i \in 1 .. k + 1
        PROVE  h[i] = IF i = 1 THEN G[i] ELSE h[i - 1] \o G[i]
    <3>1. CASE i = k + 1
      <4>1. k # 0 => k \in 1 .. k /\ h[k] = g[k] BY <2>3
      <4> QED BY <2>4, <3>1, <4>1
    <3>2. CASE i # k + 1
      <4>1. i \in 1 .. k BY <3>2
      <4>2. g[i] = IF i = 1 THEN G[i] ELSE g[i - 1] \o G[i] BY <2>1, <4>1 DEF Flattens
      <4>3. i # 1 => i - 1 \in 1 .. k BY <4>1
      <4> QED BY <2>3, <4>1, <4>2, <4>3
    <3> QED BY <3>1, <3>2
  <2>6. Flattens(h, G, k + 1)
    <3>1. h = [i \in 1 .. k + 1 |-> IF i = 1 THEN G[i] ELSE h[i - 1] \o G[i]]
      BY <2>2, <2>5, Zenon
    <3> QED BY <3>1 DEF Flattens
  <2> QED BY <2>6
<1>3. n \in S
  <2> HIDE DEF S
  <2> QED BY <1>1, <1>2, InductionOverNat
<1> QED BY <1>3

LEMMA Concatenated ==
  ASSUME NEW V, NEW q \in Seq(V), NEW r \in Seq(V)
  PROVE  /\ q \o r \in Seq(V) /\ ToSet(q \o r) = ToSet(q) \cup ToSet(r)
         /\ IsInjective(q) /\ IsInjective(r) /\ ToSet(q) \cap ToSet(r) = {} => IsInjective(q \o r)
<1> DEFINE c == q \o r
           m == Len(q)
           n == Len(r)
<1>1. /\ m \in Nat /\ n \in Nat /\ c \in Seq(V)
      /\ DOMAIN q = 1 .. m /\ DOMAIN r = 1 .. n /\ DOMAIN c = 1 .. m + n
      /\ \A i \in 1 .. m : c[i] = q[i]
      /\ \A i \in 1 .. n : c[m + i] = r[i]
  OBVIOUS
<1> HIDE DEF c, m, n
<1>2. \A i \in 1 .. m + n : i \in 1 .. m \/ \E j \in 1 .. n : i = m + j
  <2> SUFFICES ASSUME NEW i \in 1 .. m + n, i \notin 1 .. m PROVE \E j \in 1 .. n : i = m + j
    OBVIOUS
  <2>1. i - m \in 1 .. n /\ i = m + (i - m) BY <1>1
  <2> QED BY <2>1
<1>3. \A i \in 1 .. m : i \in 1 .. m + n BY <1>1
<1>4. \A i \in 1 .. n : m + i \in 1 .. m + n BY <1>1
<1>5. ToSet(c) = ToSet(q) \cup ToSet(r)
  <2>1. ToSet(c) \subseteq ToSet(q) \cup ToSet(r)
    <3> SUFFICES ASSUME NEW i \in 1 .. m + n PROVE c[i] \in ToSet(q) \cup ToSet(r)
      BY <1>1 DEF ToSet
    <3> QED BY <1>1, <1>2 DEF ToSet
  <2>2. ToSet(q) \subseteq ToSet(c)
    <3> SUFFICES ASSUME NEW i \in 1 .. m PROVE q[i] \in ToSet(c)
      BY <1>1 DEF ToSet
    <3> QED BY <1>1, <1>3 DEF ToSet
  <2>3. ToSet(r) \subseteq ToSet(c)
    <3> SUFFICES ASSUME NEW i \in 1 .. n PROVE r[i] \in ToSet(c)
      BY <1>1 DEF ToSet
    <3> QED BY <1>1, <1>4 DEF ToSet
  <2> QED BY <2>1, <2>2, <2>3
<1>6. ASSUME IsInjective(q), IsInjective(r), ToSet(q) \cap ToSet(r) = {},
             NEW i \in 1 .. m + n, NEW j \in 1 .. m + n, c[i] = c[j]
      PROVE  i = j
  <2>1. \A a \in 1 .. m, b \in 1 .. n : q[a] # r[b] BY <1>1, <1>6 DEF ToSet
  <2>2. \A a, b \in 1 .. m : q[a] = q[b] => a = b BY <1>1, <1>6 DEF IsInjective
  <2>3. \A a, b \in 1 .. n : r[a] = r[b] => a = b BY <1>1, <1>6 DEF IsInjective
  <2>4. CASE i \in 1 .. m /\ j \in 1 .. m BY <1>1, <1>6, <2>2, <2>4
  <2>5. CASE i \in 1 .. m /\ \E b \in 1 .. n : j = m + b
    <3>1. PICK b \in 1 .. n : j = m + b BY <2>5
    <3>2. c[j] = r[b] /\ c[i] = q[i] BY <1>1, <2>5, <3>1
    <3> QED BY <1>6, <2>1, <2>5, <3>2
  <2>6. CASE j \in 1 .. m /\ \E b \in 1 .. n : i = m + b
    <3>1. PICK b \in 1 .. n : i = m + b BY <2>6
    <3>2. c[i] = r[b] /\ c[j] = q[j] BY <1>1, <2>6, <3>1
    <3> QED BY <1>6, <2>1, <2>6, <3>2
  <2>7. CASE (\E a \in 1 .. n : i = m + a) /\ (\E b \in 1 .. n : j = m + b)
    <3>1. PICK a \in 1 .. n, b \in 1 .. n : i = m + a /\ j = m + b BY <2>7
    <3>2. r[a] = r[b] BY <1>1, <1>6, <3>1
    <3> QED BY <2>3, <3>1, <3>2
  <2> QED BY <1>2, <2>4, <2>5, <2>6, <2>7
<1>7. IsInjective(q) /\ IsInjective(r) /\ ToSet(q) \cap ToSet(r) = {} => IsInjective(c)
  BY <1>1, <1>6 DEF IsInjective
<1> QED BY <1>1, <1>5, <1>7 DEF c

(* A flattened sequence has the elements of all pieces, each once if the   *)
(* pieces share none and have none twice.                                  *)
Pieces(G, n, V) ==
  /\ G \in [1 .. n -> Seq(V)] /\ \A k \in 1 .. n : IsInjective(G[k])
  /\ \A k, l \in 1 .. n : k # l => ToSet(G[k]) \cap ToSet(G[l]) = {}

LEMMA Flattened ==
  ASSUME NEW n \in Nat, NEW V, NEW G, Pieces(G, n, V)
  PROVE  /\ FlattenSeq(G) \in Seq(V) /\ IsInjective(FlattenSeq(G))
         /\ \A x : x \in ToSet(FlattenSeq(G)) <=> \E k \in 1 .. n : x \in ToSet(G[k])
<1>1. Len(G) = n /\ G = [k \in 1 .. n |-> G[k]] BY DEF Pieces
<1>2. CASE n = 0
  <2>1. G = << >> /\ FlattenSeq(G) = G BY <1>1, <1>2 DEF FlattenSeq
  <2>2. IsInjective(<< >>) /\ ToSet(<< >>) = {} BY DEF IsInjective, ToSet
  <2>3. << >> \in Seq(V) /\ 1 .. n = {} BY <1>2
  <2>4. FlattenSeq(G) = << >> BY <2>1
  <2> QED BY <2>2, <2>3, <2>4
<1>3. CASE n # 0
  <2> DEFINE Body(f) == [i \in 1 .. n |-> IF i = 1 THEN G[i] ELSE f[i - 1] \o G[i]]
             w == CHOOSE f : f = Body(f)
  <2>1. FlattenSeq(G) = w[n] BY <1>1, <1>3 DEF FlattenSeq
  <2>2. w = Body(w)
    <3>1. \E f : f = Body(f) BY FlattenSolved DEF Flattens
    <3> QED BY <3>1, Zenon
  <2> HIDE DEF w
  <2>3. \A i \in 1 .. n : w[i] = IF i = 1 THEN G[i] ELSE w[i - 1] \o G[i] BY <2>2
  <2> DEFINE Good(m) == /\ w[m] \in Seq(V) /\ IsInjective(w[m])
                        /\ \A x : x \in ToSet(w[m]) <=> \E k \in 1 .. m : x \in ToSet(G[k])
             S == {m \in Nat : m + 1 <= n => Good(m + 1)}
  <2>4. 0 \in S
    <3>1. 1 \in 1 .. n /\ w[1] = G[1] BY <1>3, <2>3
    <3>2. G[1] \in Seq(V) /\ IsInjective(G[1]) BY <3>1 DEF Pieces
    <3>3. 1 .. 1 = {1} OBVIOUS
    <3>4. Good(1) BY <3>1, <3>2, <3>3
    <3> QED BY <3>4
  <2>5. ASSUME NEW m \in Nat, m \in S PROVE m + 1 \in S
    <3> SUFFICES ASSUME m + 2 <= n PROVE Good(m + 2)
      BY SMT
    <3>1. Good(m + 1) BY <2>5
    <3>2. m + 2 \in 1 .. n /\ m + 2 # 1 /\ (m + 2) - 1 = m + 1 OBVIOUS
    <3>3. w[m + 2] = w[m + 1] \o G[m + 2] BY <2>3, <3>2
    <3>4. \A k \in 1 .. m + 1 : k \in 1 .. n /\ k # m + 2 OBVIOUS
    <3>5. G[m + 2] \in Seq(V) /\ IsInjective(G[m + 2]) BY <3>2 DEF Pieces
    <3>6. ToSet(w[m + 1]) \cap ToSet(G[m + 2]) = {} BY <3>1, <3>2, <3>4 DEF Pieces
    <3>7. /\ w[m + 2] \in Seq(V) /\ IsInjective(w[m + 2])
          /\ ToSet(w[m + 2]) = ToSet(w[m + 1]) \cup ToSet(G[m + 2])
      BY <3>1, <3>3, <3>5, <3>6, Concatenated
    <3>8. \A k : k \in 1 .. m + 2 <=> k \in 1 .. m + 1 \/ k = m + 2 OBVIOUS
    <3>9. ASSUME NEW x PROVE x \in ToSet(w[m + 2]) <=> \E k \in 1 .. m + 2 : x \in ToSet(G[k])
      <4>1. (\E k \in 1 .. m + 2 : x \in ToSet(G[k]))
              <=> (\E k \in 1 .. m + 1 : x \in ToSet(G[k])) \/ x \in ToSet(G[m + 2])
        BY <3>8
      <4> QED BY <3>1, <3>7, <4>1
    <3> QED BY <3>7, <3>9
  <2>6. n - 1 \in S
    <3> HIDE DEF S
    <3> QED BY <1>3, <2>4, <2>5, InductionOverNat
  <2>7. Good(n)
    <3>1. n - 1 \in Nat /\ (n - 1) + 1 = n BY <1>3
    <3>2. \A m \in S : m + 1 <= n => Good(m + 1) OBVIOUS
    <3> HIDE DEF Good, S
    <3> QED BY <2>6, <3>1, <3>2
  <2> QED BY <2>1, <2>7
<1> QED BY <1>2, <1>3

LEMMA ListedOnce ==
  ASSUME NEW S, IsFiniteSet(S)
  PROVE  SetToSeq(S) \in Seq(S) /\ IsInjective(SetToSeq(S)) /\ ToSet(SetToSeq(S)) = S
<1> DEFINE n == Cardinality(S)
           q == SetToSeq(S)
<1>1. n \in Nat /\ \E f : f \in Bijection(1 .. n, S)
  BY FS_CardinalityType DEF ExistsBijection
<1>2. PICK f : f \in Bijection(1 .. n, S) BY <1>1
<1>3. f \in [1 .. n -> S] /\ IsInjective(f)
  BY <1>2 DEF Bijection, Injection, IsInjective
<1>4. q \in [1 .. n -> S] /\ IsInjective(q) BY <1>3 DEF SetToSeq
<1> HIDE DEF n, q
<1>5. q \in Injection(1 .. n, S) BY <1>4 DEF Injection, IsInjective
<1>6. IsFiniteSet(1 .. n) /\ Cardinality(1 .. n) = n BY <1>1, FS_Interval
<1>7. q \in Surjection(1 .. n, S) BY <1>5, <1>6, FS_Injection DEF n
<1>8. ToSet(q) = S BY <1>4, <1>7 DEF Surjection, ToSet
<1>9. q \in Seq(S) BY <1>1, <1>4
<1> QED BY <1>4, <1>8, <1>9 DEF q

(* What the matcher answers.                                               *)
LEMMA MergedOnce ==
  ASSUME NEW e \in EventTypes, nextId \in Nat,
         \A p \in Patterns : ref[p] > 0 => \E i \in 1 .. nextId : pat[i] = p
  PROVE  /\ Merged(e) \in Seq(Covering[e]) /\ IsInjective(Merged(e))
         /\ ToSet(Merged(e)) = {p \in Covering[e] : ref[p] > 0}
<1> DEFINE T == {p \in Covering[e] : ref[p] > 0}
           D == {i \in 1 .. nextId : pat[i] \in T}
           f == [i \in D |-> pat[i]]
<1>0. Covering[e] \subseteq Patterns BY DeliveryAssumption
<1>1. IsFiniteSet(D)
  <2>1. nextId \in Nat /\ D \in SUBSET Nat /\ \A i \in D : i <= nextId
    OBVIOUS
  <2> HIDE DEF D
  <2> QED BY <2>1, FS_BoundedSetOfNaturals
<1>2. f \in [D -> T] /\ \A i \in D : f[i] = pat[i] OBVIOUS
<1>3. \A p \in T : \E i \in D : f[i] = p
  <2> SUFFICES ASSUME NEW p \in T PROVE \E i \in D : f[i] = p
    OBVIOUS
  <2>1. PICK i \in 1 .. nextId : pat[i] = p BY <1>0
  <2> QED BY <2>1
<1> HIDE DEF f, D
<1>4. f \in Surjection(D, T) BY <1>2, <1>3 DEF Surjection
<1>5. IsFiniteSet(T) BY <1>1, <1>4, FS_Surjection
<1>6. SetToSeq(T) \in Seq(T) /\ IsInjective(SetToSeq(T)) /\ ToSet(SetToSeq(T)) = T
  BY <1>5, ListedOnce
<1>7. SetToSeq(T) \in Seq(Covering[e])
  <2>1. T \subseteq Covering[e] OBVIOUS
  <2> HIDE DEF T
  <2> QED BY <1>6, <2>1
<1> QED BY <1>6, <1>7 DEF Merged

(* What it answers when it finds the event type among the exact patterns.  *)
LEMMA ExactAlone ==
  ASSUME NEW e \in EventTypes, exact \subseteq Patterns, e \in exact
  PROVE  <<e>> \in Seq(Covering[e]) /\ IsInjective(<<e>>) /\ ToSet(<<e>>) = {e}
<1>1. e \in Covering[e] BY DeliveryAssumption
<1>2. IsInjective(<<e>>) /\ ToSet(<<e>>) = {e} BY DEF IsInjective, ToSet
<1>3. \A S, x : x \in S => <<x>> \in Seq(S) OBVIOUS
<1> QED BY <1>1, <1>2, <1>3
-----------------------------------------------------------------------------
(***************************************************************************)
(* The buses with a mutex: lists of handlers.                              *)
(***************************************************************************)
LEMMA WithoutOne ==
  ASSUME NEW s \in Seq(Ids), IsInjective(s), NEW i
  PROVE  /\ Without(s, i) \in Seq(Ids) /\ IsInjective(Without(s, i))
         /\ ToSet(Without(s, i)) = ToSet(s) \ {i}
<1> DEFINE n == Len(s)
           G == [j \in DOMAIN s |-> IF s[j] = i THEN << >> ELSE <<s[j]>>]
<1>1. Without(s, i) = FlattenSeq(G) BY DEF Without
<1>2. n \in Nat /\ DOMAIN s = 1 .. n /\ \A k \in 1 .. n : s[k] \in Ids OBVIOUS
<1>3. \A k, l \in 1 .. n : s[k] = s[l] => k = l BY <1>2 DEF IsInjective
<1>4. ASSUME NEW k \in 1 .. n
      PROVE  /\ G[k] \in Seq(Ids) /\ IsInjective(G[k])
             /\ ToSet(G[k]) = {s[k]} \ {i}
  <2>1. G[k] = IF s[k] = i THEN << >> ELSE <<s[k]>> BY <1>2
  <2>2. \A j \in Ids : /\ <<j>> \in Seq(Ids) /\ IsInjective(<<j>>) /\ ToSet(<<j>>) = {j}
                       /\ << >> \in Seq(Ids) /\ IsInjective(<< >>) /\ ToSet(<< >>) = {}
    BY DEF IsInjective, ToSet
  <2> HIDE DEF G
  <2> QED BY <1>2, <2>1, <2>2
<1>5. G = [k \in 1 .. n |-> G[k]] BY <1>2
<1> HIDE DEF G, n
<1>6. G \in [1 .. n -> Seq(Ids)] BY <1>4, <1>5
<1>7. \A k, l \in 1 .. n : k # l => ToSet(G[k]) \cap ToSet(G[l]) = {}
  <2> SUFFICES ASSUME NEW k \in 1 .. n, NEW l \in 1 .. n, k # l
               PROVE  ToSet(G[k]) \cap ToSet(G[l]) = {}
    OBVIOUS
  <2>1. s[k] # s[l] BY <1>3
  <2> QED BY <1>4, <2>1
<1>8. Pieces(G, n, Ids) BY <1>4, <1>6, <1>7 DEF Pieces
<1>9. /\ FlattenSeq(G) \in Seq(Ids) /\ IsInjective(FlattenSeq(G))
      /\ \A x : x \in ToSet(FlattenSeq(G)) <=> \E k \in 1 .. n : x \in ToSet(G[k])
  BY <1>2, <1>8, Flattened
<1>10. \A x : (\E k \in 1 .. n : x \in ToSet(G[k])) <=> x \in ToSet(s) \ {i}
  <2>1. ToSet(s) = {s[k] : k \in 1 .. n} BY <1>2 DEF ToSet
  <2> QED BY <1>4, <2>1
<1> QED BY <1>1, <1>9, <1>10

LEMMA EmptyList == \A V : \A s \in Seq(V) : s = << >> <=> ToSet(s) = {}
<1> SUFFICES ASSUME NEW V, NEW s \in Seq(V) PROVE s = << >> <=> ToSet(s) = {}
  OBVIOUS
<1>1. CASE s = << >> BY <1>1 DEF ToSet
<1>2. CASE s # << >>
  <2>1. 1 \in DOMAIN s BY <1>2
  <2> QED BY <1>2, <2>1 DEF ToSet
<1> QED BY <1>1, <1>2

(* The next handler leaves the plan.                                       *)
LEMMA Taken ==
  ASSUME NEW s \in Seq(Ids), IsInjective(s), s # << >>
  PROVE  /\ Head(s) \in ToSet(s) /\ Head(s) \in Ids
         /\ Tail(s) \in Seq(Ids) /\ IsInjective(Tail(s)) /\ ToSet(Tail(s)) = ToSet(s) \ {Head(s)}
<1> DEFINE t == Tail(s)
           n == Len(s)
<1>1. /\ n \in Nat \ {0} /\ DOMAIN s = 1 .. n /\ Head(s) = s[1] /\ t \in Seq(Ids)
      /\ DOMAIN t = 1 .. n - 1 /\ \A k \in 1 .. n - 1 : t[k] = s[k + 1]
  OBVIOUS
<1>2. \A a, b \in 1 .. n : s[a] = s[b] => a = b BY <1>1 DEF IsInjective
<1> HIDE DEF t, n
<1>3. s[1] \in ToSet(s) /\ s[1] \in Ids
  <2>1. 1 \in 1 .. n BY <1>1
  <2> QED BY <1>1, <2>1 DEF ToSet
<1>4. ASSUME NEW a \in DOMAIN t, NEW b \in DOMAIN t, t[a] = t[b] PROVE a = b
  <2>1. a + 1 \in 1 .. n /\ b + 1 \in 1 .. n /\ a \in Nat /\ b \in Nat BY <1>1
  <2> QED BY <1>1, <1>2, <1>4, <2>1
<1>5. ASSUME NEW x \in ToSet(t) PROVE x \in ToSet(s) \ {s[1]}
  <2>1. PICK k \in 1 .. n - 1 : x = t[k] BY <1>1, <1>5 DEF ToSet
  <2>2. k + 1 \in 1 .. n /\ k + 1 # 1 /\ x = s[k + 1] /\ 1 \in 1 .. n BY <1>1, <2>1
  <2> QED BY <1>1, <1>2, <2>2 DEF ToSet
<1>6. ASSUME NEW x \in ToSet(s) \ {s[1]} PROVE x \in ToSet(t)
  <2>1. PICK k \in 1 .. n : x = s[k] /\ k # 1 BY <1>1, <1>6 DEF ToSet
  <2>2. k - 1 \in 1 .. n - 1 /\ (k - 1) + 1 = k BY <1>1, <2>1
  <2>3. x = t[k - 1] BY <1>1, <2>1, <2>2
  <2> QED BY <1>1, <2>2, <2>3 DEF ToSet
<1> QED BY <1>1, <1>3, <1>4, <1>5, <1>6 DEF t, IsInjective

(* Whom a snapshot has for an event type: the fast path is the map's       *)
(* answer, but for the empty string.                                       *)
LEMMA FastPath ==
  ASSUME NEW s, NEW e
  PROVE  \/ HandlersFor(s, e) = IF e \in Patterns THEN s[e] ELSE << >>
         \/ e = NoType /\ HandlersFor(s, e) = << >> /\ Keys(s) # {NoType}
<1>1. CASE Cardinality(Keys(s)) = 1
  <2>1. Keys(s) # {} BY <1>1, FS_EmptySet
  <2>2. SingleKey(s) \in Keys(s) BY <1>1, <2>1 DEF SingleKey
  <2>3. SingleKey(s) \in Patterns BY <2>2 DEF Keys
  <2>4. SingleHandlers(s) = s[SingleKey(s)] BY <1>1 DEF SingleHandlers
  <2> QED BY <2>3, <2>4 DEF HandlersFor
<1>2. CASE Cardinality(Keys(s)) # 1
  <2>1. Keys(s) # {NoType} BY <1>2, FS_Singleton
  <2>2. SingleKey(s) = NoType /\ SingleHandlers(s) = << >>
    BY <1>2 DEF SingleKey, SingleHandlers
  <2> QED BY <2>1, <2>2 DEF HandlersFor
<1> QED BY <1>1, <1>2

(* What a client plans that was told the patterns q.                       *)
PlannedFor(s, q) == FlattenSeq([j \in DOMAIN q |-> s[q[j]]])

LEMMA PlanGathered ==
  ASSUME NEW s \in [Patterns -> Seq(Ids)], \A p \in Patterns : IsInjective(s[p]),
         \A p, r \in Patterns : p # r => ToSet(s[p]) \cap ToSet(s[r]) = {},
         NEW q \in Seq(Patterns), IsInjective(q)
  PROVE  /\ PlannedFor(s, q) \in Seq(Ids) /\ IsInjective(PlannedFor(s, q))
         /\ \A x : x \in ToSet(PlannedFor(s, q)) <=> \E p \in ToSet(q) : x \in ToSet(s[p])
<1> DEFINE n == Len(q)
           G == [j \in DOMAIN q |-> s[q[j]]]
<1>1. PlannedFor(s, q) = FlattenSeq(G) BY DEF PlannedFor
<1>2. n \in Nat /\ DOMAIN q = 1 .. n /\ \A k \in 1 .. n : q[k] \in Patterns OBVIOUS
<1>3. \A k, l \in 1 .. n : q[k] = q[l] => k = l BY <1>2 DEF IsInjective
<1>4. \A k \in 1 .. n : G[k] = s[q[k]] BY <1>2
<1>5. G = [k \in 1 .. n |-> G[k]] BY <1>2
<1> HIDE DEF G, n
<1>6. G \in [1 .. n -> Seq(Ids)]
  <2>1. \A k \in 1 .. n : G[k] \in Seq(Ids) BY <1>2, <1>4
  <2> QED BY <1>5, <2>1
<1>7. \A k, l \in 1 .. n : k # l => ToSet(G[k]) \cap ToSet(G[l]) = {}
  <2> SUFFICES ASSUME NEW k \in 1 .. n, NEW l \in 1 .. n, k # l
               PROVE  ToSet(G[k]) \cap ToSet(G[l]) = {}
    OBVIOUS
  <2>1. q[k] # q[l] BY <1>3
  <2> QED BY <1>2, <1>4, <2>1
<1>8. Pieces(G, n, Ids) BY <1>2, <1>4, <1>6, <1>7 DEF Pieces
<1>9. /\ FlattenSeq(G) \in Seq(Ids) /\ IsInjective(FlattenSeq(G))
      /\ \A x : x \in ToSet(FlattenSeq(G)) <=> \E k \in 1 .. n : x \in ToSet(G[k])
  BY <1>2, <1>8, Flattened
<1>10. \A x : (\E k \in 1 .. n : x \in ToSet(G[k])) <=> \E p \in ToSet(q) : x \in ToSet(s[p])
  <2>1. ToSet(q) = {q[k] : k \in 1 .. n} BY <1>2 DEF ToSet
  <2>2. \A x : (\E p \in ToSet(q) : x \in ToSet(s[p])) <=> \E k \in 1 .. n : x \in ToSet(s[q[k]])
    BY <2>1
  <2> QED BY <1>4, <2>2
<1> QED BY <1>1, <1>9, <1>10
-----------------------------------------------------------------------------

(***************************************************************************)
(* The buses with a mutex: the inductive invariant of On and Off.          *)
(***************************************************************************)
BusPlaces ==
  EmitCalls \cup {"idle", "onStore", "onExact", "onAdd", "offRemove", "offCount", "offStore"}

BusTypes ==
  /\ subs \in Snapshots /\ ref \in [Patterns -> Nat]
  /\ exact \subseteq Patterns \ TooDeep
  /\ nextId \in 0 .. MaxId
  /\ pc \in [Clients -> BusPlaces] /\ arg = [c \in Clients |-> arg[c]]
  /\ pat = [i \in Ids |-> pat[i]] /\ \A i \in 1 .. nextId : pat[i] \in Patterns

Making(c) == pc[c] \in {"onStore", "onExact", "onAdd"}
Leaving(c) == pc[c] \in {"offRemove", "offCount", "offStore"}
Listed(i) == i \in ToSet(subs[pat[i]])

(* The snapshot lists each of its subscriptions once, under its pattern.   *)
ListedUnderPattern ==
  \A p \in Patterns :
    /\ IsInjective(subs[p])
    /\ \A i \in ToSet(subs[p]) : i \in MaybeThere /\ pat[i] = p

SureListed == sure \cup gone \subseteq 1 .. nextId /\ \A i \in sure : Listed(i)

(* In the middle of an On or Off, the client has the mutex.                *)
Exclusive == \A c \in Clients : pc[c] \in {"onExact", "onAdd", "offCount", "offStore"} => mu = c

(* An On at work alone knows its id, which is listed once it has stored it. *)
MakingNew ==
  \A c \in Clients :
    Making(c) =>
      /\ arg[c] \in (1 .. nextId) \ (sure \cup gone)
      /\ Listed(arg[c]) <=> pc[c] # "onStore"
      /\ \A d \in Clients \ {c} : Making(d) \/ Leaving(d) => arg[d] # arg[c]

LeavingKnown == \A c \in Clients : Leaving(c) => arg[c] \in (1 .. nextId) \ sure

(* Where an On or Off has left the matcher half-changed: an On has entered *)
(* its exact pattern, an Off has deleted that of its last subscription.    *)
Midway(c) ==
  /\ pc[c] = "onAdd" => pat[arg[c]] \in TooDeep \cup Wildcards \cup exact
  /\ pc[c] = "offCount" => ToSet(subs[pat[arg[c]]]) \subseteq {arg[c]}
  /\ pc[c] \in {"offCount", "offStore"} /\ ToSet(subs[pat[arg[c]]]) \subseteq {arg[c]} =>
       pat[arg[c]] \notin exact

(* The matcher has the pattern of each subscription that On returned, if   *)
(* it is not too deep for it; and what it has of exact patterns is listed, *)
(* until the last one leaves.                                              *)
MatcherServes ==
  /\ \A i \in sure : pat[i] \in TooDeep \/ (ref[pat[i]] > 0 /\ pat[i] \in Wildcards \cup exact)
  /\ \A p \in exact : ToSet(subs[p]) # {}
  /\ \A p \in Patterns : ref[p] > 0 => \E i \in 1 .. nextId : pat[i] = p
  /\ \A c \in Clients : Midway(c)

BusInv ==
  /\ BusTypes /\ ListedUnderPattern /\ SureListed /\ Exclusive
  /\ MakingNew /\ LeavingKnown /\ MatcherServes

LEMMA BusInitially == Init => BusInv
<1> SUFFICES ASSUME Init PROVE BusInv
  OBVIOUS
<1>1. /\ nextId = 0 /\ sure = {} /\ gone = {} /\ exact = {} /\ 1 .. nextId = {}
      /\ \A p \in Patterns : subs[p] = << >> /\ ref[p] = 0
      /\ \A c \in Clients : pc[c] = "idle"
  BY DEF Init
<1>2. IsInjective(<< >>) /\ ToSet(<< >>) = {} BY DEF IsInjective, ToSet
<1>3. BusTypes
  <2>1. subs \in Snapshots BY DEF Init, Snapshots
  <2> QED BY <1>1, <2>1, DeliveryAssumption DEF Init, BusTypes, BusPlaces
<1> QED
  BY <1>1, <1>2, <1>3
  DEF BusInv, ListedUnderPattern, SureListed, Exclusive, MakingNew, LeavingKnown, MatcherServes,
      Making, Leaving, Midway

(* A step of a client that is not in the middle of an On or Off, and that  *)
(* leaves what they work on alone.                                         *)
LEMMA BusStays ==
  ASSUME BusInv, NEW c \in Clients, UNCHANGED <<subs, ref, exact, mu, nextId, pat, sure, gone>>,
         pc' = [pc EXCEPT ![c] = pc'[c]], pc'[c] \in BusPlaces,
         arg' = [d \in Clients |-> arg'[d]], \A d \in Clients \ {c} : arg'[d] = arg[d],
         ~Making(c)', ~Leaving(c)'
  PROVE  BusInv'
<1>0. pc \in [Clients -> BusPlaces] BY DEF BusInv, BusTypes
<1>1. \A d \in Clients \ {c} : pc'[d] = pc[d] /\ arg'[d] = arg[d] BY <1>0
<1>2. BusTypes' BY <1>0 DEF BusInv, BusTypes, Snapshots
<1>3. ListedUnderPattern' BY DEF BusInv, ListedUnderPattern, MaybeThere
<1>4. SureListed' BY DEF BusInv, SureListed, Listed
<1>5. \A d \in Clients : /\ Making(d)' => Making(d) /\ d # c
                         /\ Leaving(d)' => Leaving(d) /\ d # c
  BY <1>1 DEF Making, Leaving
<1>6. Exclusive' BY <1>1, <1>5 DEF BusInv, Exclusive, Making, Leaving
<1>7. MakingNew' BY <1>1, <1>5 DEF BusInv, MakingNew, Listed
<1>8. LeavingKnown' BY <1>1, <1>5 DEF BusInv, LeavingKnown
<1>9. MatcherServes'
  <2>1. \A d \in Clients : Midway(d)'
    <3>1. Midway(c)' BY DEF Midway, Making, Leaving
    <3>2. \A d \in Clients \ {c} : Midway(d)'
      BY <1>1 DEF BusInv, MatcherServes, Midway
    <3> QED BY <3>1, <3>2
  <2> QED BY <2>1 DEF BusInv, MatcherServes
<1> QED BY <1>2, <1>3, <1>4, <1>6, <1>7, <1>8, <1>9 DEF BusInv

LEMMA BusStartsOn ==
  ASSUME BusInv, NEW c \in Clients, NEW p \in Patterns, OnStart(c, p)
  PROVE  BusInv'
<1> DEFINE i == nextId + 1
<1>0. /\ UNCHANGED <<subs, ref, exact, mu, sure, gone>> /\ pc[c] = "idle"
      /\ nextId' = i /\ nextId \in Nat /\ i \in 1 .. MaxId
      /\ pat' = [pat EXCEPT ![i] = p] /\ arg' = [arg EXCEPT ![c] = i]
      /\ pc' = [pc EXCEPT ![c] = "onStore"]
      /\ pc \in [Clients -> BusPlaces] /\ arg = [d \in Clients |-> arg[d]]
      /\ pat = [j \in Ids |-> pat[j]]
  BY DeliveryAssumption DEF OnStart, matcherVars, history, BusInv, BusTypes
<1>1. /\ pc'[c] = "onStore" /\ arg'[c] = i
      /\ \A d \in Clients \ {c} : pc'[d] = pc[d] /\ arg'[d] = arg[d]
  BY <1>0
<1>2. /\ pat'[i] = p /\ \A j \in 1 .. nextId : pat'[j] = pat[j] /\ j \in 1 .. nextId' /\ j # i
      /\ i \in 1 .. nextId' /\ \A j \in 1 .. nextId' : j \in 1 .. nextId \/ j = i
  BY <1>0 DEF Ids
<1> HIDE DEF i
<1>3. BusTypes'
  <2>1. nextId' \in 0 .. MaxId BY <1>0
  <2>2. pc' \in [Clients -> BusPlaces] BY <1>0 DEF BusPlaces
  <2>3. \A j \in 1 .. nextId' : pat'[j] \in Patterns BY <1>2 DEF BusInv, BusTypes
  <2> QED BY <1>0, <2>1, <2>2, <2>3 DEF BusInv, BusTypes, Snapshots
<1>4. \A r \in Patterns : \A j \in ToSet(subs[r]) : j \in 1 .. nextId /\ pat'[j] = pat[j] /\ j # i
  BY <1>2 DEF BusInv, ListedUnderPattern, MaybeThere
<1>5. ListedUnderPattern'
  BY <1>0, <1>2, <1>4 DEF BusInv, ListedUnderPattern, MaybeThere
<1>6. SureListed' BY <1>0, <1>2 DEF BusInv, SureListed, Listed
<1>7. Exclusive' BY <1>0, <1>1 DEF BusInv, Exclusive
<1>k. \A d \in Clients : Making(d) \/ Leaving(d) => arg[d] \in 1 .. nextId
  BY DEF BusInv, MakingNew, LeavingKnown
<1>8. MakingNew'
  <2> SUFFICES ASSUME NEW d \in Clients, Making(d)'
               PROVE  /\ arg'[d] \in (1 .. nextId') \ (sure' \cup gone')
                      /\ Listed(arg[d])' <=> pc'[d] # "onStore"
                      /\ \A b \in Clients \ {d} : Making(b)' \/ Leaving(b)' => arg'[b] # arg'[d]
    BY DEF MakingNew
  <2>1. \A b \in Clients \ {c} : Making(b)' \/ Leaving(b)' => arg'[b] \in 1 .. nextId
    BY <1>1, <1>k DEF Making, Leaving
  <2>2. CASE d = c
    <3>1. i \notin sure \cup gone BY <1>2 DEF BusInv, SureListed
    <3>2. ~Listed(arg[d])' BY <1>0, <1>1, <1>2, <1>4, <2>2 DEF Listed
    <3> QED BY <1>0, <1>1, <1>2, <2>1, <2>2, <3>1, <3>2
  <2>3. CASE d # c
    <3>1. Making(d) /\ arg'[d] = arg[d] /\ pc'[d] = pc[d] BY <1>1, <2>3 DEF Making
    <3>2. Listed(arg[d])' <=> Listed(arg[d]) BY <1>0, <1>2, <1>k, <3>1 DEF Listed
    <3>3. /\ arg[d] \in (1 .. nextId) \ (sure \cup gone)
          /\ Listed(arg[d]) <=> pc[d] # "onStore"
          /\ \A b \in Clients \ {d} : Making(b) \/ Leaving(b) => arg[b] # arg[d]
      BY <3>1 DEF BusInv, MakingNew
    <3>4. \A b \in Clients \ {d} : Making(b)' \/ Leaving(b)' => arg'[b] # arg'[d]
      BY <1>1, <1>2, <3>1, <3>3 DEF Making, Leaving
    <3> QED BY <1>0, <1>2, <3>1, <3>2, <3>3, <3>4
  <2> QED BY <2>2, <2>3
<1>9. LeavingKnown' BY <1>0, <1>1, <1>2 DEF BusInv, LeavingKnown, Leaving
<1>10. MatcherServes'
  <2>1. \A j \in sure : pat'[j] = pat[j] BY <1>2 DEF BusInv, SureListed
  <2>2. \A r \in Patterns : ref[r] > 0 => \E j \in 1 .. nextId' : pat'[j] = r
    BY <1>2 DEF BusInv, MatcherServes
  <2>4. \A d \in Clients : Midway(d)'
    <3>1. Midway(c)' BY <1>1 DEF Midway
    <3>2. ASSUME NEW d \in Clients \ {c} PROVE Midway(d)'
      <4>1. CASE Making(d) \/ Leaving(d)
        <5>1. Midway(d) BY DEF BusInv, MatcherServes
        <5>2. pat'[arg[d]] = pat[arg[d]] BY <1>2, <1>k, <4>1
        <5>3. pc'[d] = pc[d] /\ arg'[d] = arg[d] BY <1>1
        <5>4. subs' = subs /\ exact' = exact BY <1>0
        <5>5. pat'[arg'[d]] = pat[arg[d]] BY <5>2, <5>3
        <5> QED BY <5>1, <5>3, <5>4, <5>5, Zenon DEF Midway
      <4>2. CASE ~Making(d) /\ ~Leaving(d)
        BY <1>1, <4>2 DEF Midway, Making, Leaving
      <4> QED BY <4>1, <4>2
    <3> QED BY <3>1, <3>2
  <2>5. \A j \in sure : pat'[j] \in TooDeep \/ (ref[pat'[j]] > 0 /\ pat'[j] \in Wildcards \cup exact)
    BY <2>1 DEF BusInv, MatcherServes
  <2>6. \A r \in exact : ToSet(subs[r]) # {} BY DEF BusInv, MatcherServes
  <2> QED BY <1>0, <2>2, <2>4, <2>5, <2>6 DEF MatcherServes
<1> QED BY <1>3, <1>5, <1>6, <1>7, <1>8, <1>9, <1>10 DEF BusInv

LEMMA BusStores ==
  ASSUME BusInv, NEW c \in Clients, OnStore(c)
  PROVE  BusInv'
<1> DEFINE a == arg[c]
           p == pat[a]
<1>0. /\ UNCHANGED <<ref, exact, nextId, arg, pat, sure, gone>>
      /\ pc[c] = "onStore" /\ mu = NoClient /\ mu' = c
      /\ subs' = [subs EXCEPT ![p] = Append(subs[p], a)]
      /\ pc' = [pc EXCEPT ![c] = "onExact"]
      /\ pc \in [Clients -> BusPlaces] /\ subs \in [Patterns -> Seq(Ids)]
  BY DEF OnStore, matcherVars, history, BusInv, BusTypes, Snapshots
<1>1. pc'[c] = "onExact" /\ \A d \in Clients \ {c} : pc'[d] = pc[d] BY <1>0
<1>2. /\ a \in (1 .. nextId) \ (sure \cup gone) /\ ~Listed(a)
      /\ \A b \in Clients \ {c} : Making(b) \/ Leaving(b) => arg[b] # a
  <2>1. Making(c) /\ pc[c] = "onStore" BY <1>0 DEF Making
  <2> QED BY <2>1 DEF BusInv, MakingNew
<1>3. a \in Ids /\ p \in Patterns
  <2>1. nextId \in 0 .. MaxId /\ MaxId \in Nat BY DeliveryAssumption DEF BusInv, BusTypes
  <2>2. a \in Ids BY <1>2, <2>1 DEF Ids
  <2> QED BY <1>2, <2>2 DEF BusInv, BusTypes
<1>4. /\ subs[p] \in Seq(Ids) /\ IsInjective(subs[p]) /\ a \notin ToSet(subs[p])
  BY <1>0, <1>2, <1>3 DEF BusInv, ListedUnderPattern, Listed
<1>5. /\ subs'[p] \in Seq(Ids) /\ IsInjective(subs'[p])
      /\ ToSet(subs'[p]) = ToSet(subs[p]) \cup {a}
      /\ \A r \in Patterns \ {p} : subs'[r] = subs[r]
  <2>1. subs'[p] = Append(subs[p], a) /\ \A r \in Patterns \ {p} : subs'[r] = subs[r]
    BY <1>0, <1>3
  <2> QED BY <1>3, <1>4, <2>1, Appended
<1>6. \A j \in 1 .. nextId : Listed(j)' <=> Listed(j) \/ j = a
  <2> SUFFICES ASSUME NEW j \in 1 .. nextId PROVE Listed(j)' <=> Listed(j) \/ j = a
    OBVIOUS
  <2>1. pat[j] \in Patterns BY DEF BusInv, BusTypes
  <2>2. CASE pat[j] = p BY <1>0, <1>5, <2>2 DEF Listed
  <2>3. CASE pat[j] # p BY <1>0, <1>5, <2>1, <2>3 DEF Listed
  <2> QED BY <2>2, <2>3
<1>7. \A d \in Clients \ {c} : pc[d] \notin {"onExact", "onAdd", "offCount", "offStore"}
  BY <1>0, SubscriptionsAssumption DEF BusInv, Exclusive
<1>8. BusTypes'
  <2>1. subs' \in Snapshots BY <1>0, <1>5 DEF Snapshots
  <2>2. pc' \in [Clients -> BusPlaces] BY <1>0 DEF BusPlaces
  <2> QED BY <1>0, <2>1, <2>2 DEF BusInv, BusTypes
<1>k. p = pat[a] OBVIOUS
<1> HIDE DEF a, p
<1>9. ListedUnderPattern'
  <2> SUFFICES ASSUME NEW r \in Patterns
               PROVE  /\ IsInjective(subs'[r])
                      /\ \A j \in ToSet(subs'[r]) : j \in MaybeThere' /\ pat'[j] = r
    BY DEF ListedUnderPattern
  <2>1. /\ IsInjective(subs[r])
        /\ \A j \in ToSet(subs[r]) : j \in MaybeThere /\ pat[j] = r
    BY DEF BusInv, ListedUnderPattern
  <2>2. a \in MaybeThere /\ MaybeThere' = MaybeThere BY <1>0, <1>2 DEF MaybeThere
  <2> QED BY <1>0, <1>5, <1>k, <2>1, <2>2
<1>10. SureListed' BY <1>0, <1>6 DEF BusInv, SureListed
<1>11. Exclusive' BY <1>0, <1>1, <1>7 DEF Exclusive
<1>12. MakingNew'
  <2> SUFFICES ASSUME NEW d \in Clients, Making(d)'
               PROVE  /\ arg[d] \in (1 .. nextId) \ (sure \cup gone)
                      /\ Listed(arg[d])' <=> pc'[d] # "onStore"
                      /\ \A b \in Clients \ {d} : Making(b)' \/ Leaving(b)' => arg[b] # arg[d]
    BY <1>0 DEF MakingNew
  <2>1. \A b \in Clients : (Making(b)' <=> Making(b)) /\ (Leaving(b)' <=> Leaving(b))
    BY <1>0, <1>1 DEF Making, Leaving
  <2>2. /\ arg[d] \in (1 .. nextId) \ (sure \cup gone)
        /\ Listed(arg[d]) <=> pc[d] # "onStore"
        /\ \A b \in Clients \ {d} : Making(b) \/ Leaving(b) => arg[b] # arg[d]
    BY <2>1 DEF BusInv, MakingNew
  <2>3. Listed(arg[d])' <=> pc'[d] # "onStore"
    <3>1. Listed(arg[d])' <=> Listed(arg[d]) \/ arg[d] = a BY <1>0, <1>6, <2>2 DEF Listed
    <3>2. arg[c] = a BY DEF a
    <3>3. Making(c) /\ Making(d) BY <1>0, <2>1 DEF Making
    <3> QED BY <1>1, <2>2, <3>1, <3>2, <3>3
  <2> QED BY <2>1, <2>2, <2>3
<1>13. LeavingKnown'
  BY <1>0, <1>1 DEF BusInv, LeavingKnown, Leaving
<1>14. MatcherServes'
  <2>1. \A r \in exact : ToSet(subs'[r]) # {}
    <3> SUFFICES ASSUME NEW r \in exact PROVE ToSet(subs'[r]) # {}
      OBVIOUS
    <3>1. r \in Patterns /\ ToSet(subs[r]) # {} BY DEF BusInv, BusTypes, MatcherServes
    <3> QED BY <1>5, <3>1
  <2>2. \A d \in Clients : Midway(d)' BY <1>1, <1>7 DEF Midway
  <2>3. /\ \A i \in sure : pat[i] \in TooDeep \/ (ref[pat[i]] > 0 /\ pat[i] \in Wildcards \cup exact)
        /\ \A q \in Patterns : ref[q] > 0 => \E i \in 1 .. nextId : pat[i] = q
    BY DEF BusInv, MatcherServes
  <2> QED BY <1>0, <2>1, <2>2, <2>3 DEF MatcherServes
<1> QED BY <1>8, <1>9, <1>10, <1>11, <1>12, <1>13, <1>14 DEF BusInv

(* A step in the middle of an On or Off that leaves all but the matcher.   *)
LEMMA BusKeeps ==
  ASSUME BusInv, NEW c \in Clients, NEW x, UNCHANGED <<subs, nextId, arg, pat, sure, gone>>,
         mu' = c, mu \in {c, NoClient}, pc' = [pc EXCEPT ![c] = x],
         \/ pc[c] = "onExact" /\ x = "onAdd"
         \/ pc[c] \in {"offRemove", "offCount"} /\ x \in {"offCount", "offStore"},
         ref' \in [Patterns -> Nat], exact' \subseteq Patterns \ TooDeep
  PROVE  /\ BusTypes' /\ ListedUnderPattern' /\ SureListed' /\ Exclusive'
         /\ MakingNew' /\ LeavingKnown'
         /\ \A d \in Clients \ {c} : pc'[d] = pc[d] /\ Midway(d)'
<1>0. pc \in [Clients -> BusPlaces] BY DEF BusInv, BusTypes
<1>1. pc'[c] = x /\ \A d \in Clients \ {c} : pc'[d] = pc[d] BY <1>0
<1>2. \A d \in Clients \ {c} : pc[d] \notin {"onExact", "onAdd", "offCount", "offStore"}
  BY SubscriptionsAssumption DEF BusInv, Exclusive
<1>3. BusTypes'
  <2>1. pc' \in [Clients -> BusPlaces] BY <1>0 DEF BusPlaces
  <2> QED BY <2>1 DEF BusInv, BusTypes, Snapshots
<1>4. ListedUnderPattern' BY DEF BusInv, ListedUnderPattern, MaybeThere
<1>5. SureListed' BY DEF BusInv, SureListed, Listed
<1>6. Exclusive' BY <1>1, <1>2 DEF Exclusive
<1>7. \A d \in Clients : (Making(d)' <=> Making(d)) /\ (Leaving(d)' <=> Leaving(d))
  BY <1>1 DEF Making, Leaving
<1>8. MakingNew'
  <2>1. \A d \in Clients : Making(d) => (pc'[d] # "onStore" <=> pc[d] # "onStore")
    BY <1>1 DEF Making
  <2> QED BY <1>7, <2>1 DEF BusInv, MakingNew, Listed
<1>9. LeavingKnown' BY <1>7 DEF BusInv, LeavingKnown
<1>10. \A d \in Clients \ {c} : Midway(d)' BY <1>1, <1>2 DEF Midway
<1> QED BY <1>1, <1>3, <1>4, <1>5, <1>6, <1>8, <1>9, <1>10

LEMMA BusEnters ==
  ASSUME BusInv, NEW c \in Clients, OnExact(c)
  PROVE  BusInv'
<1> DEFINE a == arg[c]
           p == pat[a]
<1>0. /\ UNCHANGED <<subs, ref, mu, nextId, arg, pat, sure, gone>>
      /\ pc[c] = "onExact" /\ pc' = [pc EXCEPT ![c] = "onAdd"]
      /\ exact' = exact \cup ({p} \ (Wildcards \cup TooDeep))
      /\ pc \in [Clients -> BusPlaces] /\ ref \in [Patterns -> Nat]
  BY DEF OnExact, history, BusInv, BusTypes
<1>1. a \in (1 .. nextId) \ (sure \cup gone) /\ Listed(a)
  <2>1. Making(c) BY <1>0 DEF Making
  <2> QED BY <1>0, <2>1 DEF BusInv, MakingNew
<1>2. p \in Patterns /\ ToSet(subs[p]) # {} BY <1>1 DEF BusInv, BusTypes, Listed
<1>3. exact' \subseteq Patterns \ TooDeep BY <1>0, <1>2 DEF BusInv, BusTypes
<1>4. mu = c BY <1>0 DEF BusInv, Exclusive
<1>5. /\ BusTypes' /\ ListedUnderPattern' /\ SureListed' /\ Exclusive'
      /\ MakingNew' /\ LeavingKnown'
      /\ \A d \in Clients \ {c} : pc'[d] = pc[d] /\ Midway(d)'
  BY <1>0, <1>3, <1>4, BusKeeps
<1>6. MatcherServes'
  <2>1. Midway(c)' BY <1>0 DEF Midway
  <2>2. \A i \in sure : pat[i] \in TooDeep \/ (ref[pat[i]] > 0 /\ pat[i] \in Wildcards \cup exact')
    BY <1>0 DEF BusInv, MatcherServes
  <2>3. \A r \in exact' : ToSet(subs[r]) # {} BY <1>0, <1>2 DEF BusInv, MatcherServes
  <2>4. \A r \in Patterns : ref[r] > 0 => \E i \in 1 .. nextId : pat[i] = r
    BY DEF BusInv, MatcherServes
  <2>5. \A d \in Clients : Midway(d)' BY <1>5, <2>1
  <2> HIDE DEF p
  <2> QED BY <1>0, <2>2, <2>3, <2>4, <2>5 DEF MatcherServes
<1> QED BY <1>5, <1>6 DEF BusInv

LEMMA BusAdds ==
  ASSUME BusInv, NEW c \in Clients, OnAdd(c)
  PROVE  BusInv'
<1> DEFINE a == arg[c]
           p == pat[a]
<1>0. /\ UNCHANGED <<subs, nextId, pat, gone>>
      /\ pc[c] = "onAdd" /\ mu' = NoClient
      /\ ref' = [ref EXCEPT ![p] = IF p \in TooDeep THEN ref[p] ELSE ref[p] + 1]
      /\ UNCHANGED exact
      /\ sure' = sure \cup {a}
      /\ pc' = [pc EXCEPT ![c] = "idle"] /\ arg' = [arg EXCEPT ![c] = NoType]
      /\ pc \in [Clients -> BusPlaces] /\ arg = [d \in Clients |-> arg[d]]
      /\ ref \in [Patterns -> Nat]
  BY DEF OnAdd, Return, BusInv, BusTypes
<1>1. pc'[c] = "idle" /\ \A d \in Clients \ {c} : pc'[d] = pc[d] /\ arg'[d] = arg[d] BY <1>0
<1>2. /\ a \in (1 .. nextId) \ (sure \cup gone) /\ Listed(a)
      /\ \A b \in Clients \ {c} : Making(b) \/ Leaving(b) => arg[b] # a
  <2>1. Making(c) BY <1>0 DEF Making
  <2> QED BY <1>0, <2>1 DEF BusInv, MakingNew
<1>3. p \in Patterns /\ p \in TooDeep \cup Wildcards \cup exact
  BY <1>0, <1>2 DEF BusInv, BusTypes, MatcherServes, Midway
<1>4. /\ ref' \in [Patterns -> Nat] /\ (p \in TooDeep \/ ref'[p] > 0)
      /\ ref'[p] >= ref[p] /\ \A r \in Patterns \ {p} : ref'[r] = ref[r]
  BY <1>0, <1>3
<1>5. \A d \in Clients \ {c} : pc[d] \notin {"onExact", "onAdd", "offCount", "offStore"}
  BY <1>0 DEF BusInv, Exclusive
<1>6. \A d \in Clients : /\ Making(d)' => Making(d) /\ d # c
                         /\ Leaving(d)' => Leaving(d) /\ d # c
  BY <1>1 DEF Making, Leaving
<1>k. p = pat[a] OBVIOUS
<1> HIDE DEF a, p
<1>7. BusTypes'
  <2>1. pc' \in [Clients -> BusPlaces] BY <1>0 DEF BusPlaces
  <2> QED BY <1>0, <1>4, <2>1 DEF BusInv, BusTypes, Snapshots
<1>8. ListedUnderPattern' BY <1>0 DEF BusInv, ListedUnderPattern, MaybeThere
<1>9. SureListed' BY <1>0, <1>2 DEF BusInv, SureListed, Listed
<1>10. Exclusive' BY <1>1, <1>5 DEF Exclusive
<1>11. MakingNew'
  <2> SUFFICES ASSUME NEW d \in Clients, Making(d)'
               PROVE  /\ arg'[d] \in (1 .. nextId) \ (sure' \cup gone)
                      /\ Listed(arg'[d]) <=> pc'[d] # "onStore"
                      /\ \A b \in Clients \ {d} : Making(b)' \/ Leaving(b)' => arg'[b] # arg'[d]
    BY <1>0 DEF MakingNew, Listed
  <2>1. /\ arg[d] \in (1 .. nextId) \ (sure \cup gone)
        /\ Listed(arg[d]) <=> pc[d] # "onStore"
        /\ \A b \in Clients \ {d} : Making(b) \/ Leaving(b) => arg[b] # arg[d]
    BY <1>6 DEF BusInv, MakingNew
  <2>2. pc'[d] = pc[d] /\ arg'[d] = arg[d] /\ arg[d] # a BY <1>1, <1>2, <1>6
  <2>3. \A b \in Clients \ {d} : Making(b)' \/ Leaving(b)' => arg'[b] # arg'[d]
    BY <1>1, <1>6, <2>1, <2>2
  <2> QED BY <1>0, <2>1, <2>2, <2>3
<1>12. LeavingKnown'
  <2>1. ASSUME NEW d \in Clients, Leaving(d)' PROVE arg'[d] \in (1 .. nextId) \ sure'
    <3>1. Leaving(d) /\ arg'[d] = arg[d] /\ arg[d] # a BY <1>1, <1>2, <1>6, <2>1
    <3> QED BY <1>0, <3>1 DEF BusInv, LeavingKnown
  <2> QED BY <1>0, <2>1 DEF LeavingKnown
<1>13. MatcherServes'
  <2>1. ASSUME NEW i \in sure'
        PROVE  pat[i] \in TooDeep \/ (ref'[pat[i]] > 0 /\ pat[i] \in Wildcards \cup exact')
    <3>1. CASE pat[i] = p BY <1>0, <1>3, <1>4, <3>1
    <3>2. CASE pat[i] # p
      <4>1. i \in sure /\ pat[i] \in Patterns
        BY <1>0, <1>k, <3>2 DEF BusInv, SureListed, BusTypes
      <4>2. pat[i] \in TooDeep \/ (ref[pat[i]] > 0 /\ pat[i] \in Wildcards \cup exact)
        BY <4>1 DEF BusInv, MatcherServes
      <4> QED BY <1>0, <1>4, <3>2, <4>1, <4>2
    <3> QED BY <3>1, <3>2
  <2>2. \A r \in exact : ToSet(subs[r]) # {} BY DEF BusInv, MatcherServes
  <2>3. ASSUME NEW r \in Patterns, ref'[r] > 0 PROVE \E i \in 1 .. nextId : pat[i] = r
    <3>1. CASE r = p BY <1>2, <1>k, <3>1
    <3>2. CASE r # p BY <1>4, <2>3, <3>2 DEF BusInv, MatcherServes
    <3> QED BY <3>1, <3>2
  <2>4. \A d \in Clients : Midway(d)' BY <1>1, <1>5 DEF Midway
  <2> QED BY <1>0, <2>1, <2>2, <2>3, <2>4 DEF MatcherServes
<1> QED BY <1>7, <1>8, <1>9, <1>10, <1>11, <1>12, <1>13 DEF BusInv

LEMMA BusStartsOff ==
  ASSUME BusInv, NEW c \in Clients, NEW i, OffStart(c, i)
  PROVE  BusInv'
<1>0. /\ UNCHANGED <<subs, ref, exact, mu, nextId, pat, gone>>
      /\ pc[c] = "idle" /\ i \in sure \cup gone /\ sure' = sure \ {i}
      /\ pc' = [pc EXCEPT ![c] = "offRemove"] /\ arg' = [arg EXCEPT ![c] = i]
      /\ pc \in [Clients -> BusPlaces] /\ arg = [d \in Clients |-> arg[d]]
  BY DEF OffStart, matcherVars, BusInv, BusTypes
<1>1. /\ pc'[c] = "offRemove" /\ arg'[c] = i
      /\ \A d \in Clients \ {c} : pc'[d] = pc[d] /\ arg'[d] = arg[d]
  BY <1>0
<1>2. i \in 1 .. nextId BY <1>0 DEF BusInv, SureListed
<1>3. BusTypes'
  <2>1. pc' \in [Clients -> BusPlaces] BY <1>0 DEF BusPlaces
  <2> QED BY <1>0, <2>1 DEF BusInv, BusTypes, Snapshots
<1>4. ListedUnderPattern' BY <1>0 DEF BusInv, ListedUnderPattern, MaybeThere
<1>5. SureListed' BY <1>0 DEF BusInv, SureListed, Listed
<1>6. Exclusive' BY <1>0, <1>1 DEF BusInv, Exclusive
<1>7. MakingNew'
  <2> SUFFICES ASSUME NEW d \in Clients, Making(d)'
               PROVE  /\ arg'[d] \in (1 .. nextId) \ (sure' \cup gone)
                      /\ Listed(arg'[d]) <=> pc'[d] # "onStore"
                      /\ \A b \in Clients \ {d} : Making(b)' \/ Leaving(b)' => arg'[b] # arg'[d]
    BY <1>0 DEF MakingNew, Listed
  <2>1. Making(d) /\ pc'[d] = pc[d] /\ arg'[d] = arg[d] BY <1>1 DEF Making
  <2>2. /\ arg[d] \in (1 .. nextId) \ (sure \cup gone)
        /\ Listed(arg[d]) <=> pc[d] # "onStore"
        /\ \A b \in Clients \ {d} : Making(b) \/ Leaving(b) => arg[b] # arg[d]
    BY <2>1 DEF BusInv, MakingNew
  <2>3. arg[d] # i BY <1>0, <2>2
  <2>4. \A b \in Clients \ {d} : Making(b)' \/ Leaving(b)' => arg'[b] # arg'[d]
    BY <1>1, <2>1, <2>2, <2>3 DEF Making, Leaving
  <2> QED BY <1>0, <2>1, <2>2, <2>4
<1>8. LeavingKnown' BY <1>0, <1>1, <1>2 DEF BusInv, LeavingKnown, Leaving
<1>9. MatcherServes'
  <2>1. \A d \in Clients : Midway(d)'
    BY <1>0, <1>1 DEF BusInv, MatcherServes, Midway
  <2> QED BY <1>0, <2>1 DEF BusInv, MatcherServes
<1> QED BY <1>3, <1>4, <1>5, <1>6, <1>7, <1>8, <1>9 DEF BusInv

LEMMA BusRemoves ==
  ASSUME BusInv, NEW c \in Clients, OffRemove(c)
  PROVE  BusInv'
<1> DEFINE a == arg[c]
           p == pat[a]
           last == Without(subs[p], a) = << >> /\ subs[p] # << >>
           x == IF last THEN "offCount" ELSE "offStore"
<1>0. /\ UNCHANGED <<subs, ref, nextId, arg, pat, sure, gone>>
      /\ pc[c] = "offRemove" /\ mu = NoClient /\ mu' = c
      /\ exact' = IF last THEN exact \ {p} ELSE exact
      /\ pc' = [pc EXCEPT ![c] = x]
      /\ pc \in [Clients -> BusPlaces] /\ ref \in [Patterns -> Nat]
      /\ subs \in [Patterns -> Seq(Ids)]
  BY DEF OffRemove, history, BusInv, BusTypes, Snapshots
<1>1. a \in (1 .. nextId) \ sure
  <2>1. Leaving(c) BY <1>0 DEF Leaving
  <2> QED BY <2>1 DEF BusInv, LeavingKnown
<1>2. p \in Patterns BY <1>1 DEF BusInv, BusTypes
<1>3. /\ last => ToSet(subs[p]) \subseteq {a}
      /\ ~last => ~(ToSet(subs[p]) \subseteq {a}) \/ ToSet(subs[p]) = {}
  <2>1. subs[p] \in Seq(Ids) /\ IsInjective(subs[p])
    BY <1>0, <1>2 DEF BusInv, ListedUnderPattern
  <2>2. Without(subs[p], a) \in Seq(Ids) /\ ToSet(Without(subs[p], a)) = ToSet(subs[p]) \ {a}
    BY <2>1, WithoutOne
  <2>3. Without(subs[p], a) = << >> <=> ToSet(Without(subs[p], a)) = {} BY <2>2, EmptyList
  <2>4. subs[p] = << >> <=> ToSet(subs[p]) = {} BY <2>1, EmptyList
  <2> QED BY <2>2, <2>3, <2>4
<1>k. p = pat[a] /\ a = arg[c] /\ (last => x = "offCount") /\ (~last => x = "offStore")
  OBVIOUS
<1> HIDE DEF a, p, last, x
<1>4. exact' \subseteq exact /\ exact' \subseteq Patterns \ TooDeep BY <1>0 DEF BusInv, BusTypes
<1>5. /\ BusTypes' /\ ListedUnderPattern' /\ SureListed' /\ Exclusive'
      /\ MakingNew' /\ LeavingKnown'
      /\ \A d \in Clients \ {c} : pc'[d] = pc[d] /\ Midway(d)'
  BY <1>0, <1>4, <1>k, BusKeeps
<1>6. MatcherServes'
  <2>1. ASSUME NEW i \in sure
        PROVE  pat[i] \in TooDeep \/ (ref[pat[i]] > 0 /\ pat[i] \in Wildcards \cup exact')
    <3>1. /\ pat[i] \in TooDeep \/ (ref[pat[i]] > 0 /\ pat[i] \in Wildcards \cup exact)
          /\ i \in ToSet(subs[pat[i]])
      BY DEF BusInv, MatcherServes, SureListed, Listed
    <3>2. last => pat[i] # p BY <1>1, <1>3, <3>1
    <3> QED BY <1>0, <3>1, <3>2
  <2>2. \A r \in exact' : ToSet(subs[r]) # {} BY <1>4 DEF BusInv, MatcherServes
  <2>3. \A r \in Patterns : ref[r] > 0 => \E i \in 1 .. nextId : pat[i] = r
    BY DEF BusInv, MatcherServes
  <2>4. ToSet(subs[p]) \subseteq {a} => p \notin exact'
    BY <1>0, <1>3 DEF BusInv, MatcherServes
  <2>5. pc'[c] = x BY <1>0
  <2>6. Midway(c)' BY <1>0, <1>3, <1>k, <2>4, <2>5 DEF Midway
  <2>7. \A d \in Clients : Midway(d)' BY <1>5, <2>6
  <2> QED BY <1>0, <2>1, <2>2, <2>3, <2>7 DEF MatcherServes
<1> QED BY <1>5, <1>6 DEF BusInv

LEMMA BusCounts ==
  ASSUME BusInv, NEW c \in Clients, OffCount(c)
  PROVE  BusInv'
<1> DEFINE a == arg[c]
           p == pat[a]
           n == Len(subs[p])
<1>0. /\ UNCHANGED <<subs, exact, mu, nextId, arg, pat, sure, gone>>
      /\ pc[c] = "offCount" /\ pc' = [pc EXCEPT ![c] = "offStore"]
      /\ ref' = [ref EXCEPT ![p] = IF ref[p] >= n THEN ref[p] - n ELSE 0]
      /\ pc \in [Clients -> BusPlaces] /\ ref \in [Patterns -> Nat]
      /\ subs \in [Patterns -> Seq(Ids)] /\ exact \subseteq Patterns \ TooDeep
  BY DEF OffCount, history, BusInv, BusTypes, Snapshots
<1>1. a \in (1 .. nextId) \ sure
  <2>1. Leaving(c) BY <1>0 DEF Leaving
  <2> QED BY <2>1 DEF BusInv, LeavingKnown
<1>2. p \in Patterns BY <1>1 DEF BusInv, BusTypes
<1>3. n \in Nat
  <2>1. subs[p] \in Seq(Ids) BY <1>0, <1>2
  <2> QED BY <2>1
<1>k. p = pat[a] /\ a = arg[c] OBVIOUS
<1> HIDE DEF a, p, n
<1>4. /\ ref' \in [Patterns -> Nat] /\ \A r \in Patterns \ {p} : ref'[r] = ref[r]
  BY <1>0, <1>2, <1>3
<1>5. mu = c BY <1>0 DEF BusInv, Exclusive
<1>6. /\ BusTypes' /\ ListedUnderPattern' /\ SureListed' /\ Exclusive'
      /\ MakingNew' /\ LeavingKnown'
      /\ \A d \in Clients \ {c} : pc'[d] = pc[d] /\ Midway(d)'
  BY <1>0, <1>4, <1>5, BusKeeps
<1>7. ToSet(subs[p]) \subseteq {a} /\ p \notin exact
  BY <1>0, <1>k DEF BusInv, MatcherServes, Midway
<1>8. MatcherServes'
  <2>1. ASSUME NEW i \in sure
        PROVE  pat[i] \in TooDeep \/ (ref'[pat[i]] > 0 /\ pat[i] \in Wildcards \cup exact)
    <3>1. /\ pat[i] \in TooDeep \/ (ref[pat[i]] > 0 /\ pat[i] \in Wildcards \cup exact)
          /\ pat[i] \in Patterns /\ i \in ToSet(subs[pat[i]])
      BY DEF BusInv, MatcherServes, SureListed, Listed, BusTypes
    <3>2. pat[i] # p BY <1>1, <1>7, <3>1
    <3> QED BY <1>4, <3>1, <3>2
  <2>2. \A r \in exact : ToSet(subs[r]) # {} BY DEF BusInv, MatcherServes
  <2>3. ASSUME NEW r \in Patterns, ref'[r] > 0 PROVE \E i \in 1 .. nextId : pat[i] = r
    <3>1. CASE r = p BY <1>1, <1>k, <3>1
    <3>2. CASE r # p BY <1>4, <2>3, <3>2 DEF BusInv, MatcherServes
    <3> QED BY <3>1, <3>2
  <2>4. Midway(c)' BY <1>0, <1>7, <1>k DEF Midway
  <2>5. \A d \in Clients : Midway(d)' BY <1>6, <2>4
  <2> QED BY <1>0, <2>1, <2>2, <2>3, <2>5 DEF MatcherServes
<1> QED BY <1>6, <1>8 DEF BusInv

LEMMA BusForgets ==
  ASSUME BusInv, NEW c \in Clients, OffStore(c)
  PROVE  BusInv'
<1> DEFINE a == arg[c]
           p == pat[a]
<1>0. /\ UNCHANGED <<ref, exact, nextId, pat, sure>>
      /\ pc[c] = "offStore" /\ mu' = NoClient /\ gone' = gone \cup {a}
      /\ subs' = [subs EXCEPT ![p] = Without(subs[p], a)]
      /\ pc' = [pc EXCEPT ![c] = "idle"] /\ arg' = [arg EXCEPT ![c] = NoType]
      /\ pc \in [Clients -> BusPlaces] /\ arg = [d \in Clients |-> arg[d]]
      /\ subs \in [Patterns -> Seq(Ids)]
  BY DEF OffStore, Return, matcherVars, BusInv, BusTypes, Snapshots
<1>1. pc'[c] = "idle" /\ \A d \in Clients \ {c} : pc'[d] = pc[d] /\ arg'[d] = arg[d] BY <1>0
<1>l. Leaving(c) BY <1>0 DEF Leaving
<1>2. a \in (1 .. nextId) \ sure BY <1>l DEF BusInv, LeavingKnown
<1>3. p \in Patterns BY <1>2 DEF BusInv, BusTypes
<1>4. /\ subs'[p] \in Seq(Ids) /\ IsInjective(subs'[p]) /\ ToSet(subs'[p]) = ToSet(subs[p]) \ {a}
      /\ \A r \in Patterns \ {p} : subs'[r] = subs[r]
  <2>1. subs[p] \in Seq(Ids) /\ IsInjective(subs[p])
    BY <1>0, <1>3 DEF BusInv, ListedUnderPattern
  <2>2. subs'[p] = Without(subs[p], a) /\ \A r \in Patterns \ {p} : subs'[r] = subs[r]
    BY <1>0, <1>3
  <2> QED BY <2>1, <2>2, WithoutOne
<1>k. p = pat[a] /\ a = arg[c] OBVIOUS
<1> HIDE DEF a, p
<1>5. \A j \in 1 .. nextId : Listed(j)' <=> Listed(j) /\ j # a
  <2> SUFFICES ASSUME NEW j \in 1 .. nextId PROVE Listed(j)' <=> Listed(j) /\ j # a
    OBVIOUS
  <2>1. pat[j] \in Patterns BY DEF BusInv, BusTypes
  <2>2. CASE pat[j] = p BY <1>0, <1>4, <2>2 DEF Listed
  <2>3. CASE pat[j] # p BY <1>0, <1>4, <1>k, <2>1, <2>3 DEF Listed
  <2> QED BY <2>2, <2>3
<1>6. \A d \in Clients \ {c} : pc[d] \notin {"onExact", "onAdd", "offCount", "offStore"}
  BY <1>0 DEF BusInv, Exclusive
<1>7. \A d \in Clients : /\ Making(d)' => Making(d) /\ d # c
                         /\ Leaving(d)' => Leaving(d) /\ d # c
  BY <1>1 DEF Making, Leaving
<1>8. BusTypes'
  <2>1. subs' \in Snapshots BY <1>0, <1>4 DEF Snapshots
  <2>2. pc' \in [Clients -> BusPlaces] BY <1>0 DEF BusPlaces
  <2> QED BY <1>0, <2>1, <2>2 DEF BusInv, BusTypes
<1>9. ListedUnderPattern'
  <2> SUFFICES ASSUME NEW r \in Patterns
               PROVE  /\ IsInjective(subs'[r])
                      /\ \A j \in ToSet(subs'[r]) : j \in MaybeThere' /\ pat'[j] = r
    BY DEF ListedUnderPattern
  <2>1. /\ IsInjective(subs[r])
        /\ \A j \in ToSet(subs[r]) : j \in MaybeThere /\ pat[j] = r
    BY DEF BusInv, ListedUnderPattern
  <2>2. MaybeThere' = MaybeThere \ {a} BY <1>0 DEF MaybeThere
  <2> QED BY <1>0, <1>4, <1>k, <2>1, <2>2
<1>10. SureListed'
  <2>1. sure \cup gone' \subseteq 1 .. nextId BY <1>0, <1>2 DEF BusInv, SureListed
  <2>2. \A i \in sure : Listed(i)' BY <1>2, <1>5, <2>1 DEF BusInv, SureListed
  <2> QED BY <1>0, <2>1, <2>2 DEF SureListed
<1>11. Exclusive' BY <1>1, <1>6 DEF Exclusive
<1>12. MakingNew'
  <2> SUFFICES ASSUME NEW d \in Clients, Making(d)'
               PROVE  /\ arg'[d] \in (1 .. nextId) \ (sure \cup gone')
                      /\ Listed(arg[d])' <=> pc'[d] # "onStore"
                      /\ \A b \in Clients \ {d} : Making(b)' \/ Leaving(b)' => arg'[b] # arg'[d]
    BY <1>0 DEF MakingNew
  <2>1. Making(d) /\ d # c /\ pc'[d] = pc[d] /\ arg'[d] = arg[d] BY <1>1, <1>7
  <2>2. /\ arg[d] \in (1 .. nextId) \ (sure \cup gone)
        /\ Listed(arg[d]) <=> pc[d] # "onStore"
        /\ \A b \in Clients \ {d} : Making(b) \/ Leaving(b) => arg[b] # arg[d]
    BY <2>1 DEF BusInv, MakingNew
  <2>3. arg[d] # a BY <1>k, <1>l, <2>1, <2>2
  <2>4. Listed(arg[d])' <=> Listed(arg[d]) BY <1>0, <1>5, <2>1, <2>2, <2>3 DEF Listed
  <2>5. \A b \in Clients \ {d} : Making(b)' \/ Leaving(b)' => arg'[b] # arg'[d]
    BY <1>1, <1>7, <2>1, <2>2
  <2> QED BY <1>0, <2>1, <2>2, <2>3, <2>4, <2>5
<1>13. LeavingKnown' BY <1>0, <1>1, <1>7 DEF BusInv, LeavingKnown
<1>14. MatcherServes'
  <2>1. ASSUME NEW r \in exact PROVE ToSet(subs'[r]) # {}
    <3>1. r \in Patterns /\ ToSet(subs[r]) # {} BY DEF BusInv, BusTypes, MatcherServes
    <3>2. CASE r = p
      <4>1. ~(ToSet(subs[p]) \subseteq {a}) BY <1>0, <1>k, <3>2 DEF BusInv, MatcherServes, Midway
      <4> QED BY <1>4, <3>2, <4>1
    <3>3. CASE r # p BY <1>4, <3>1, <3>3
    <3> QED BY <3>2, <3>3
  <2>2. \A d \in Clients : Midway(d)' BY <1>1, <1>6 DEF Midway
  <2>3. /\ \A i \in sure : pat[i] \in TooDeep \/ (ref[pat[i]] > 0 /\ pat[i] \in Wildcards \cup exact)
        /\ \A q \in Patterns : ref[q] > 0 => \E i \in 1 .. nextId : pat[i] = q
    BY DEF BusInv, MatcherServes
  <2> QED BY <1>0, <2>1, <2>2, <2>3 DEF MatcherServes
<1> QED BY <1>8, <1>9, <1>10, <1>11, <1>12, <1>13, <1>14 DEF BusInv

LEMMA BusStep == BusInv /\ [Next]_vars => BusInv'
<1> SUFFICES ASSUME BusInv, [Next]_vars PROVE BusInv'
  OBVIOUS
<1>t. pc \in [Clients -> BusPlaces] /\ arg = [d \in Clients |-> arg[d]]
  BY DEF BusInv, BusTypes
<1>1. ASSUME NEW c \in Clients, Emit(c) PROVE BusInv'
  <2>1. /\ UNCHANGED <<subs, ref, exact, mu, nextId, pat, sure, gone>>
        /\ \E x \in EmitCalls \cup {"idle"} : pc' = [pc EXCEPT ![c] = x]
        /\ arg' = arg \/ \E x : arg' = [arg EXCEPT ![c] = x]
    <3>1. CASE \E e \in EventTypes : EmitLoad(c, e) \/ EmitMatchLoad(c, e)
      BY <3>1 DEF EmitLoad, EmitMatchLoad, StartCall, matcherVars, history, EmitCalls
    <3>2. CASE EmitMatchExact(c) \/ EmitMatchMerge(c)
      BY <3>2 DEF EmitMatchExact, EmitMatchMerge, Matches, matcherVars, history, EmitCalls
    <3>3. CASE CallHandler(c)
      <4>1. pc[c] \in {"emit", "emitMatch"} /\ pc' = pc /\ arg' = arg
        BY <3>3 DEF CallHandler
      <4>2. pc' = [pc EXCEPT ![c] = pc[c]] BY <1>t, <4>1
      <4> QED BY <3>3, <4>1, <4>2 DEF CallHandler, matcherVars, history, EmitCalls
    <3>4. CASE EmitReturn(c) BY <3>4 DEF EmitReturn, Return, matcherVars, history
    <3> QED BY <1>1, <3>1, <3>2, <3>3, <3>4 DEF Emit
  <2>2. /\ pc' = [pc EXCEPT ![c] = pc'[c]] /\ pc'[c] \in BusPlaces /\ ~Making(c)' /\ ~Leaving(c)'
        /\ arg' = [d \in Clients |-> arg'[d]] /\ \A d \in Clients \ {c} : arg'[d] = arg[d]
    BY <1>t, <2>1 DEF BusPlaces, EmitCalls, Making, Leaving
  <2> QED BY <2>1, <2>2, BusStays
<1>2. CASE UNCHANGED vars
  BY <1>2 DEF vars, matcherVars, callVars, history, BusInv, BusTypes, Snapshots,
       ListedUnderPattern, MaybeThere, SureListed, Listed, Exclusive, MakingNew, LeavingKnown,
       Making, Leaving, MatcherServes, Midway
<1> QED
  BY <1>1, <1>2, BusStartsOn, BusStores, BusEnters, BusAdds, BusStartsOff, BusRemoves, BusCounts,
     BusForgets
  DEF Next, On, Off

(***************************************************************************)
(* The buses with a mutex: the calls of Emit and EmitMatch.                *)
(***************************************************************************)
CallingOf(c) ==
  /\ throughout[c] \subseteq sure /\ sometime[c] \subseteq 1 .. nextId
  /\ pc[c] \in EmitCalls => arg[c] \in EventTypes /\ MaybeThere \subseteq sometime[c]
  /\ pc[c] \notin {"emit", "emitMatch"} => called[c] = << >>

(* The snapshot of an EmitMatch has all that was there throughout.         *)
SnapOf(c) ==
  pc[c] \in {"match", "merge"} =>
    /\ snap[c] \in Snapshots
    /\ \A p \in Patterns :
         /\ IsInjective(snap[c][p])
         /\ \A i \in ToSet(snap[c][p]) : pat[i] = p /\ i \in sometime[c]
    /\ \A i \in throughout[c] : i \in ToSet(snap[c][pat[i]])

(* What a call has done and what it has still to do, together, are what    *)
(* the call should do.                                                     *)
Reached(c) == ToSet(called[c]) \cup ToSet(plan[c])

PlanOf(c) ==
  pc[c] \in {"emit", "emitMatch"} =>
    /\ called[c] \in Seq(Ids) /\ plan[c] \in Seq(Ids)
    /\ IsInjective(called[c]) /\ IsInjective(plan[c]) /\ ToSet(called[c]) \cap ToSet(plan[c]) = {}
    /\ Reached(c) \subseteq sometime[c] \cap Addressed(c)

EmitReaches(c) ==
  \/ throughout[c] \cap Addressed(c) \subseteq Reached(c)
  \/ arg[c] = NoType /\ \E j \in sometime[c] : pat[j] # NoType
EmitMatchReaches(c) ==
  \A i \in throughout[c] \cap Addressed(c) :
    \/ i \in Reached(c)
    \/ pat[i] \in TooDeep
    \/ pat[i] \in Wildcards /\ arg[c] \notin TooDeep /\ \E j \in sometime[c] : pat[j] = arg[c]
ReachOf(c) ==
  ~failed[c] => /\ pc[c] = "emit" => EmitReaches(c)
                /\ pc[c] = "emitMatch" => EmitMatchReaches(c)

CallOf(c) == CallingOf(c) /\ SnapOf(c) /\ PlanOf(c) /\ ReachOf(c)

CallTypes ==
  /\ snap = [c \in Clients |-> snap[c]] /\ plan = [c \in Clients |-> plan[c]]
  /\ called = [c \in Clients |-> called[c]] /\ failed \in [Clients -> BOOLEAN]
  /\ throughout = [c \in Clients |-> throughout[c]]
  /\ sometime = [c \in Clients |-> sometime[c]]

CallsInv == BusInv /\ CallTypes /\ \A c \in Clients : CallOf(c)

LEMMA CallsInitially == Init => CallsInv
<1> SUFFICES ASSUME Init PROVE CallsInv
  OBVIOUS
<1>1. CallTypes BY DEF Init, CallTypes
<1>2. ASSUME NEW c \in Clients PROVE CallOf(c)
  <2>1. pc[c] = "idle" /\ called[c] = << >> /\ throughout[c] = {} /\ sometime[c] = {} BY DEF Init
  <2> QED BY <2>1 DEF CallOf, CallingOf, SnapOf, PlanOf, ReachOf, EmitCalls
<1> QED BY <1>1, <1>2, BusInitially DEF CallsInv

(* What a step of another client leaves of a call, or a step outside any.  *)
PatternsKept == \A i \in 1 .. nextId : i \in 1 .. nextId' /\ pat'[i] = pat[i]
CallKept(c) ==
  /\ \/ pc'[c] = pc[c] /\ arg'[c] = arg[c]
     \/ pc[c] \notin EmitCalls /\ pc'[c] \notin EmitCalls
  /\ snap'[c] = snap[c] /\ plan'[c] = plan[c] /\ called'[c] = called[c] /\ failed'[c] = failed[c]
  /\ throughout'[c] \subseteq throughout[c] \cap sure'
  /\ sometime[c] \subseteq sometime'[c] /\ sometime'[c] \subseteq 1 .. nextId'
  /\ pc[c] \in EmitCalls => MaybeThere' \subseteq sometime'[c]

LEMMA KeptCallIsRight ==
  ASSUME BusInv, NEW c \in Clients, CallOf(c), PatternsKept, CallKept(c)
  PROVE  CallOf(c)'
<1>1. CASE pc[c] \notin EmitCalls /\ pc'[c] \notin EmitCalls
  BY <1>1 DEF CallKept, CallOf, CallingOf, SnapOf, PlanOf, ReachOf, EmitCalls
<1>2. CASE pc'[c] = pc[c] /\ arg'[c] = arg[c]
  <2>0. /\ snap'[c] = snap[c] /\ plan'[c] = plan[c] /\ called'[c] = called[c]
        /\ failed'[c] = failed[c]
        /\ throughout'[c] \subseteq throughout[c] /\ throughout'[c] \subseteq sure'
        /\ sometime[c] \subseteq sometime'[c] /\ sometime'[c] \subseteq 1 .. nextId'
        /\ pc[c] \in EmitCalls => MaybeThere' \subseteq sometime'[c]
    BY DEF CallKept
  <2>1. \A i \in throughout[c] \cup sometime[c] : i \in Ids /\ pat'[i] = pat[i]
    <3>1. throughout[c] \cup sometime[c] \subseteq 1 .. nextId
      BY DEF CallOf, CallingOf, BusInv, SureListed
    <3>2. \A i \in 1 .. nextId : i \in Ids BY DeliveryAssumption DEF BusInv, BusTypes, Ids
    <3> QED BY <3>1, <3>2 DEF PatternsKept
  <2>2. \A i \in throughout[c] \cup sometime[c] : i \in Addressed(c)' <=> i \in Addressed(c)
    BY <1>2, <2>1 DEF Addressed
  <2>3. Reached(c)' = Reached(c) BY <2>0 DEF Reached
  <2>4. CallingOf(c)' BY <1>2, <2>0 DEF CallOf, CallingOf
  <2>5. SnapOf(c)'
    <3> SUFFICES ASSUME pc[c] \in {"match", "merge"}
                 PROVE  /\ snap[c] \in Snapshots
                        /\ \A p \in Patterns :
                             /\ IsInjective(snap[c][p])
                             /\ \A i \in ToSet(snap[c][p]) : pat'[i] = p /\ i \in sometime'[c]
                        /\ \A i \in throughout'[c] : i \in ToSet(snap[c][pat'[i]])
      BY <1>2, <2>0 DEF SnapOf, Snapshots
    <3>1. /\ snap[c] \in Snapshots
          /\ \A p \in Patterns :
               /\ IsInjective(snap[c][p])
               /\ \A i \in ToSet(snap[c][p]) : pat[i] = p /\ i \in sometime[c]
          /\ \A i \in throughout[c] : i \in ToSet(snap[c][pat[i]])
      BY DEF CallOf, SnapOf
    <3>2. \A i \in throughout'[c] : i \in ToSet(snap[c][pat'[i]]) BY <2>0, <2>1, <3>1
    <3>3. \A p \in Patterns : \A i \in ToSet(snap[c][p]) : pat'[i] = p /\ i \in sometime'[c]
      BY <2>0, <2>1, <3>1
    <3> QED BY <3>1, <3>2, <3>3
  <2>6. PlanOf(c)'
    <3> SUFFICES ASSUME pc[c] \in {"emit", "emitMatch"}
                 PROVE  Reached(c) \subseteq sometime'[c] \cap Addressed(c)'
      BY <1>2, <2>0, <2>3 DEF CallOf, PlanOf
    <3>1. Reached(c) \subseteq sometime[c] \cap Addressed(c) BY DEF CallOf, PlanOf
    <3> QED BY <2>0, <2>2, <3>1
  <2>7. ReachOf(c)'
    <3>1. EmitReaches(c) => EmitReaches(c)'
      <4>1. throughout[c] \cap Addressed(c) \subseteq Reached(c) =>
              throughout'[c] \cap Addressed(c)' \subseteq Reached(c)
        BY <2>0, <2>2
      <4>2. (\E j \in sometime[c] : pat[j] # NoType) => (\E j \in sometime'[c] : pat'[j] # NoType)
        BY <2>0, <2>1
      <4> QED BY <1>2, <2>3, <4>1, <4>2 DEF EmitReaches
    <3>2. EmitMatchReaches(c) => EmitMatchReaches(c)'
      <4> SUFFICES ASSUME EmitMatchReaches(c), NEW i \in throughout'[c], i \in Addressed(c)'
                   PROVE  \/ i \in Reached(c)
                          \/ pat'[i] \in TooDeep
                          \/ /\ pat'[i] \in Wildcards /\ arg[c] \notin TooDeep
                             /\ \E j \in sometime'[c] : pat'[j] = arg[c]
        BY <1>2, <2>3 DEF EmitMatchReaches
      <4>1. i \in throughout[c] /\ i \in Addressed(c) /\ pat'[i] = pat[i] BY <2>0, <2>1, <2>2
      <4>2. \/ i \in Reached(c)
            \/ pat[i] \in TooDeep
            \/ /\ pat[i] \in Wildcards /\ arg[c] \notin TooDeep
               /\ \E j \in sometime[c] : pat[j] = arg[c]
        BY <4>1 DEF EmitMatchReaches
      <4> QED BY <2>0, <2>1, <4>1, <4>2
    <3> QED BY <1>2, <2>0, <3>1, <3>2 DEF CallOf, ReachOf
  <2> QED BY <2>4, <2>5, <2>6, <2>7 DEF CallOf
<1> QED BY <1>1, <1>2 DEF CallKept

(* A call loads the snapshot.                                              *)
LEMMA LoadSees ==
  ASSUME CallsInv, NEW c \in Clients, NEW e \in EventTypes, StartCall(c, e)
  PROVE  /\ arg'[c] = e /\ throughout'[c] = sure /\ sometime'[c] = MaybeThere
         /\ UNCHANGED <<subs, ref, exact, nextId, pat, sure, gone, called, failed>>
         /\ MaybeThere' = MaybeThere /\ MaybeThere \subseteq 1 .. nextId
         /\ called[c] = << >>
         /\ subs \in Snapshots /\ \A p \in Patterns : IsInjective(subs[p])
         /\ \A p \in Patterns : \A i \in ToSet(subs[p]) :
              i \in Ids /\ pat[i] = p /\ i \in MaybeThere
         /\ \A i \in sure : pat[i] \in Patterns /\ i \in ToSet(subs[pat[i]])
<1>1. UNCHANGED <<subs, ref, exact, nextId, pat, sure, gone, called, failed>> /\ pc[c] = "idle"
  BY DEF StartCall, matcherVars, history
<1>2. arg'[c] = e /\ throughout'[c] = sure /\ sometime'[c] = MaybeThere
  BY DEF StartCall, CallsInv, CallTypes, BusInv, BusTypes
<1>3. MaybeThere' = MaybeThere /\ MaybeThere \subseteq 1 .. nextId BY <1>1 DEF MaybeThere
<1>4. called[c] = << >> BY <1>1 DEF CallsInv, CallOf, CallingOf
<1>5. \A i \in 1 .. nextId : i \in Ids /\ pat[i] \in Patterns
  <2>1. nextId \in 0 .. MaxId /\ \A i \in 1 .. nextId : pat[i] \in Patterns
    BY DEF CallsInv, BusInv, BusTypes
  <2>2. MaxId \in Nat BY DeliveryAssumption
  <2>3. 1 .. nextId \subseteq Ids BY <2>1, <2>2 DEF Ids
  <2> QED BY <2>1, <2>3
<1>6. \A p \in Patterns : \A i \in ToSet(subs[p]) : i \in Ids /\ pat[i] = p /\ i \in MaybeThere
  BY <1>3, <1>5 DEF CallsInv, BusInv, ListedUnderPattern
<1>7. \A i \in sure : pat[i] \in Patterns /\ i \in ToSet(subs[pat[i]])
  BY <1>5 DEF CallsInv, BusInv, SureListed, Listed
<1>8. subs \in Snapshots /\ \A p \in Patterns : IsInjective(subs[p])
  BY DEF CallsInv, BusInv, BusTypes, ListedUnderPattern
<1> QED BY <1>1, <1>2, <1>3, <1>4, <1>6, <1>7, <1>8

LEMMA EmitLoads ==
  ASSUME CallsInv, NEW c \in Clients, NEW e \in EventTypes, EmitLoad(c, e)
  PROVE  CallOf(c)'
<1>0. /\ arg'[c] = e /\ throughout'[c] = sure /\ sometime'[c] = MaybeThere
      /\ UNCHANGED <<subs, nextId, pat, sure, called>>
      /\ MaybeThere' = MaybeThere /\ MaybeThere \subseteq 1 .. nextId
      /\ called[c] = << >>
      /\ subs \in Snapshots /\ \A p \in Patterns : IsInjective(subs[p])
      /\ \A p \in Patterns : \A i \in ToSet(subs[p]) :
           i \in Ids /\ pat[i] = p /\ i \in MaybeThere
      /\ \A i \in sure : pat[i] \in Patterns /\ i \in ToSet(subs[pat[i]])
  BY LoadSees DEF EmitLoad
<1>1. pc'[c] = "emit" /\ plan'[c] = HandlersFor(subs, e)
  BY DEF EmitLoad, CallsInv, CallTypes, BusInv, BusTypes
<1>2. IsInjective(<< >>) /\ ToSet(<< >>) = {} /\ << >> \in Seq(Ids) BY DEF IsInjective, ToSet
<1>3. /\ plan'[c] \in Seq(Ids) /\ IsInjective(plan'[c])
      /\ \A i \in ToSet(plan'[c]) : i \in Ids /\ pat[i] = e /\ i \in MaybeThere
  <2>1. \/ e \in Patterns /\ plan'[c] = subs[e]
        \/ plan'[c] = << >>
    BY <1>1, FastPath
  <2>2. CASE plan'[c] = << >> BY <1>2, <2>2
  <2>3. CASE e \in Patterns /\ plan'[c] = subs[e]
    <3>1. subs[e] \in Seq(Ids) BY <1>0, <2>3 DEF Snapshots
    <3> QED BY <1>0, <2>3, <3>1
  <2> QED BY <2>1, <2>2, <2>3
<1>4. Reached(c)' = ToSet(plan'[c]) BY <1>0, <1>2 DEF Reached
<1>5. Addressed(c)' = {i \in Ids : pat[i] = e} BY <1>0, <1>1 DEF Addressed
<1>6. EmitReaches(c)'
  <2>1. CASE HandlersFor(subs, e) = IF e \in Patterns THEN subs[e] ELSE << >>
    <3>1. \A i \in sure : pat[i] = e => i \in ToSet(plan'[c]) BY <1>0, <1>1, <2>1
    <3> QED BY <1>0, <1>4, <1>5, <3>1 DEF EmitReaches
  <2>2. CASE e = NoType /\ HandlersFor(subs, e) = << >> /\ Keys(subs) # {NoType}
    <3>1. CASE \E i \in sure : pat[i] = e
      <4>1. PICK i \in sure : pat[i] = e BY <3>1
      <4>2. e \in Keys(subs)
        <5>1. e \in Patterns /\ i \in ToSet(subs[e]) BY <1>0, <4>1
        <5>2. subs[e] # << >> BY <1>2, <5>1
        <5> QED BY <5>1, <5>2 DEF Keys
      <4>3. PICK k \in Keys(subs) : k # NoType BY <2>2, <4>2
      <4>4. k \in Patterns /\ subs[k] \in Seq(Ids) /\ subs[k] # << >>
        BY <1>0, <4>3 DEF Keys, Snapshots
      <4>5. PICK j \in ToSet(subs[k]) : TRUE BY <4>4, EmptyList
      <4>6. j \in sometime'[c] /\ pat'[j] # NoType BY <1>0, <4>3, <4>4, <4>5
      <4> QED BY <1>0, <2>2, <4>6 DEF EmitReaches
    <3>2. CASE ~\E i \in sure : pat[i] = e
      <4>1. throughout'[c] \cap Addressed(c)' = {} BY <1>0, <1>5, <3>2
      <4> QED BY <4>1 DEF EmitReaches
    <3> QED BY <3>1, <3>2
  <2> QED BY <2>1, <2>2, FastPath
<1>7. CallingOf(c)' BY <1>0, <1>1 DEF CallingOf
<1>8. SnapOf(c)' BY <1>1 DEF SnapOf
<1>9. PlanOf(c)'
  <2>1. Reached(c)' \subseteq sometime'[c] \cap Addressed(c)' BY <1>0, <1>3, <1>4, <1>5
  <2> QED BY <1>0, <1>2, <1>3, <2>1 DEF PlanOf
<1>10. ReachOf(c)' BY <1>1, <1>6 DEF ReachOf
<1> QED BY <1>7, <1>8, <1>9, <1>10 DEF CallOf

LEMMA EmitMatchLoads ==
  ASSUME CallsInv, NEW c \in Clients, NEW e \in EventTypes, EmitMatchLoad(c, e)
  PROVE  CallOf(c)'
<1>0. /\ arg'[c] = e /\ throughout'[c] = sure /\ sometime'[c] = MaybeThere
      /\ UNCHANGED <<subs, nextId, pat, sure, called>>
      /\ MaybeThere' = MaybeThere /\ MaybeThere \subseteq 1 .. nextId
      /\ called[c] = << >>
      /\ subs \in Snapshots /\ \A p \in Patterns : IsInjective(subs[p])
      /\ \A p \in Patterns : \A i \in ToSet(subs[p]) :
           i \in Ids /\ pat[i] = p /\ i \in MaybeThere
      /\ \A i \in sure : pat[i] \in Patterns /\ i \in ToSet(subs[pat[i]])
  BY LoadSees DEF EmitMatchLoad
<1>1. pc'[c] = "match" /\ snap'[c] = subs
  BY DEF EmitMatchLoad, CallsInv, CallTypes, BusInv, BusTypes
<1>2. CallingOf(c)' BY <1>0, <1>1 DEF CallingOf
<1>3. SnapOf(c)'
  <2> SUFFICES /\ subs \in Snapshots
               /\ \A p \in Patterns :
                    /\ IsInjective(subs[p])
                    /\ \A i \in ToSet(subs[p]) : pat[i] = p /\ i \in MaybeThere
               /\ \A i \in sure : i \in ToSet(subs[pat[i]])
    BY <1>0, <1>1 DEF SnapOf, Snapshots
  <2> QED BY <1>0
<1>4. PlanOf(c)' /\ ReachOf(c)' BY <1>1 DEF PlanOf, ReachOf
<1> QED BY <1>2, <1>3, <1>4 DEF CallOf

(* The matcher answers an EmitMatch with the patterns q: all that cover    *)
(* the event, but for wildcards that an exact subscription hides.          *)
LEMMA MatchAnswers ==
  ASSUME CallsInv, NEW c \in Clients, pc[c] \in {"match", "merge"},
         NEW q \in Seq(Covering[arg[c]]), IsInjective(q), Matches(c, q),
         UNCHANGED <<subs, matcherVars, nextId, arg, pat, history, called, failed, throughout, sometime>>,
         \A i \in throughout[c] :
           pat[i] \in Covering[arg[c]] =>
             \/ pat[i] \in ToSet(q) \/ pat[i] \in TooDeep
             \/ /\ pat[i] \in Wildcards /\ arg[c] \notin TooDeep
                /\ \E j \in sometime[c] : pat[j] = arg[c]
  PROVE  CallOf(c)'
<1> DEFINE e == arg[c]
           s == snap[c]
<1>0. /\ UNCHANGED <<subs, ref, exact, nextId, arg, pat, sure, gone, called, failed, throughout, sometime>>
      /\ pc'[c] = "emitMatch" /\ plan'[c] = PlannedFor(s, q)
  BY DEF Matches, PlannedFor, matcherVars, history, CallsInv, CallTypes, BusInv, BusTypes
<1>1. /\ e \in EventTypes /\ MaybeThere \subseteq sometime[c] /\ called[c] = << >>
      /\ throughout[c] \subseteq sure /\ sometime[c] \subseteq 1 .. nextId
  BY DEF CallsInv, CallOf, CallingOf, EmitCalls
<1>2. /\ s \in [Patterns -> Seq(Ids)]
      /\ \A p \in Patterns : IsInjective(s[p])
      /\ \A p \in Patterns : \A i \in ToSet(s[p]) : pat[i] = p /\ i \in sometime[c]
      /\ \A i \in throughout[c] : i \in ToSet(s[pat[i]])
  BY DEF CallsInv, CallOf, SnapOf, Snapshots
<1>3. /\ q \in Seq(Covering[e])
      /\ \A i \in throughout[c] :
           pat[i] \in Covering[e] =>
             \/ pat[i] \in ToSet(q) \/ pat[i] \in TooDeep
             \/ /\ pat[i] \in Wildcards /\ e \notin TooDeep
                /\ \E j \in sometime[c] : pat[j] = e
  OBVIOUS
<1>k. e = arg[c] OBVIOUS
<1> HIDE DEF e, s
<1>4. Covering[e] \in SUBSET Patterns BY <1>1, DeliveryAssumption
<1>5. \A i \in 1 .. nextId : i \in Ids
  BY DeliveryAssumption DEF CallsInv, BusInv, BusTypes, Ids
<1>6. /\ plan'[c] \in Seq(Ids) /\ IsInjective(plan'[c])
      /\ \A x : x \in ToSet(plan'[c]) <=> \E p \in ToSet(q) : x \in ToSet(s[p])
  <2>1. \A p, r \in Patterns : p # r => ToSet(s[p]) \cap ToSet(s[r]) = {} BY <1>2
  <2>2. q \in Seq(Patterns) BY <1>3, <1>4
  <2>3. /\ PlannedFor(s, q) \in Seq(Ids) /\ IsInjective(PlannedFor(s, q))
        /\ \A x : x \in ToSet(PlannedFor(s, q)) <=> \E p \in ToSet(q) : x \in ToSet(s[p])
    BY <1>2, <2>1, <2>2, PlanGathered
  <2> QED BY <1>0, <2>3
<1>7. ToSet(q) \subseteq Covering[e] BY <1>3 DEF ToSet
<1>8. Reached(c)' = ToSet(plan'[c]) /\ called'[c] \in Seq(Ids) /\ IsInjective(called'[c])
      /\ ToSet(called'[c]) = {}
  BY <1>0, <1>1 DEF Reached, ToSet, IsInjective
<1>9. Addressed(c)' = {i \in Ids : pat[i] \in Covering[e]} BY <1>0, <1>k DEF Addressed
<1>10. CallingOf(c)'
  <2>1. MaybeThere' = MaybeThere BY <1>0 DEF MaybeThere
  <2> QED BY <1>0, <1>1, <1>k, <2>1 DEF CallingOf
<1>11. PlanOf(c)'
  <2>1. ASSUME NEW x \in ToSet(plan'[c]) PROVE x \in sometime[c] /\ x \in Ids /\ pat[x] \in Covering[e]
    <3>1. PICK p \in ToSet(q) : x \in ToSet(s[p]) BY <1>6
    <3>2. p \in Covering[e] /\ p \in Patterns BY <1>4, <1>7
    <3>3. pat[x] = p /\ x \in sometime[c] BY <1>2, <3>1, <3>2
    <3> QED BY <1>1, <1>5, <3>2, <3>3
  <2>2. Reached(c)' \subseteq sometime'[c] \cap Addressed(c)' BY <1>0, <1>8, <1>9, <2>1
  <2> QED BY <1>6, <1>8, <2>2 DEF PlanOf
<1>12. EmitMatchReaches(c)'
  <2> SUFFICES ASSUME NEW i \in throughout[c], pat[i] \in Covering[e], i \notin ToSet(plan'[c])
               PROVE  \/ pat[i] \in TooDeep
                      \/ /\ pat[i] \in Wildcards /\ e \notin TooDeep
                         /\ \E j \in sometime[c] : pat[j] = e
    BY <1>0, <1>8, <1>9, <1>k DEF EmitMatchReaches
  <2>1. pat[i] \notin ToSet(q) BY <1>2, <1>6
  <2> QED BY <1>3, <2>1
<1>13. SnapOf(c)' /\ ReachOf(c)' BY <1>0, <1>12 DEF SnapOf, ReachOf
<1> QED BY <1>10, <1>11, <1>13 DEF CallOf

(* A Match that finds the event type among the exact patterns is right: a  *)
(* subscription of it is listed.                                           *)
LEMMA MatchLooks ==
  ASSUME CallsInv, NEW c \in Clients, EmitMatchExact(c)
  PROVE  CallOf(c)'
<1>0. /\ UNCHANGED <<subs, matcherVars, nextId, arg, pat, history, called, failed, throughout, sometime>>
      /\ pc[c] = "match"
  BY DEF EmitMatchExact
<1>1. /\ arg[c] \in EventTypes /\ MaybeThere \subseteq sometime[c]
      /\ throughout[c] \subseteq sure /\ sure \subseteq 1 .. nextId
  BY <1>0 DEF CallsInv, CallOf, CallingOf, EmitCalls, BusInv, SureListed
<1>2. CASE arg[c] \in exact /\ Matches(c, <<arg[c]>>)
  <2> DEFINE q == <<arg[c]>>
  <2>1. q \in Seq(Covering[arg[c]]) /\ IsInjective(q) /\ ToSet(q) = {arg[c]}
    <3>1. exact \subseteq Patterns BY DEF CallsInv, BusInv, BusTypes
    <3> QED BY <1>1, <1>2, <3>1, ExactAlone
  <2>2. Matches(c, q) BY <1>2
  <2> HIDE DEF q
  <2>d. arg[c] \notin TooDeep BY <1>2 DEF CallsInv, BusInv, BusTypes
  <2>3. \E j \in sometime[c] : pat[j] = arg[c]
    <3>1. arg[c] \in Patterns /\ ToSet(subs[arg[c]]) # {}
      BY <1>2 DEF CallsInv, BusInv, BusTypes, MatcherServes
    <3>2. PICK j \in ToSet(subs[arg[c]]) : TRUE BY <3>1
    <3>3. j \in MaybeThere /\ pat[j] = arg[c] BY <3>1 DEF CallsInv, BusInv, ListedUnderPattern
    <3> QED BY <1>1, <3>3
  <2>4. \A i \in throughout[c] : pat[i] \in Covering[arg[c]] =>
          pat[i] \in ToSet(q) \/ pat[i] \in Wildcards
    BY <1>1, <2>1, DeliveryAssumption
  <2> QED BY <1>0, <2>1, <2>2, <2>d, <2>3, <2>4, MatchAnswers
<1>3. CASE /\ pc' = [pc EXCEPT ![c] = "merge"]
           /\ UNCHANGED <<plan, snap>>
  <2>1. pc'[c] = "merge" BY <1>3 DEF CallsInv, BusInv, BusTypes
  <2>2. CallingOf(c)' BY <1>0, <2>1 DEF CallsInv, CallOf, CallingOf, MaybeThere, history, EmitCalls
  <2>3. SnapOf(c)' BY <1>0, <1>3, <2>1 DEF CallsInv, CallOf, SnapOf, Snapshots
  <2>4. PlanOf(c)' /\ ReachOf(c)' BY <2>1 DEF PlanOf, ReachOf
  <2> QED BY <2>2, <2>3, <2>4 DEF CallOf
<1> QED BY <1>2, <1>3 DEF EmitMatchExact

(* One that merges what the trie has: each subscription that is sure has a *)
(* reference there.                                                        *)
LEMMA MatchMerges ==
  ASSUME CallsInv, NEW c \in Clients, EmitMatchMerge(c)
  PROVE  CallOf(c)'
<1>0. /\ UNCHANGED <<subs, matcherVars, nextId, arg, pat, history, called, failed, throughout, sometime>>
      /\ pc[c] = "merge" /\ Matches(c, Merged(arg[c]))
  BY DEF EmitMatchMerge
<1>1. arg[c] \in EventTypes /\ throughout[c] \subseteq sure
  BY <1>0 DEF CallsInv, CallOf, CallingOf, EmitCalls
<1> DEFINE q == Merged(arg[c])
<1>2. /\ q \in Seq(Covering[arg[c]]) /\ IsInjective(q)
      /\ ToSet(q) = {p \in Covering[arg[c]] : ref[p] > 0}
  <2>1. nextId \in Nat BY DEF CallsInv, BusInv, BusTypes
  <2>2. \A p \in Patterns : ref[p] > 0 => \E i \in 1 .. nextId : pat[i] = p
    BY DEF CallsInv, BusInv, MatcherServes
  <2> QED BY <1>1, <2>1, <2>2, MergedOnce
<1>3. Matches(c, q) BY <1>0
<1> HIDE DEF q
<1>4. \A i \in throughout[c] :
        pat[i] \in Covering[arg[c]] => pat[i] \in ToSet(q) \/ pat[i] \in TooDeep
  BY <1>1, <1>2 DEF CallsInv, BusInv, MatcherServes
<1> QED BY <1>0, <1>2, <1>3, <1>4, MatchAnswers

(* A handler is called, and the call goes on or ends with its error.       *)
LEMMA HandlerCalled ==
  ASSUME CallsInv, NEW c \in Clients, CallHandler(c)
  PROVE  CallOf(c)'
<1> DEFINE h == Head(plan[c])
<1>0. /\ UNCHANGED <<nextId, pc, arg, pat, sure, gone, throughout, sometime>>
      /\ pc[c] \in {"emit", "emitMatch"} /\ plan[c] # << >>
      /\ called'[c] = Append(called[c], h)
      /\ \/ plan'[c] = Tail(plan[c]) /\ failed'[c] = failed[c]
         \/ plan'[c] = << >> /\ failed'[c] = TRUE
  BY DEF CallHandler, history, CallsInv, CallTypes
<1>1. /\ called[c] \in Seq(Ids) /\ plan[c] \in Seq(Ids)
      /\ IsInjective(called[c]) /\ IsInjective(plan[c]) /\ ToSet(called[c]) \cap ToSet(plan[c]) = {}
      /\ Reached(c) \subseteq sometime[c] \cap Addressed(c)
  BY <1>0 DEF CallsInv, CallOf, PlanOf
<1>2. /\ h \in ToSet(plan[c]) /\ h \in Ids
      /\ Tail(plan[c]) \in Seq(Ids) /\ IsInjective(Tail(plan[c]))
      /\ ToSet(Tail(plan[c])) = ToSet(plan[c]) \ {h}
  BY <1>0, <1>1, Taken
<1> HIDE DEF h
<1>3. /\ called'[c] \in Seq(Ids) /\ IsInjective(called'[c])
      /\ ToSet(called'[c]) = ToSet(called[c]) \cup {h}
  <2>1. h \notin ToSet(called[c]) BY <1>1, <1>2
  <2> QED BY <1>0, <1>1, <1>2, <2>1, Appended
<1>4. IsInjective(<< >>) /\ ToSet(<< >>) = {} /\ << >> \in Seq(Ids) BY DEF IsInjective, ToSet
<1>5. /\ plan'[c] \in Seq(Ids) /\ IsInjective(plan'[c]) /\ ToSet(plan'[c]) \subseteq ToSet(plan[c]) \ {h}
      /\ ~failed'[c] => ~failed[c] /\ ToSet(plan'[c]) = ToSet(plan[c]) \ {h}
  BY <1>0, <1>2, <1>4
<1>6. Addressed(c)' = Addressed(c) BY <1>0 DEF Addressed
<1>7. Reached(c)' \subseteq Reached(c) /\ (~failed'[c] => Reached(c)' = Reached(c))
  BY <1>2, <1>3, <1>5 DEF Reached
<1>8. CallingOf(c)' BY <1>0 DEF CallsInv, CallOf, CallingOf, MaybeThere
<1>9. SnapOf(c)' BY <1>0 DEF SnapOf
<1>10. PlanOf(c)'
  <2>1. ToSet(called'[c]) \cap ToSet(plan'[c]) = {} BY <1>1, <1>3, <1>5
  <2>2. Reached(c)' \subseteq sometime'[c] \cap Addressed(c)' BY <1>0, <1>1, <1>6, <1>7
  <2> QED BY <1>3, <1>5, <2>1, <2>2 DEF PlanOf
<1>11. ReachOf(c)'
  <2> SUFFICES ASSUME ~failed'[c]
               PROVE  /\ pc[c] = "emit" => EmitReaches(c)'
                      /\ pc[c] = "emitMatch" => EmitMatchReaches(c)'
    BY <1>0 DEF ReachOf
  <2>1. Reached(c)' = Reached(c) /\ ~failed[c] BY <1>5, <1>7
  <2>2. /\ pc[c] = "emit" => EmitReaches(c)
        /\ pc[c] = "emitMatch" => EmitMatchReaches(c)
    BY <2>1 DEF CallsInv, CallOf, ReachOf
  <2>3. EmitReaches(c) => EmitReaches(c)' BY <1>0, <1>6, <2>1 DEF EmitReaches
  <2>4. EmitMatchReaches(c) => EmitMatchReaches(c)' BY <1>0, <1>6, <2>1 DEF EmitMatchReaches
  <2> QED BY <2>2, <2>3, <2>4
<1> QED BY <1>8, <1>9, <1>10, <1>11 DEF CallOf

LEMMA CallReturns ==
  ASSUME CallsInv, NEW c \in Clients, EmitReturn(c)
  PROVE  CallOf(c)'
<1>1. pc'[c] = "idle" /\ called'[c] = << >> /\ throughout'[c] = {} /\ sometime'[c] = {}
  BY DEF EmitReturn, Return, CallsInv, CallTypes, BusInv, BusTypes
<1> QED BY <1>1 DEF CallOf, CallingOf, SnapOf, PlanOf, ReachOf, EmitCalls

(* What a step of On or Off means for all calls.                           *)
LEMMA ChangeKeepsCalls ==
  ASSUME CallsInv, NEW c \in Clients, On(c) \/ Off(c)
  PROVE  /\ PatternsKept /\ \A d \in Clients : CallKept(d)
         /\ UNCHANGED <<snap, plan, called, failed>>
         /\ throughout' = [d \in Clients |-> throughout'[d]]
         /\ sometime' = [d \in Clients |-> sometime'[d]]
<1>0. /\ pc \in [Clients -> BusPlaces] /\ arg = [d \in Clients |-> arg[d]]
      /\ throughout = [d \in Clients |-> throughout[d]]
      /\ sometime = [d \in Clients |-> sometime[d]]
      /\ nextId \in Nat
  BY DEF CallsInv, CallTypes, BusInv, BusTypes
<1>1. UNCHANGED <<snap, plan, called, failed>>
  BY DEF On, Off, OnStart, OnStore, OnExact, OnAdd, OffStart, OffRemove, OffCount, OffStore,
      callVars
<1>2. /\ \E x \in BusPlaces \ EmitCalls : pc' = [pc EXCEPT ![c] = x]
      /\ pc[c] \notin EmitCalls
      /\ arg' = arg \/ \E x : arg' = [arg EXCEPT ![c] = x]
  BY DEF On, Off, OnStart, OnStore, OnExact, OnAdd, OffStart, OffRemove, OffCount, OffStore,
      Return, BusPlaces, EmitCalls
<1>3. \A d \in Clients : \/ pc'[d] = pc[d] /\ arg'[d] = arg[d]
                         \/ pc[d] \notin EmitCalls /\ pc'[d] \notin EmitCalls
  BY <1>0, <1>2
<1>4. /\ gone \subseteq gone'
      /\ \/ UNCHANGED <<nextId, pat>>
         \/ \E p \in Patterns : nextId' = nextId + 1 /\ pat' = [pat EXCEPT ![nextId + 1] = p]
  BY DEF On, Off, OnStart, OnStore, OnExact, OnAdd, OffStart, OffRemove, OffCount, OffStore,
      history
<1>5. PatternsKept
  <2>1. \A i \in 1 .. nextId : i \in Ids /\ i # nextId + 1 /\ i \in 1 .. nextId + 1
    BY <1>0, DeliveryAssumption DEF CallsInv, BusInv, BusTypes, Ids
  <2>2. pat = [i \in Ids |-> pat[i]] BY DEF CallsInv, BusInv, BusTypes
  <2> QED BY <1>4, <2>1, <2>2 DEF PatternsKept
<1>6. Watch \/ UNCHANGED <<nextId, gone, sure, throughout, sometime>>
  BY DEF On, Off, OnStart, OnStore, OnExact, OnAdd, OffStart, OffRemove, OffCount, OffStore,
      history
<1>7. ASSUME NEW d \in Clients
      PROVE  /\ throughout'[d] \subseteq throughout[d] \cap sure'
             /\ sometime[d] \subseteq sometime'[d] /\ sometime'[d] \subseteq 1 .. nextId'
             /\ pc[d] \in EmitCalls => MaybeThere' \subseteq sometime'[d]
  <2>0. /\ throughout[d] \subseteq sure /\ sometime[d] \subseteq 1 .. nextId
        /\ pc[d] \in EmitCalls => MaybeThere \subseteq sometime[d]
    BY DEF CallsInv, CallOf, CallingOf
  <2>1. CASE UNCHANGED <<nextId, gone, sure, throughout, sometime>>
    BY <2>0, <2>1 DEF MaybeThere
  <2>2. CASE Watch
    <3>1. /\ throughout'[d] = throughout[d] \cap sure'
          /\ sometime'[d] = IF pc[d] \in EmitCalls THEN sometime[d] \cup MaybeThere' ELSE sometime[d]
      BY <2>2 DEF Watch, Observe
    <3>2. MaybeThere' \subseteq 1 .. nextId' BY DEF MaybeThere
    <3>3. \A i \in 1 .. nextId : i \in 1 .. nextId' BY <1>5 DEF PatternsKept
    <3> HIDE DEF MaybeThere
    <3> QED BY <2>0, <3>1, <3>2, <3>3
  <2> QED BY <1>6, <2>1, <2>2
<1>8. /\ throughout' = [d \in Clients |-> throughout'[d]]
      /\ sometime' = [d \in Clients |-> sometime'[d]]
  BY <1>0, <1>6 DEF Watch, Observe
<1> QED BY <1>1, <1>3, <1>5, <1>7, <1>8 DEF CallKept

LEMMA CallsStep == CallsInv /\ [Next]_vars => CallsInv'
<1> SUFFICES ASSUME CallsInv, [Next]_vars PROVE CallsInv'
  OBVIOUS
<1>b. BusInv /\ BusInv' BY BusStep DEF CallsInv
<1>t. CallTypes /\ pc \in [Clients -> BusPlaces] /\ arg = [d \in Clients |-> arg[d]]
  BY DEF CallsInv, BusInv, BusTypes
<1>1. ASSUME NEW c \in Clients, On(c) \/ Off(c) PROVE CallsInv'
  <2>1. /\ PatternsKept /\ \A d \in Clients : CallKept(d)
        /\ UNCHANGED <<snap, plan, called, failed>>
        /\ throughout' = [d \in Clients |-> throughout'[d]]
        /\ sometime' = [d \in Clients |-> sometime'[d]]
    BY <1>1, ChangeKeepsCalls
  <2>2. CallTypes' BY <1>t, <2>1 DEF CallTypes
  <2>3. \A d \in Clients : CallOf(d)' BY <1>b, <2>1, KeptCallIsRight DEF CallsInv
  <2> QED BY <1>b, <2>2, <2>3 DEF CallsInv
<1>2. ASSUME NEW c \in Clients, Emit(c) PROVE CallsInv'
  <2>1. /\ UNCHANGED <<nextId, pat, sure, gone>>
        /\ pc' = pc \/ \E x : pc' = [pc EXCEPT ![c] = x]
        /\ arg' = arg \/ \E x : arg' = [arg EXCEPT ![c] = x]
        /\ snap' = snap \/ \E x : snap' = [snap EXCEPT ![c] = x]
        /\ plan' = plan \/ \E x : plan' = [plan EXCEPT ![c] = x]
        /\ called' = called \/ \E x : called' = [called EXCEPT ![c] = x]
        /\ failed' = failed \/ \E x \in BOOLEAN : failed' = [failed EXCEPT ![c] = x]
        /\ throughout' = throughout \/ \E x : throughout' = [throughout EXCEPT ![c] = x]
        /\ sometime' = sometime \/ \E x : sometime' = [sometime EXCEPT ![c] = x]
    <3>1. CASE \E e \in EventTypes : EmitLoad(c, e) \/ EmitMatchLoad(c, e)
      BY <3>1 DEF EmitLoad, EmitMatchLoad, StartCall, history
    <3>2. CASE EmitMatchExact(c) \/ EmitMatchMerge(c)
      BY <3>2 DEF EmitMatchExact, EmitMatchMerge, Matches, history
    <3>3. CASE CallHandler(c) BY <3>3 DEF CallHandler, history
    <3>4. CASE EmitReturn(c) BY <3>4 DEF EmitReturn, Return, history
    <3> QED BY <1>2, <3>1, <3>2, <3>3, <3>4 DEF Emit
  <2>2. \A d \in Clients \ {c} :
          /\ pc'[d] = pc[d] /\ arg'[d] = arg[d] /\ snap'[d] = snap[d] /\ plan'[d] = plan[d]
          /\ called'[d] = called[d] /\ failed'[d] = failed[d]
          /\ throughout'[d] = throughout[d] /\ sometime'[d] = sometime[d]
    BY <1>t, <2>1 DEF CallTypes
  <2>3. CallTypes' BY <1>t, <2>1 DEF CallTypes
  <2>4. ASSUME NEW d \in Clients, d # c PROVE CallOf(d)'
    <3>1. /\ throughout[d] \subseteq sure /\ sometime[d] \subseteq 1 .. nextId
          /\ pc[d] \in EmitCalls => MaybeThere \subseteq sometime[d]
      BY DEF CallsInv, CallOf, CallingOf
    <3>2. CallKept(d) BY <2>1, <2>2, <2>4, <3>1 DEF CallKept, MaybeThere
    <3>3. PatternsKept BY <2>1 DEF PatternsKept
    <3> QED BY <1>b, <3>2, <3>3, KeptCallIsRight DEF CallsInv
  <2>5. CallOf(c)'
    BY <1>2, EmitLoads, EmitMatchLoads, MatchLooks, MatchMerges, HandlerCalled, CallReturns DEF Emit
  <2> QED BY <1>b, <2>3, <2>4, <2>5 DEF CallsInv
<1>3. CASE UNCHANGED vars
  <2>1. UNCHANGED <<nextId, pat, sure, gone, pc, arg, snap, plan, called, failed, throughout, sometime>>
    BY <1>3 DEF vars, callVars, history
  <2>2. PatternsKept BY <2>1 DEF PatternsKept
  <2>3. ASSUME NEW d \in Clients PROVE CallOf(d)'
    <3>1. /\ throughout[d] \subseteq sure /\ sometime[d] \subseteq 1 .. nextId
          /\ pc[d] \in EmitCalls => MaybeThere \subseteq sometime[d]
      BY DEF CallsInv, CallOf, CallingOf
    <3>2. CallKept(d) BY <2>1, <3>1 DEF CallKept, MaybeThere
    <3> QED BY <1>b, <2>2, <3>2, KeptCallIsRight DEF CallsInv
  <2> QED BY <1>b, <1>t, <2>1, <2>3 DEF CallsInv, CallTypes
<1> QED BY <1>1, <1>2, <1>3 DEF Next

(* A call of Emit or EmitMatch reaches no handler twice, none whose        *)
(* pattern does not match and none whose Off had returned before the call  *)
(* (sync/bus.go 262-297, async/bus.go 214-232, 326-340).                   *)
THEOREM DeliverySound == Spec => []DeliveryIsSound
<1>1. CallsInv => DeliveryIsSound
  <2> SUFFICES ASSUME CallsInv, NEW c \in Clients, pc[c] \in EmitCalls
               PROVE  /\ IsInjective(called[c])
                      /\ ToSet(called[c]) \subseteq sometime[c] \cap Addressed(c)
    BY DEF DeliveryIsSound
  <2>1. CASE pc[c] \in {"match", "merge"}
    <3>1. called[c] = << >> BY <2>1 DEF CallsInv, CallOf, CallingOf
    <3> QED BY <3>1 DEF IsInjective, ToSet
  <2>2. CASE pc[c] \in {"emit", "emitMatch"}
    BY <2>2 DEF CallsInv, CallOf, PlanOf, Reached
  <2> QED BY <2>1, <2>2 DEF EmitCalls
<1> QED BY <1>1, CallsInitially, CallsStep, PTL DEF Spec

(* A call that has nothing left to do.                                     *)
LEMMA EndedReached ==
  ASSUME CallsInv, NEW c \in Clients, plan[c] = << >>
  PROVE  Reached(c) = ToSet(called[c])
BY DEF Reached, ToSet

(* An Emit that ends without an error has called every handler that was    *)
(* subscribed to its event type throughout, but for the empty string on a  *)
(* bus with other patterns (sync/bus.go 265, async/bus.go 328).            *)
THEOREM EmitComplete == Spec => []EmitIsComplete
<1>1. CallsInv => EmitIsComplete
  <2> SUFFICES ASSUME CallsInv, NEW c \in Clients, Ended(c, "emit"), ~failed[c]
               PROVE  \/ throughout[c] \cap Addressed(c) \subseteq ToSet(called[c])
                      \/ arg[c] = NoType /\ \E j \in sometime[c] : pat[j] # NoType
    BY DEF EmitIsComplete
  <2>1. EmitReaches(c) BY DEF Ended, CallsInv, CallOf, ReachOf
  <2>2. Reached(c) = ToSet(called[c]) BY EndedReached DEF Ended
  <2> QED BY <2>1, <2>2 DEF EmitReaches
<1> QED BY <1>1, CallsInitially, CallsStep, PTL DEF Spec

(* An EmitMatch has called every handler that was there throughout with a  *)
(* pattern that covers its event type, but for patterns too deep for the   *)
(* matcher and wildcards that an exact subscription hides, which does so   *)
(* only if it is not too deep itself (sync/bus.go 282-297, matcher.go 132- *)
(* 136).                                                                   *)
THEOREM EmitMatchComplete == Spec => []EmitMatchIsComplete
<1>1. CallsInv => EmitMatchIsComplete
  <2> SUFFICES ASSUME CallsInv, NEW c \in Clients, Ended(c, "emitMatch"), ~failed[c],
                      NEW i \in throughout[c] \cap Addressed(c)
               PROVE  \/ i \in ToSet(called[c]) \/ pat[i] \in TooDeep
                      \/ /\ pat[i] \in Wildcards /\ arg[c] \notin TooDeep
                         /\ \E j \in sometime[c] : pat[j] = arg[c]
    BY DEF EmitMatchIsComplete
  <2>1. EmitMatchReaches(c) BY DEF Ended, CallsInv, CallOf, ReachOf
  <2>2. Reached(c) = ToSet(called[c]) BY EndedReached DEF Ended
  <2> QED BY <2>1, <2>2 DEF EmitMatchReaches
<1> QED BY <1>1, CallsInitially, CallsStep, PTL DEF Spec
-----------------------------------------------------------------------------

(***************************************************************************)
(* The flow bus: its list of subscriptions.                                *)
(***************************************************************************)
LEMMA Removed ==
  ASSUME NEW s \in Seq(Ids), IsInjective(s), NEW i \in ToSet(s)
  PROVE  /\ CutOut(s, i) \in Seq(Ids)
         /\ ToSet(CutOut(s, i)) = ToSet(s) \ {i}
         /\ IsInjective(CutOut(s, i))
<1> DEFINE k == CHOOSE j \in DOMAIN s : s[j] = i
           t == CutOut(s, i)
           n == Len(s)
<1>1. k \in DOMAIN s /\ s[k] = i BY DEF ToSet
<1>2. n \in Nat /\ DOMAIN s = 1 .. n /\ k \in 1 .. n BY <1>1
<1>3. t = SubSeq(s, 1, k - 1) \o SubSeq(s, k + 1, n) BY DEF CutOut, RemoveAt
<1>d. \A a, b \in 1 .. n : s[a] = s[b] => a = b BY <1>2 DEF IsInjective
<1> HIDE DEF k, t, n
<1>4. \A j \in 1 .. n : s[j] \in Ids BY <1>2
<1>5. /\ SubSeq(s, 1, k - 1) \in Seq(Ids) /\ Len(SubSeq(s, 1, k - 1)) = k - 1
      /\ \A j \in 1 .. k - 1 : SubSeq(s, 1, k - 1)[j] = s[j]
  <2>1. \A j \in 1 .. k - 1 : s[j] \in Ids BY <1>2, <1>4
  <2>2. 1 \in Int /\ k - 1 \in Int /\ k - 1 - 1 + 1 = k - 1 /\ (1 > k - 1 => k - 1 = 0) BY <1>2
  <2> QED BY <1>2, <2>1, <2>2, SubSeqProperties
<1>6. /\ SubSeq(s, k + 1, n) \in Seq(Ids) /\ Len(SubSeq(s, k + 1, n)) = n - k
      /\ \A j \in 1 .. n - k : SubSeq(s, k + 1, n)[j] = s[k + j]
  <2>1. \A j \in k + 1 .. n : s[j] \in Ids BY <1>2, <1>4
  <2>2. /\ k + 1 \in Int /\ n \in Int /\ n - (k + 1) + 1 = n - k /\ (k + 1 > n => n - k = 0)
        /\ \A j \in 1 .. n - k : k + 1 + j - 1 = k + j
    BY <1>2
  <2>3. SubSeq(s, k + 1, n) \in Seq(Ids) BY <2>1, <2>2, SubSeqProperties
  <2>4. Len(SubSeq(s, k + 1, n)) = n - k BY <2>1, <2>2, SubSeqProperties
  <2>5. \A j \in 1 .. n - (k + 1) + 1 : SubSeq(s, k + 1, n)[j] = s[k + 1 + j - 1]
    BY <2>1, <2>2, SubSeqProperties
  <2> QED BY <2>2, <2>3, <2>4, <2>5
<1>7. /\ t \in Seq(Ids) /\ Len(t) = n - 1
      /\ \A j \in 1 .. n - 1 : t[j] = IF j < k THEN s[j] ELSE s[j + 1]
  <2> DEFINE u == SubSeq(s, 1, k - 1)
             v == SubSeq(s, k + 1, n)
  <2>1. /\ u \in Seq(Ids) /\ v \in Seq(Ids) /\ Len(u) = k - 1 /\ Len(v) = n - k /\ t = u \o v
        /\ \A j \in 1 .. k - 1 : u[j] = s[j]
        /\ \A j \in 1 .. n - k : v[j] = s[k + j]
    BY <1>3, <1>5, <1>6
  <2> HIDE DEF u, v
  <2>2. t \in Seq(Ids) /\ Len(t) = n - 1 BY <1>2, <2>1, ConcatProperties
  <2>3. ASSUME NEW j \in 1 .. n - 1 PROVE t[j] = IF j < k THEN s[j] ELSE s[j + 1]
    <3>1. t[j] = IF j <= k - 1 THEN u[j] ELSE v[j - (k - 1)]
      BY <1>2, <2>1, ConcatProperties
    <3>2. CASE j < k BY <1>2, <2>1, <3>1, <3>2
    <3>3. CASE j >= k
      <4>1. j - (k - 1) \in 1 .. n - k /\ k + (j - (k - 1)) = j + 1 BY <1>2, <3>3
      <4> QED BY <1>2, <2>1, <3>1, <3>3, <4>1
    <3> QED BY <1>2, <3>2, <3>3
  <2> QED BY <2>2, <2>3
<1>8. DOMAIN t = 1 .. n - 1 BY <1>7
<1>9. ToSet(t) = ToSet(s) \ {i}
  <2>1. ASSUME NEW x \in ToSet(t) PROVE x \in ToSet(s) \ {i}
    <3>1. PICK j \in 1 .. n - 1 : x = t[j] BY <1>8, <2>1 DEF ToSet
    <3>2. PICK l \in 1 .. n : x = s[l] /\ l # k BY <1>2, <1>7, <3>1
    <3>3. x # i BY <1>1, <1>2, <1>d, <3>2
    <3> QED BY <1>2, <3>2, <3>3 DEF ToSet
  <2>2. ASSUME NEW x \in ToSet(s) \ {i} PROVE x \in ToSet(t)
    <3>1. PICK l \in 1 .. n : x = s[l] BY <1>2, <2>2 DEF ToSet
    <3>2. l # k BY <1>1, <2>2, <3>1
    <3>3. CASE l < k
      <4>1. l \in 1 .. n - 1 /\ x = t[l] BY <1>2, <1>7, <3>1, <3>3
      <4> QED BY <1>8, <4>1 DEF ToSet
    <3>4. CASE l > k
      <4>1. l - 1 \in 1 .. n - 1 /\ x = t[l - 1] BY <1>2, <1>7, <3>1, <3>4
      <4> QED BY <1>8, <4>1 DEF ToSet
    <3> QED BY <1>2, <3>2, <3>3, <3>4
  <2> QED BY <2>1, <2>2
<1>10. ASSUME NEW a \in DOMAIN t, NEW b \in DOMAIN t, t[a] = t[b] PROVE a = b
  BY <1>2, <1>7, <1>8, <1>d, <1>10
<1> QED BY <1>7, <1>9, <1>10 DEF t, IsInjective

(***************************************************************************)
(* The flow bus: the handlers of a pattern, and of the patterns matched.   *)
(***************************************************************************)
LEMMA HandlersGathered ==
  ASSUME NEW list \in Seq(Ids), IsInjective(list), NEW p
  PROVE  /\ HandlersOf(list, p) \in Seq(Ids) /\ IsInjective(HandlersOf(list, p))
         /\ ToSet(HandlersOf(list, p)) = {i \in ToSet(list) : pat[i] = p}
<1> DEFINE n == Len(list)
           G == [k \in DOMAIN list |-> IF pat[list[k]] = p THEN <<list[k]>> ELSE << >>]
<1>1. HandlersOf(list, p) = FlattenSeq(G) BY DEF HandlersOf
<1>2. n \in Nat /\ DOMAIN list = 1 .. n /\ \A k \in 1 .. n : list[k] \in Ids OBVIOUS
<1>3. \A k, l \in 1 .. n : list[k] = list[l] => k = l BY <1>2 DEF IsInjective
<1>4. ASSUME NEW k \in 1 .. n
      PROVE  /\ G[k] \in Seq(Ids) /\ IsInjective(G[k])
             /\ ToSet(G[k]) = IF pat[list[k]] = p THEN {list[k]} ELSE {}
  <2>1. G[k] = IF pat[list[k]] = p THEN <<list[k]>> ELSE << >> BY <1>2
  <2>2. \A i \in Ids : /\ <<i>> \in Seq(Ids) /\ IsInjective(<<i>>) /\ ToSet(<<i>>) = {i}
                       /\ << >> \in Seq(Ids) /\ IsInjective(<< >>) /\ ToSet(<< >>) = {}
    BY DEF IsInjective, ToSet
  <2> HIDE DEF G
  <2> QED BY <1>2, <2>1, <2>2
<1>5. G = [k \in 1 .. n |-> G[k]] BY <1>2
<1> HIDE DEF G, n
<1>6. G \in [1 .. n -> Seq(Ids)] BY <1>4, <1>5
<1>7. \A k, l \in 1 .. n : k # l => ToSet(G[k]) \cap ToSet(G[l]) = {}
  <2> SUFFICES ASSUME NEW k \in 1 .. n, NEW l \in 1 .. n, k # l
               PROVE  ToSet(G[k]) \cap ToSet(G[l]) = {}
    OBVIOUS
  <2>1. list[k] # list[l] BY <1>3
  <2> QED BY <1>4, <2>1
<1>8. Pieces(G, n, Ids) BY <1>4, <1>6, <1>7 DEF Pieces
<1>9. /\ FlattenSeq(G) \in Seq(Ids) /\ IsInjective(FlattenSeq(G))
      /\ \A x : x \in ToSet(FlattenSeq(G)) <=> \E k \in 1 .. n : x \in ToSet(G[k])
  BY <1>2, <1>8, Flattened
<1>10. \A x : (\E k \in 1 .. n : x \in ToSet(G[k])) <=> x \in {i \in ToSet(list) : pat[i] = p}
  <2>1. ToSet(list) = {list[k] : k \in 1 .. n} BY <1>2 DEF ToSet
  <2> QED BY <1>4, <2>1
<1> QED BY <1>1, <1>9, <1>10

(* The handlers a consumer calls when it was told the patterns q.          *)
CalledFor(list, q) == FlattenSeq([k \in DOMAIN q |-> HandlersOf(list, q[k])])

LEMMA CalledGathered ==
  ASSUME NEW list \in Seq(Ids), IsInjective(list), NEW V, NEW q \in Seq(V), IsInjective(q)
  PROVE  /\ CalledFor(list, q) \in Seq(Ids) /\ IsInjective(CalledFor(list, q))
         /\ ToSet(CalledFor(list, q)) = {i \in ToSet(list) : pat[i] \in ToSet(q)}
<1> DEFINE n == Len(q)
           G == [k \in DOMAIN q |-> HandlersOf(list, q[k])]
<1>1. CalledFor(list, q) = FlattenSeq(G) BY DEF CalledFor
<1>2. n \in Nat /\ DOMAIN q = 1 .. n /\ \A k \in 1 .. n : q[k] \in V OBVIOUS
<1>3. \A k, l \in 1 .. n : q[k] = q[l] => k = l BY <1>2 DEF IsInjective
<1>4. ASSUME NEW k \in 1 .. n
      PROVE  /\ G[k] \in Seq(Ids) /\ IsInjective(G[k])
             /\ ToSet(G[k]) = {i \in ToSet(list) : pat[i] = q[k]}
  <2>1. G[k] = HandlersOf(list, q[k]) BY <1>2
  <2> HIDE DEF G
  <2> QED BY <2>1, HandlersGathered
<1>5. G = [k \in 1 .. n |-> G[k]] BY <1>2
<1> HIDE DEF G, n
<1>6. G \in [1 .. n -> Seq(Ids)] BY <1>4, <1>5
<1>7. \A k, l \in 1 .. n : k # l => ToSet(G[k]) \cap ToSet(G[l]) = {}
  <2> SUFFICES ASSUME NEW k \in 1 .. n, NEW l \in 1 .. n, k # l
               PROVE  ToSet(G[k]) \cap ToSet(G[l]) = {}
    OBVIOUS
  <2>1. q[k] # q[l] BY <1>3
  <2> QED BY <1>4, <2>1
<1>8. Pieces(G, n, Ids) BY <1>4, <1>6, <1>7 DEF Pieces
<1>9. /\ FlattenSeq(G) \in Seq(Ids) /\ IsInjective(FlattenSeq(G))
      /\ \A x : x \in ToSet(FlattenSeq(G)) <=> \E k \in 1 .. n : x \in ToSet(G[k])
  BY <1>2, <1>8, Flattened
<1>10. \A x : (\E k \in 1 .. n : x \in ToSet(G[k])) <=> x \in {i \in ToSet(list) : pat[i] \in ToSet(q)}
  <2>1. ToSet(q) = {q[k] : k \in 1 .. n} BY <1>2 DEF ToSet
  <2> QED BY <1>4, <2>1
<1> QED BY <1>1, <1>9, <1>10

-----------------------------------------------------------------------------
(***************************************************************************)
(* The flow bus: the inductive invariant of its list.                      *)
(***************************************************************************)
Goroutines == Changers \cup Consumers
Places ==
  {"idle", "onCount", "onLoad", "onSwap", "offLoad", "offRemove", "offCount", "offSwap",
   "match", "merge", "called"}

Types ==
  /\ subs \in Seq(Ids) /\ IsInjective(subs)
  /\ gen \in Nat /\ nextId \in 0 .. MaxId
  /\ pc \in [Goroutines -> Places]
  /\ arg = [c \in Goroutines |-> arg[c]]
  /\ old = [c \in Goroutines |-> old[c]]

(* Nobody knows an id that nextID has not given out.                       *)
Numbered == ToSet(subs) \cup sure \cup gone \subseteq 1 .. nextId

(* A changer about to swap has the list of the snapshot whose number it    *)
(* holds, and an Off has found its subscription there.                     *)
Loaded ==
  \A c \in Changers :
    pc[c] \in {"onSwap", "offRemove", "offCount", "offSwap"} =>
      /\ old[c].gen \in Nat /\ old[c].gen <= gen
      /\ old[c].gen = gen => old[c].list = subs
      /\ pc[c] # "onSwap" => arg[c] \in ToSet(old[c].list)

(* Nobody else knows the id that an On at work will return.                *)
Adding(c) == pc[c] \in {"onCount", "onLoad", "onSwap"}
Removing(c) == pc[c] \in {"offLoad", "offRemove", "offCount", "offSwap"}

AddingNew ==
  \A c \in Changers :
    Adding(c) =>
      /\ arg[c] \in 1 .. nextId
      /\ arg[c] \notin ToSet(subs) \cup sure \cup gone
      /\ \A d \in Changers \ {c} : Adding(d) \/ Removing(d) => arg[d] # arg[c]

RemovingKnown ==
  \A c \in Changers : Removing(c) => arg[c] \in (1 .. nextId) \ sure

SubsInv == Types /\ Numbered /\ Loaded /\ AddingNew /\ RemovingKnown /\ NoLostUpdate

LEMMA Initially == FlowInit => SubsInv
<1> SUFFICES ASSUME FlowInit PROVE SubsInv
  OBVIOUS
<1>1. subs = << >> /\ ToSet(subs) = {} BY DEF FlowInit, ToSet
<1>2. Types
  BY <1>1, DeliveryAssumption DEF FlowInit, Types, Goroutines, Places, IsInjective, Ids
<1>3. \A c \in Changers : pc[c] = "idle" BY DEF FlowInit
<1> QED
  BY <1>1, <1>2, <1>3
  DEF FlowInit, SubsInv, Numbered, Loaded, AddingNew, RemovingKnown, Adding, Removing, NoLostUpdate

(* A step that neither stores a snapshot nor changes an id.                *)
LEMMA ListStays ==
  ASSUME SubsInv, NEW c \in Changers,
         UNCHANGED <<subs, gen, nextId, arg, sure, gone>>,
         pc' = [pc EXCEPT ![c] = pc'[c]], pc'[c] \in Places,
         old' = [old EXCEPT ![c] = old'[c]],
         Adding(c)' => Adding(c), Removing(c)' => Removing(c),
         pc'[c] \in {"onSwap", "offRemove", "offCount", "offSwap"} =>
           /\ old'[c].gen \in Nat /\ old'[c].gen <= gen
           /\ old'[c].gen = gen => old'[c].list = subs
           /\ pc'[c] # "onSwap" => arg[c] \in ToSet(old'[c].list)
  PROVE  SubsInv'
<1>0. c \in Goroutines /\ pc \in [Goroutines -> Places] /\ old = [d \in Goroutines |-> old[d]]
  BY DEF SubsInv, Types, Goroutines
<1>1. \A d \in Changers \ {c} : pc'[d] = pc[d] /\ old'[d] = old[d]
  BY <1>0 DEF Goroutines
<1>2. Types' BY <1>0 DEF SubsInv, Types
<1>3. Numbered' /\ NoLostUpdate' BY DEF SubsInv, Numbered, NoLostUpdate
<1>4. Loaded' BY <1>1 DEF SubsInv, Loaded
<1>5. \A d \in Changers : (Adding(d)' => Adding(d)) /\ (Removing(d)' => Removing(d))
  BY <1>1 DEF Adding, Removing
<1>6. AddingNew' BY <1>5 DEF SubsInv, AddingNew
<1>7. RemovingKnown' BY <1>5 DEF SubsInv, RemovingKnown
<1> QED BY <1>2, <1>3, <1>4, <1>6, <1>7 DEF SubsInv

LEMMA StartsOn ==
  ASSUME SubsInv, NEW c \in Changers, NEW p \in Patterns, FlowOnAdd(c, p)
  PROVE  SubsInv'
<1>0. /\ UNCHANGED <<subs, gen, old, sure, gone>> /\ pc[c] = "idle"
      /\ nextId < MaxId /\ nextId' = nextId + 1 /\ nextId \in 0 .. MaxId
      /\ arg' = [arg EXCEPT ![c] = nextId + 1]
      /\ pc' = [pc EXCEPT ![c] = "onCount"]
      /\ c \in Goroutines /\ pc \in [Goroutines -> Places] /\ arg = [d \in Goroutines |-> arg[d]]
      /\ MaxId \in Nat
  BY DeliveryAssumption DEF FlowOnAdd, flowHistory, SubsInv, Types, Goroutines
<1>1. /\ pc'[c] = "onCount" /\ arg'[c] = nextId + 1
      /\ \A d \in Changers \ {c} : pc'[d] = pc[d] /\ arg'[d] = arg[d]
  BY <1>0 DEF Goroutines
<1>2. Types'
  <2>1. nextId' \in 0 .. MaxId BY <1>0
  <2> QED BY <1>0, <2>1 DEF SubsInv, Types, Places
<1>3. Numbered' /\ NoLostUpdate' BY <1>0 DEF SubsInv, Numbered, NoLostUpdate
<1>4. Loaded' BY <1>0, <1>1 DEF SubsInv, Loaded
<1>5. /\ ~Removing(c)'
      /\ \A d \in Changers \ {c} : Adding(d)' = Adding(d) /\ Removing(d)' = Removing(d)
  BY <1>1 DEF Adding, Removing
<1>6. \A d \in Changers \ {c} : Adding(d) \/ Removing(d) => arg[d] \in 1 .. nextId
  BY DEF SubsInv, AddingNew, RemovingKnown
<1>7. nextId + 1 \notin ToSet(subs) \cup sure \cup gone
  BY <1>0 DEF SubsInv, Numbered
<1>8. AddingNew'
  <2>1. ASSUME NEW d \in Changers, d # c, Adding(d)'
        PROVE  /\ arg'[d] \in 1 .. nextId'
               /\ arg'[d] \notin (ToSet(subs) \cup sure \cup gone)'
               /\ \A e \in Changers \ {d} : (Adding(e) \/ Removing(e))' => arg'[e] # arg'[d]
    <3>1. Adding(d) /\ arg'[d] = arg[d] /\ arg[d] \in 1 .. nextId BY <1>1, <1>5, <1>6, <2>1
    <3>2. \A e \in Changers \ {c, d} : (Adding(e) \/ Removing(e))' => arg'[e] # arg'[d]
      BY <1>1, <1>5, <3>1 DEF SubsInv, AddingNew
    <3>3. arg'[c] # arg'[d] BY <1>0, <1>1, <3>1
    <3>4. arg'[d] \in 1 .. nextId' BY <1>0, <3>1
    <3>5. arg'[d] \notin (ToSet(subs) \cup sure \cup gone)'
      BY <1>0, <3>1 DEF SubsInv, AddingNew
    <3> QED BY <3>2, <3>3, <3>4, <3>5
  <2>2. /\ arg'[c] \in 1 .. nextId' /\ arg'[c] \notin (ToSet(subs) \cup sure \cup gone)'
        /\ \A e \in Changers \ {c} : (Adding(e) \/ Removing(e))' => arg'[e] # arg'[c]
    <3>1. \A e \in Changers \ {c} : (Adding(e) \/ Removing(e))' => arg'[e] \in 1 .. nextId
      BY <1>1, <1>5, <1>6
    <3> QED BY <1>0, <1>1, <1>7, <3>1
  <2> QED BY <2>1, <2>2 DEF AddingNew
<1>9. RemovingKnown'
  BY <1>0, <1>1, <1>5 DEF SubsInv, RemovingKnown
<1> QED BY <1>2, <1>3, <1>4, <1>8, <1>9 DEF SubsInv

(* An Off that loads a snapshot with its subscription, and one without.    *)
LEMMA Finds ==
  ASSUME SubsInv, NEW c \in Changers, NEW i \in 1 .. nextId,
         Look(c, i), i \in ToSet(subs), sure' = sure \ {i}, UNCHANGED <<subs, gen, nextId>>,
         \A d \in Changers : Adding(d) => d # c /\ arg[d] # i
  PROVE  SubsInv'
<1>0. /\ UNCHANGED gone
      /\ arg' = [arg EXCEPT ![c] = i]
      /\ old' = [old EXCEPT ![c] = [gen |-> gen, list |-> subs]]
      /\ pc' = [pc EXCEPT ![c] = "offRemove"]
      /\ c \in Goroutines /\ pc \in [Goroutines -> Places] /\ arg = [d \in Goroutines |-> arg[d]]
      /\ old = [d \in Goroutines |-> old[d]] /\ gen \in Nat
  BY DEF Look, SubsInv, Types, Goroutines
<1>1. /\ pc'[c] = "offRemove" /\ arg'[c] = i
      /\ \A d \in Changers \ {c} : pc'[d] = pc[d] /\ arg'[d] = arg[d] /\ old'[d] = old[d]
  BY <1>0 DEF Goroutines
<1>2. Types' BY <1>0 DEF SubsInv, Types, Places
<1>3. Numbered' /\ NoLostUpdate' BY <1>0 DEF SubsInv, Numbered, NoLostUpdate
<1>4. Loaded'
  <2>1. old'[c] = [gen |-> gen, list |-> subs] BY <1>0
  <2>2. old'[c].gen = gen /\ old'[c].list = subs BY <2>1
  <2>3. UNCHANGED <<subs, gen>> BY <1>0
  <2>4. ASSUME NEW d \in Changers \ {c},
               pc'[d] \in {"onSwap", "offRemove", "offCount", "offSwap"}
        PROVE  /\ old'[d].gen \in Nat /\ old'[d].gen <= gen'
               /\ old'[d].gen = gen' => old'[d].list = subs'
               /\ pc'[d] # "onSwap" => arg'[d] \in ToSet(old'[d].list)
    <3>1. pc'[d] = pc[d] /\ arg'[d] = arg[d] /\ old'[d] = old[d] BY <1>1, <2>4
    <3> QED BY <2>3, <2>4, <3>1 DEF SubsInv, Loaded
  <2>5. /\ old'[c].gen \in Nat /\ old'[c].gen <= gen'
        /\ old'[c].gen = gen' => old'[c].list = subs'
        /\ arg'[c] \in ToSet(old'[c].list)
    BY <1>0, <1>1, <2>2, <2>3
  <2> QED BY <2>4, <2>5 DEF Loaded
<1>5. /\ ~Adding(c)'
      /\ \A d \in Changers \ {c} : Adding(d)' = Adding(d) /\ Removing(d)' = Removing(d)
  BY <1>1 DEF Adding, Removing
<1>6. AddingNew'
  <2> SUFFICES ASSUME NEW d \in Changers, Adding(d)'
               PROVE  /\ arg'[d] \in 1 .. nextId'
                      /\ arg'[d] \notin (ToSet(subs) \cup sure \cup gone)'
                      /\ \A e \in Changers \ {d} : (Adding(e) \/ Removing(e))' => arg'[e] # arg'[d]
    BY DEF AddingNew
  <2>1. d # c /\ Adding(d) /\ arg'[d] = arg[d] /\ arg[d] # i BY <1>1, <1>5
  <2>2. /\ arg[d] \in 1 .. nextId /\ arg[d] \notin ToSet(subs) \cup sure \cup gone
        /\ \A e \in Changers \ {d} : Adding(e) \/ Removing(e) => arg[e] # arg[d]
    BY <2>1 DEF SubsInv, AddingNew
  <2>3. \A e \in Changers \ {c, d} : (Adding(e) \/ Removing(e))' => arg'[e] # arg'[d]
    BY <1>1, <1>5, <2>1, <2>2
  <2>4. arg'[c] # arg'[d] BY <1>1, <2>1
  <2> QED BY <1>0, <2>1, <2>2, <2>3, <2>4
<1>7. RemovingKnown'
  <2>1. UNCHANGED nextId /\ sure' \subseteq sure /\ i \notin sure' BY <1>0
  <2>2. ASSUME NEW d \in Changers \ {c}, Removing(d)' PROVE arg'[d] \in (1 .. nextId) \ sure
    <3>1. Removing(d) /\ arg'[d] = arg[d] BY <1>1, <1>5, <2>2
    <3> QED BY <3>1 DEF SubsInv, RemovingKnown
  <2> QED BY <1>1, <2>1, <2>2 DEF RemovingKnown
<1> QED BY <1>2, <1>3, <1>4, <1>6, <1>7 DEF SubsInv

LEMMA FindsNothing ==
  ASSUME SubsInv, NEW c \in Changers, NEW i \in 1 .. nextId,
         Look(c, i), i \notin ToSet(subs), sure' = sure \ {i}, UNCHANGED <<subs, gen, nextId>>,
         \A d \in Changers : Adding(d) => d # c /\ arg[d] # i
  PROVE  SubsInv'
<1>0. /\ gone' = gone \cup {i}
      /\ pc' = [pc EXCEPT ![c] = "idle"]
      /\ arg' = [arg EXCEPT ![c] = 0]
      /\ old' = [old EXCEPT ![c] = Nothing]
  BY DEF Look, FlowReturn
<1>t. /\ c \in Goroutines /\ pc \in [Goroutines -> Places]
      /\ arg = [d \in Goroutines |-> arg[d]] /\ old = [d \in Goroutines |-> old[d]]
  BY DEF SubsInv, Types, Goroutines
<1>1. /\ pc'[c] = "idle"
      /\ \A d \in Changers \ {c} : pc'[d] = pc[d] /\ arg'[d] = arg[d] /\ old'[d] = old[d]
  BY <1>0, <1>t DEF Goroutines
<1>2. Types' BY <1>0, <1>t DEF SubsInv, Types, Places
<1>3. Numbered' /\ NoLostUpdate' BY <1>0 DEF SubsInv, Numbered, NoLostUpdate
<1>4. Loaded' BY <1>0, <1>1 DEF SubsInv, Loaded
<1>5. /\ ~Adding(c)' /\ ~Removing(c)'
      /\ \A d \in Changers \ {c} : Adding(d)' = Adding(d) /\ Removing(d)' = Removing(d)
  BY <1>1 DEF Adding, Removing
<1>6. AddingNew'
  <2> SUFFICES ASSUME NEW d \in Changers, Adding(d)'
               PROVE  /\ arg'[d] \in 1 .. nextId'
                      /\ arg'[d] \notin (ToSet(subs) \cup sure \cup gone)'
                      /\ \A e \in Changers \ {d} : (Adding(e) \/ Removing(e))' => arg'[e] # arg'[d]
    BY DEF AddingNew
  <2>1. d # c /\ Adding(d) /\ arg'[d] = arg[d] /\ arg[d] # i BY <1>1, <1>5
  <2>2. /\ arg[d] \in 1 .. nextId /\ arg[d] \notin ToSet(subs) \cup sure \cup gone
        /\ \A e \in Changers \ {d} : Adding(e) \/ Removing(e) => arg[e] # arg[d]
    BY <2>1 DEF SubsInv, AddingNew
  <2>3. \A e \in Changers \ {d} : (Adding(e) \/ Removing(e))' => arg'[e] # arg'[d]
    BY <1>1, <1>5, <2>1, <2>2
  <2> QED BY <1>0, <2>1, <2>2, <2>3
<1>7. RemovingKnown' BY <1>0, <1>1, <1>5 DEF SubsInv, RemovingKnown
<1> QED BY <1>2, <1>3, <1>4, <1>6, <1>7 DEF SubsInv

(* Whom an Off may be called for; and an Off at work goes on with its own. *)
LEMMA Known ==
  ASSUME SubsInv, NEW c \in Changers, NEW i,
         \/ i \in sure \cup gone
         \/ \E e \in Changers : Removing(e) /\ i = arg[e],
         pc[c] \in {"idle", "offLoad"}
  PROVE  i \in 1 .. nextId /\ \A d \in Changers : Adding(d) => d # c /\ arg[d] # i
<1>1. \A d \in Changers : Adding(d) => d # c BY DEF Adding
<1>2. CASE i \in sure \cup gone
  BY <1>1, <1>2 DEF SubsInv, Numbered, AddingNew
<1>3. CASE \E e \in Changers : Removing(e) /\ i = arg[e]
  <2>1. PICK e \in Changers : Removing(e) /\ i = arg[e] BY <1>3
  <2>2. ~Adding(e) BY <2>1 DEF Adding, Removing
  <2> QED BY <1>1, <2>1, <2>2 DEF SubsInv, RemovingKnown, AddingNew
<1> QED BY <1>2, <1>3

LEMMA StartsOff ==
  ASSUME SubsInv, NEW c \in Changers, NEW i \in Ids, FlowOffStart(c, i)
  PROVE  SubsInv'
<1>1. /\ Look(c, i) /\ sure' = sure \ {i} /\ UNCHANGED <<subs, gen, nextId>>
      /\ pc[c] = "idle" /\ i \in sure \cup gone \cup {arg[d] : d \in Removers}
  BY DEF FlowOffStart
<1>2. \/ i \in sure \cup gone
      \/ \E e \in Changers : Removing(e) /\ i = arg[e]
  BY <1>1 DEF Removers, Removing
<1>3. i \in 1 .. nextId /\ \A d \in Changers : Adding(d) => d # c /\ arg[d] # i
  BY <1>1, <1>2, Known
<1> QED BY <1>1, <1>3, Finds, FindsNothing

LEMMA LoadsAgain ==
  ASSUME SubsInv, NEW c \in Changers, OffLoad(c)
  PROVE  SubsInv'
<1> DEFINE i == arg[c]
<1>1. Look(c, i) /\ UNCHANGED <<subs, gen, nextId, sure>> /\ pc[c] = "offLoad"
  BY DEF OffLoad
<1>2. i \in 1 .. nextId /\ \A d \in Changers : Adding(d) => d # c /\ arg[d] # i
  BY <1>1, Known DEF Removing
<1>3. sure' = sure \ {i} BY <1>1 DEF SubsInv, RemovingKnown, Removing
<1> HIDE DEF i
<1> QED BY <1>1, <1>2, <1>3, Finds, FindsNothing

(* A swap that succeeds.                                                   *)
LEMMA ListIn ==
  ASSUME SubsInv, NEW c \in Changers, OnSwap(c), gen = old[c].gen
  PROVE  /\ Adding(c) /\ arg[c] \in 1 .. nextId /\ arg[c] \in Ids
         /\ arg[c] \notin ToSet(subs) \cup sure \cup gone
         /\ \A d \in Changers \ {c} : Adding(d) \/ Removing(d) => arg[d] # arg[c]
         /\ subs' \in Seq(Ids) /\ IsInjective(subs') /\ ToSet(subs') = ToSet(subs) \cup {arg[c]}
<1>1. pc[c] = "onSwap" /\ subs' = Append(old[c].list, arg[c]) BY DEF OnSwap
<1>2. old[c].list = subs BY <1>1 DEF SubsInv, Loaded
<1>3. Adding(c) BY <1>1 DEF Adding
<1>4. nextId \in 0 .. MaxId /\ MaxId \in Nat
  BY DeliveryAssumption DEF SubsInv, Types
<1>5. arg[c] \in 1 .. nextId BY <1>3 DEF SubsInv, AddingNew
<1>6. arg[c] \in Ids BY <1>4, <1>5 DEF Ids
<1>7. /\ arg[c] \notin ToSet(subs) \cup sure \cup gone
      /\ \A d \in Changers \ {c} : Adding(d) \/ Removing(d) => arg[d] # arg[c]
  BY <1>3 DEF SubsInv, AddingNew
<1>8. /\ subs' \in Seq(Ids) /\ IsInjective(subs') /\ ToSet(subs') = ToSet(subs) \cup {arg[c]}
  BY <1>1, <1>2, <1>6, <1>7, Appended DEF SubsInv, Types
<1> QED BY <1>3, <1>5, <1>6, <1>7, <1>8

LEMMA SwapsIn ==
  ASSUME SubsInv, NEW c \in Changers, OnSwap(c), gen = old[c].gen
  PROVE  SubsInv'
<1> DEFINE i == arg[c]
<1>0. /\ UNCHANGED <<nextId, gone>> /\ pc[c] = "onSwap"
      /\ subs' = Append(old[c].list, i) /\ gen' = gen + 1 /\ gen \in Nat
      /\ sure' = sure \cup {i}
      /\ pc' = [pc EXCEPT ![c] = "idle"]
      /\ arg' = [arg EXCEPT ![c] = 0]
      /\ old' = [old EXCEPT ![c] = Nothing]
  BY DEF OnSwap, FlowReturn, SubsInv, Types
<1>t. /\ c \in Goroutines /\ pc \in [Goroutines -> Places]
      /\ arg = [d \in Goroutines |-> arg[d]] /\ old = [d \in Goroutines |-> old[d]]
  BY DEF SubsInv, Types, Goroutines
<1>1. /\ pc'[c] = "idle"
      /\ \A d \in Changers \ {c} : pc'[d] = pc[d] /\ arg'[d] = arg[d] /\ old'[d] = old[d]
  BY <1>0, <1>t DEF Goroutines
<1>3. /\ Adding(c) /\ i \in 1 .. nextId /\ i \in Ids
      /\ i \notin ToSet(subs) \cup sure \cup gone
      /\ \A d \in Changers \ {c} : Adding(d) \/ Removing(d) => arg[d] # i
  BY ListIn
<1>4. /\ subs' \in Seq(Ids) /\ IsInjective(subs') /\ ToSet(subs') = ToSet(subs) \cup {i}
  BY ListIn
<1> HIDE DEF i
<1>5. Types'
  <2>1. gen' \in Nat BY <1>0
  <2> QED BY <1>0, <1>t, <1>4, <2>1 DEF SubsInv, Types, Places
<1>6. Numbered' /\ NoLostUpdate' BY <1>0, <1>3, <1>4 DEF SubsInv, Numbered, NoLostUpdate
<1>7. Loaded'
  <2> SUFFICES ASSUME NEW d \in Changers, pc'[d] \in {"onSwap", "offRemove", "offCount", "offSwap"}
               PROVE  /\ old'[d].gen \in Nat /\ old'[d].gen <= gen' /\ old'[d].gen # gen'
                      /\ pc'[d] # "onSwap" => arg'[d] \in ToSet(old'[d].list)
    BY DEF Loaded
  <2>1. d # c BY <1>1
  <2>2. /\ old[d].gen \in Nat /\ old[d].gen <= gen
        /\ pc[d] # "onSwap" => arg[d] \in ToSet(old[d].list)
    BY <1>1, <2>1 DEF SubsInv, Loaded
  <2>3. /\ old'[d].gen = old[d].gen /\ old'[d].list = old[d].list
        /\ pc'[d] = pc[d] /\ arg'[d] = arg[d]
    BY <1>1, <2>1
  <2>4. gen \in Nat /\ gen' = gen + 1 BY <1>0
  <2> QED BY <2>2, <2>3, <2>4
<1>8. /\ ~Adding(c)' /\ ~Removing(c)'
      /\ \A d \in Changers \ {c} : Adding(d)' = Adding(d) /\ Removing(d)' = Removing(d)
  BY <1>1 DEF Adding, Removing
<1>9. AddingNew'
  <2> SUFFICES ASSUME NEW d \in Changers, Adding(d)'
               PROVE  /\ arg'[d] \in 1 .. nextId'
                      /\ arg'[d] \notin (ToSet(subs) \cup sure \cup gone)'
                      /\ \A e \in Changers \ {d} : (Adding(e) \/ Removing(e))' => arg'[e] # arg'[d]
    BY DEF AddingNew
  <2>1. d # c /\ Adding(d) /\ arg'[d] = arg[d] BY <1>1, <1>8
  <2>2. /\ arg[d] \in 1 .. nextId /\ arg[d] \notin ToSet(subs) \cup sure \cup gone
        /\ \A e \in Changers \ {d} : Adding(e) \/ Removing(e) => arg[e] # arg[d]
    BY <2>1 DEF SubsInv, AddingNew
  <2>3. arg[d] # i BY <2>1, <1>3
  <2>4. \A e \in Changers \ {d} : (Adding(e) \/ Removing(e))' => arg'[e] # arg'[d]
    BY <1>1, <1>8, <2>1, <2>2
  <2> QED BY <1>0, <1>4, <2>1, <2>2, <2>3, <2>4
<1>10. RemovingKnown'
  <2> SUFFICES ASSUME NEW d \in Changers, Removing(d)' PROVE arg'[d] \in (1 .. nextId') \ sure'
    BY DEF RemovingKnown
  <2>1. d # c /\ Removing(d) /\ arg'[d] = arg[d] BY <1>1, <1>8
  <2>2. arg[d] \in (1 .. nextId) \ sure BY <2>1 DEF SubsInv, RemovingKnown
  <2> QED BY <1>0, <1>3, <2>1, <2>2
<1> QED BY <1>5, <1>6, <1>7, <1>9, <1>10 DEF SubsInv

LEMMA ListOut ==
  ASSUME SubsInv, NEW c \in Changers, OffSwap(c), gen = old[c].gen
  PROVE  /\ Removing(c) /\ arg[c] \in (1 .. nextId) \ sure
         /\ subs' \in Seq(Ids) /\ IsInjective(subs') /\ ToSet(subs') = ToSet(subs) \ {arg[c]}
<1>1. pc[c] = "offSwap" /\ subs' = CutOut(old[c].list, arg[c]) BY DEF OffSwap
<1>2. old[c].list = subs /\ arg[c] \in ToSet(subs) BY <1>1 DEF SubsInv, Loaded
<1>3. Removing(c) /\ arg[c] \in (1 .. nextId) \ sure
  BY <1>1 DEF SubsInv, RemovingKnown, Removing
<1>4. /\ subs' \in Seq(Ids) /\ IsInjective(subs') /\ ToSet(subs') = ToSet(subs) \ {arg[c]}
  BY <1>1, <1>2, Removed DEF SubsInv, Types
<1> QED BY <1>3, <1>4

LEMMA SwapsOut ==
  ASSUME SubsInv, NEW c \in Changers, OffSwap(c), gen = old[c].gen
  PROVE  SubsInv'
<1> DEFINE i == arg[c]
<1>0. /\ UNCHANGED <<nextId, sure>> /\ pc[c] = "offSwap"
      /\ subs' = CutOut(old[c].list, i) /\ gen' = gen + 1 /\ gen \in Nat
      /\ gone' = gone \cup {i}
      /\ pc' = [pc EXCEPT ![c] = "idle"]
      /\ arg' = [arg EXCEPT ![c] = 0]
      /\ old' = [old EXCEPT ![c] = Nothing]
  BY DEF OffSwap, FlowReturn, SubsInv, Types
<1>t. /\ c \in Goroutines /\ pc \in [Goroutines -> Places]
      /\ arg = [d \in Goroutines |-> arg[d]] /\ old = [d \in Goroutines |-> old[d]]
  BY DEF SubsInv, Types, Goroutines
<1>1. /\ pc'[c] = "idle"
      /\ \A d \in Changers \ {c} : pc'[d] = pc[d] /\ arg'[d] = arg[d] /\ old'[d] = old[d]
  BY <1>0, <1>t DEF Goroutines
<1>3. Removing(c) /\ i \in (1 .. nextId) \ sure
  BY ListOut
<1>4. /\ subs' \in Seq(Ids) /\ IsInjective(subs') /\ ToSet(subs') = ToSet(subs) \ {i}
  BY ListOut
<1>5. \A d \in Changers \ {c} : Adding(d) => arg[d] # i
  BY <1>3 DEF SubsInv, AddingNew
<1> HIDE DEF i
<1>6. Types'
  <2>1. gen' \in Nat BY <1>0
  <2> QED BY <1>0, <1>t, <1>4, <2>1 DEF SubsInv, Types, Places
<1>7. Numbered' /\ NoLostUpdate' BY <1>0, <1>3, <1>4 DEF SubsInv, Numbered, NoLostUpdate
<1>8. Loaded'
  <2> SUFFICES ASSUME NEW d \in Changers, pc'[d] \in {"onSwap", "offRemove", "offCount", "offSwap"}
               PROVE  /\ old'[d].gen \in Nat /\ old'[d].gen <= gen' /\ old'[d].gen # gen'
                      /\ pc'[d] # "onSwap" => arg'[d] \in ToSet(old'[d].list)
    BY DEF Loaded
  <2>1. d # c BY <1>1
  <2>2. /\ old[d].gen \in Nat /\ old[d].gen <= gen
        /\ pc[d] # "onSwap" => arg[d] \in ToSet(old[d].list)
    BY <1>1, <2>1 DEF SubsInv, Loaded
  <2>3. /\ old'[d].gen = old[d].gen /\ old'[d].list = old[d].list
        /\ pc'[d] = pc[d] /\ arg'[d] = arg[d]
    BY <1>1, <2>1
  <2>4. gen \in Nat /\ gen' = gen + 1 BY <1>0
  <2> QED BY <2>2, <2>3, <2>4
<1>9. /\ ~Adding(c)' /\ ~Removing(c)'
      /\ \A d \in Changers \ {c} : Adding(d)' = Adding(d) /\ Removing(d)' = Removing(d)
  BY <1>1 DEF Adding, Removing
<1>10. AddingNew'
  <2> SUFFICES ASSUME NEW d \in Changers, Adding(d)'
               PROVE  /\ arg'[d] \in 1 .. nextId'
                      /\ arg'[d] \notin (ToSet(subs) \cup sure \cup gone)'
                      /\ \A e \in Changers \ {d} : (Adding(e) \/ Removing(e))' => arg'[e] # arg'[d]
    BY DEF AddingNew
  <2>1. d # c /\ Adding(d) /\ arg'[d] = arg[d] BY <1>1, <1>9
  <2>2. /\ arg[d] \in 1 .. nextId /\ arg[d] \notin ToSet(subs) \cup sure \cup gone
        /\ \A e \in Changers \ {d} : Adding(e) \/ Removing(e) => arg[e] # arg[d]
    BY <2>1 DEF SubsInv, AddingNew
  <2>3. arg[d] # i BY <2>1, <1>5
  <2>4. \A e \in Changers \ {d} : (Adding(e) \/ Removing(e))' => arg'[e] # arg'[d]
    BY <1>1, <1>9, <2>1, <2>2
  <2> QED BY <1>0, <1>4, <2>1, <2>2, <2>3, <2>4
<1>11. RemovingKnown' BY <1>0, <1>1, <1>9 DEF SubsInv, RemovingKnown
<1> QED BY <1>6, <1>7, <1>8, <1>10, <1>11 DEF SubsInv

(* The consumers and the matcher play no part.                             *)
LEMMA OthersLeave ==
  ASSUME SubsInv, UNCHANGED <<subs, gen, nextId, sure, gone>>,
         pc' \in [Goroutines -> Places],
         arg' = [c \in Goroutines |-> arg'[c]], old' = [c \in Goroutines |-> old'[c]],
         \A c \in Changers : pc'[c] = pc[c] /\ arg'[c] = arg[c] /\ old'[c] = old[c]
  PROVE  SubsInv'
<1>1. \A c \in Changers : Adding(c)' = Adding(c) /\ Removing(c)' = Removing(c)
  BY DEF Adding, Removing
<1>2. Types' BY DEF SubsInv, Types
<1>3. Numbered' /\ NoLostUpdate' BY DEF SubsInv, Numbered, NoLostUpdate
<1>4. Loaded' BY DEF SubsInv, Loaded
<1>5. AddingNew' BY <1>1 DEF SubsInv, AddingNew
<1>6. RemovingKnown' BY <1>1 DEF SubsInv, RemovingKnown
<1> QED BY <1>2, <1>3, <1>4, <1>5, <1>6 DEF SubsInv

LEMMA Stays == SubsInv /\ [FlowNext]_flowVars => SubsInv'
<1> SUFFICES ASSUME SubsInv, [FlowNext]_flowVars PROVE SubsInv'
  OBVIOUS
<1>0. /\ pc \in [Goroutines -> Places] /\ Changers \subseteq Goroutines
      /\ Consumers \subseteq Goroutines /\ Changers \cap Consumers = {}
      /\ arg = [d \in Goroutines |-> arg[d]] /\ old = [d \in Goroutines |-> old[d]]
      /\ gen \in Nat
  BY FlowSubscriptionsAssumption DEF SubsInv, Types, Goroutines
<1>1. ASSUME NEW c \in Changers, OnLoad(c) PROVE SubsInv'
  <2>1. /\ UNCHANGED <<subs, gen, nextId, arg, sure, gone>> /\ pc[c] = "onLoad"
        /\ pc' = [pc EXCEPT ![c] = "onSwap"]
        /\ old' = [old EXCEPT ![c] = [gen |-> gen, list |-> subs]]
    BY <1>1 DEF OnLoad, flowHistory
  <2>2. pc'[c] = "onSwap" /\ old'[c] = [gen |-> gen, list |-> subs] BY <1>0, <2>1
  <2>3. pc' = [pc EXCEPT ![c] = pc'[c]] /\ old' = [old EXCEPT ![c] = old'[c]]
    BY <2>1, <2>2, Zenon
  <2>4. old'[c].gen = gen /\ old'[c].list = subs BY <2>2
  <2>5. pc'[c] \in Places /\ Adding(c) /\ ~Removing(c)'
    BY <2>1, <2>2 DEF Adding, Removing, Places
  <2>6. gen \in Nat /\ gen <= gen BY <1>0
  <2> QED BY <2>1, <2>2, <2>3, <2>4, <2>5, <2>6, ListStays
<1>2. ASSUME NEW c \in Changers, OnSwap(c) PROVE SubsInv'
  <2>1. CASE gen = old[c].gen BY <1>2, <2>1, SwapsIn
  <2>2. CASE gen # old[c].gen
    <3>1. /\ UNCHANGED <<subs, gen, nextId, arg, sure, gone, old>> /\ pc[c] = "onSwap"
          /\ pc' = [pc EXCEPT ![c] = "onLoad"]
      BY <1>2, <2>2 DEF OnSwap
    <3>2. pc'[c] = "onLoad" /\ old' = [old EXCEPT ![c] = old'[c]] BY <1>0, <3>1
    <3> QED BY <1>0, <3>1, <3>2, ListStays DEF Adding, Removing, Places
  <2> QED BY <2>1, <2>2
<1>4. ASSUME NEW c \in Changers, FlowOffRemove(c) \/ FlowOffCount(c) PROVE SubsInv'
  <2>1. /\ UNCHANGED <<subs, gen, nextId, arg, sure, gone, old>>
        /\ \/ pc[c] = "offRemove" /\ pc' = [pc EXCEPT ![c] = "offCount"]
           \/ pc[c] = "offCount" /\ pc' = [pc EXCEPT ![c] = "offSwap"]
    BY <1>4 DEF FlowOffRemove, FlowOffCount, flowHistory
  <2>2. /\ pc'[c] \in {"offCount", "offSwap"} /\ pc' = [pc EXCEPT ![c] = pc'[c]]
        /\ old' = [old EXCEPT ![c] = old'[c]]
    BY <1>0, <2>1
  <2>3. /\ old[c].gen \in Nat /\ old[c].gen <= gen
        /\ old[c].gen = gen => old[c].list = subs
        /\ arg[c] \in ToSet(old[c].list)
    BY <2>1 DEF SubsInv, Loaded
  <2> QED BY <1>0, <2>1, <2>2, <2>3, ListStays DEF Adding, Removing, Places
<1>5. ASSUME NEW c \in Changers, OffSwap(c) PROVE SubsInv'
  <2>1. CASE gen = old[c].gen BY <1>5, <2>1, SwapsOut
  <2>2. CASE gen # old[c].gen
    <3>1. /\ UNCHANGED <<subs, gen, nextId, arg, sure, gone, old>> /\ pc[c] = "offSwap"
          /\ pc' = [pc EXCEPT ![c] = "offLoad"]
      BY <1>5, <2>2 DEF OffSwap
    <3>2. pc'[c] = "offLoad" /\ old' = [old EXCEPT ![c] = old'[c]] BY <1>0, <3>1
    <3> QED BY <1>0, <3>1, <3>2, ListStays DEF Adding, Removing, Places
  <2> QED BY <2>1, <2>2
<1>6. ASSUME NEW c \in Consumers, Dispatch(c) PROVE SubsInv'
  <2>1. /\ UNCHANGED <<subs, gen, nextId, sure, gone>>
        /\ \E l \in Places : pc' = [pc EXCEPT ![c] = l]
        /\ \E a : arg' = [arg EXCEPT ![c] = a]
        /\ \E o : old' = [old EXCEPT ![c] = o]
    <3>1. ASSUME NEW e \in EventTypes, DispatchLoad(c, e)
          PROVE  /\ UNCHANGED <<subs, gen, nextId, sure, gone>>
                 /\ \E l \in Places : pc' = [pc EXCEPT ![c] = l]
                 /\ \E a : arg' = [arg EXCEPT ![c] = a]
                 /\ \E o : old' = [old EXCEPT ![c] = o]
      <4>1. old' = old => old' = [old EXCEPT ![c] = old[c]] BY <1>0
      <4> QED BY <3>1, <4>1 DEF DispatchLoad, flowHistory, Places
    <3>2. CASE DispatchExact(c) \/ DispatchMerge(c)
      <4>1. arg = [arg EXCEPT ![c] = arg[c]] /\ old = [old EXCEPT ![c] = old[c]] BY <1>0
      <4> QED BY <3>2, <4>1 DEF DispatchExact, DispatchMerge, Handle, flowHistory, Places
    <3>3. CASE DispatchReturn(c)
      <4>1. old = [old EXCEPT ![c] = old[c]] BY <1>0
      <4> QED BY <3>3, <4>1 DEF DispatchReturn, flowHistory, Places
    <3> QED BY <1>6, <3>1, <3>2, <3>3 DEF Dispatch
  <2>2. \A d \in Changers : d # c BY <1>0
  <2>3. pc' \in [Goroutines -> Places] BY <1>0, <2>1
  <2>4. arg' = [d \in Goroutines |-> arg'[d]] /\ old' = [d \in Goroutines |-> old'[d]]
    BY <1>0, <2>1
  <2>5. \A d \in Changers : pc'[d] = pc[d] /\ arg'[d] = arg[d] /\ old'[d] = old[d]
    BY <1>0, <2>1, <2>2
  <2> QED BY <2>1, <2>3, <2>4, <2>5, OthersLeave
<1>7. CASE UNCHANGED flowVars
  <2>1. UNCHANGED <<subs, gen, nextId, sure, gone, pc, arg, old>> BY <1>7 DEF flowVars, flowHistory
  <2> QED BY <1>0, <2>1, OthersLeave
<1>8. ASSUME NEW c \in Changers, OnCount(c) PROVE SubsInv'
  <2>1. /\ UNCHANGED <<subs, gen, nextId, arg, sure, gone, old>> /\ pc[c] = "onCount"
        /\ pc' = [pc EXCEPT ![c] = "onLoad"]
    BY <1>8 DEF OnCount, flowHistory
  <2>2. pc'[c] = "onLoad" /\ old' = [old EXCEPT ![c] = old'[c]] BY <1>0, <2>1
  <2> QED BY <1>0, <2>1, <2>2, ListStays DEF Adding, Removing, Places
<1> QED
  BY <1>1, <1>2, <1>4, <1>5, <1>6, <1>7, <1>8, StartsOn, StartsOff, LoadsAgain
  DEF FlowNext, FlowOn, FlowOff

(* However On and Off of the flow bus race in their compare-and-swap       *)
(* loops, no change of one is lost to another (flow/bus.go 450-462,        *)
(* 470-492).                                                               *)
THEOREM NothingLost == FlowSpec => []NoLostUpdate
<1>1. SubsInv => NoLostUpdate BY DEF SubsInv
<1> QED BY <1>1, Initially, Stays, PTL DEF FlowSpec
-----------------------------------------------------------------------------
(***************************************************************************)
(* What the matcher holds, and what a dispatch is told.                    *)
(***************************************************************************)
MatcherTypes ==
  /\ pat = [i \in Ids |-> pat[i]] /\ \A i \in 1 .. nextId : pat[i] \in Patterns
  /\ ref \in [Patterns -> Nat] /\ exact \subseteq Patterns \ (Wildcards \cup TooDeep)
  /\ removed \in [Ids -> 0 .. 2]

(* Remove was called for what an Off is about to swap out, and for nothing *)
(* that is sure or on its way in; what it was not called for is there.     *)
Untouched(i) == removed[i] = 0
RemovedBefore ==
  /\ \A i \in Ids : i > nextId => Untouched(i)
  /\ \A i \in sure : Untouched(i)
  /\ \A c \in Changers : Adding(c) => Untouched(arg[c])
  /\ \A c \in Changers : pc[c] = "offSwap" => ~Untouched(arg[c])
  /\ \A i \in 1 .. nextId :
       Untouched(i) => i \in ToSet(subs) \/ \E c \in Changers : Adding(c) /\ arg[c] = i

(* The references of a pattern are those of the subscriptions left that an *)
(* On has counted, unless an Off removed more than its own; an exact entry *)
(* is of one that is left.                                                 *)
Left(p) == {i \in 1 .. nextId : pat[i] = p /\ Untouched(i)}
Counting(i) == \E c \in Changers : pc[c] = "onCount" /\ arg[c] = i
Remaining(p) == {i \in Left(p) : ~Counting(i)}
Referenced ==
  /\ \A p \in Patterns : ref[p] > 0 => \E i \in 1 .. nextId : pat[i] = p
  /\ \A p \in Patterns \ (Overremoved \cup TooDeep) : ref[p] = Cardinality(Remaining(p))
  /\ \A p \in exact : Left(p) # {}
  /\ \A c \in Changers : pc[c] = "offCount" => pat[arg[c]] \notin exact

MatcherInv == SubsInv /\ MatcherTypes /\ RemovedBefore /\ Referenced

(* A dispatch knows of all that may be there; the list that it loaded has  *)
(* no more than that, and what was sure all along.                         *)
Dispatching ==
  /\ called = [c \in Consumers |-> called[c]]
  /\ throughout = [c \in Consumers |-> throughout[c]]
  /\ sometime = [c \in Consumers |-> sometime[c]]
  /\ \A c \in Consumers :
       /\ pc[c] \in {"idle", "match", "merge", "called"}
       /\ throughout[c] \subseteq sure /\ sometime[c] \subseteq 1 .. nextId
       /\ pc[c] # "idle" => MaybeThere \subseteq sometime[c] /\ arg[c] \in EventTypes

LoadedOnce ==
  \A c \in Consumers :
    pc[c] \in {"match", "merge"} =>
      /\ old[c].list \in Seq(Ids) /\ IsInjective(old[c].list)
      /\ throughout[c] \subseteq ToSet(old[c].list) /\ ToSet(old[c].list) \subseteq sometime[c]
      /\ \E j \in sometime[c] : pat[j] \in Wildcards

DispatchInv == MatcherInv /\ Dispatching /\ LoadedOnce /\ DispatchIsSound /\ DispatchIsComplete

LEMMA RemainingFinite ==
  ASSUME SubsInv, NEW p
  PROVE  /\ IsFiniteSet(Remaining(p)) /\ Cardinality(Remaining(p)) \in Nat
         /\ Cardinality(Remaining(p)) = 0 <=> Remaining(p) = {}
<1>1. nextId \in Nat /\ Remaining(p) \in SUBSET Nat /\ \A i \in Remaining(p) : i <= nextId
  BY DEF SubsInv, Types, Remaining, Left
<1>2. IsFiniteSet(Remaining(p)) BY <1>1, FS_BoundedSetOfNaturals
<1> QED BY <1>2, FS_CardinalityType, FS_EmptySet

(***************************************************************************)
(* The matcher's part is inductive.                                        *)
(***************************************************************************)
LEMMA MatcherInitially == FlowInit => MatcherInv
<1> SUFFICES ASSUME FlowInit PROVE MatcherInv
  OBVIOUS
<1>1. /\ nextId = 0 /\ sure = {} /\ exact = {} /\ \A c \in Changers : pc[c] = "idle"
      /\ ref = [p \in Patterns |-> 0] /\ removed = [i \in Ids |-> 0]
      /\ pat = [i \in Ids |-> "none"]
  BY DEF FlowInit
<1>2. 1 .. nextId = {} BY <1>1
<1>3. MatcherTypes BY <1>1, <1>2 DEF MatcherTypes
<1>4. RemovedBefore BY <1>1, <1>2 DEF RemovedBefore, Untouched, Adding
<1>5. Referenced
  <2>1. \A p : Remaining(p) = {} BY <1>2 DEF Remaining, Left
  <2>2. \A p \in Patterns : ref[p] = 0 BY <1>1
  <2> QED BY <1>1, <2>1, <2>2, FS_EmptySet DEF Referenced
<1> QED BY <1>3, <1>4, <1>5, Initially DEF MatcherInv

(* A step that leaves the matcher alone.                                   *)
LEMMA MatcherStays ==
  ASSUME MatcherInv, SubsInv',
         UNCHANGED <<ref, exact, nextId, pat, removed>>,
         sure' \subseteq sure \cup {arg[d] : d \in {b \in Changers : Adding(b)}},
         \A d \in Changers :
           /\ Adding(d)' => Adding(d) /\ arg'[d] = arg[d]
           /\ pc'[d] \in {"offCount", "offSwap"} => pc[d] = pc'[d] /\ arg'[d] = arg[d]
           /\ pc'[d] = "onCount" \/ pc[d] = "onCount" => pc'[d] = pc[d] /\ arg'[d] = arg[d]
           /\ Adding(d) => (Adding(d)' /\ arg'[d] = arg[d]) \/ arg[d] \in ToSet(subs'),
         \A i \in ToSet(subs) : Untouched(i) => i \in ToSet(subs')
  PROVE  MatcherInv'
<1>1. MatcherTypes' BY DEF MatcherInv, MatcherTypes
<1>2. Referenced'
  <2>1. \A i : Counting(i)' <=> Counting(i) BY DEF Counting
  <2>2. \A p : Left(p)' = Left(p) BY DEF Left, Untouched
  <2>3. \A p : Remaining(p)' = Remaining(p) BY <2>1, <2>2 DEF Remaining
  <2>4. Overremoved' = Overremoved BY DEF Overremoved
  <2>5. \A c \in Changers : pc'[c] = "offCount" => pat'[arg'[c]] \notin exact'
    BY DEF MatcherInv, Referenced
  <2> QED BY <2>2, <2>3, <2>4, <2>5 DEF MatcherInv, Referenced
<1>3. \A i : Untouched(i)' = Untouched(i) BY DEF Untouched
<1>4. RemovedBefore'
  <2>1. \A i \in Ids : i > nextId' => Untouched(i)'
    BY <1>3 DEF MatcherInv, RemovedBefore
  <2>2. \A i \in sure' : Untouched(i)' BY <1>3 DEF MatcherInv, RemovedBefore
  <2>3. \A c \in Changers : Adding(c)' => Untouched(arg[c])'
    BY <1>3 DEF MatcherInv, RemovedBefore
  <2>4. \A c \in Changers : Adding(c)' => (Untouched(arg[c]))'
    <3> SUFFICES ASSUME NEW c \in Changers, Adding(c)' PROVE removed'[arg'[c]] = 0
      BY DEF Untouched
    <3> QED BY <2>3 DEF Untouched
  <2>5. \A c \in Changers : pc'[c] = "offSwap" => ~(Untouched(arg[c]))'
    <3> SUFFICES ASSUME NEW c \in Changers, pc'[c] = "offSwap" PROVE removed'[arg'[c]] # 0
      BY DEF Untouched
    <3>1. ~Untouched(arg[c]) /\ arg'[c] = arg[c] BY DEF MatcherInv, RemovedBefore
    <3> QED BY <3>1 DEF Untouched
  <2>6. \A i \in 1 .. nextId' :
          Untouched(i)' => i \in ToSet(subs') \/ \E c \in Changers : Adding(c)' /\ arg'[c] = i
    <3> SUFFICES ASSUME NEW i \in 1 .. nextId, Untouched(i), i \notin ToSet(subs')
                 PROVE  \E c \in Changers : Adding(c)' /\ arg'[c] = i
      BY <1>3
    <3>1. i \notin ToSet(subs) OBVIOUS
    <3>2. PICK c \in Changers : Adding(c) /\ arg[c] = i BY <3>1 DEF MatcherInv, RemovedBefore
    <3> QED BY <3>2
  <2> QED BY <2>1, <2>2, <2>4, <2>5, <2>6 DEF RemovedBefore
<1> QED BY <1>1, <1>2, <1>4 DEF MatcherInv

LEMMA MatcherAdds ==
  ASSUME MatcherInv, NEW c \in Changers, NEW p \in Patterns, FlowOnAdd(c, p)
  PROVE  MatcherInv'
<1>s. SubsInv' BY StartsOn DEF MatcherInv
<1>0. /\ UNCHANGED <<subs, ref, sure, removed>> /\ pc[c] = "idle" /\ TrieIsFree
      /\ nextId < MaxId /\ nextId' = nextId + 1 /\ nextId \in Nat /\ MaxId \in Nat
      /\ arg' = [arg EXCEPT ![c] = nextId + 1]
      /\ pc' = [pc EXCEPT ![c] = "onCount"]
      /\ pat' = [pat EXCEPT ![nextId + 1] = p]
      /\ exact' = exact \cup ({p} \ (Wildcards \cup TooDeep))
      /\ c \in Goroutines /\ pc \in [Goroutines -> Places] /\ arg = [d \in Goroutines |-> arg[d]]
      /\ pat = [i \in Ids |-> pat[i]] /\ ref \in [Patterns -> Nat] /\ removed \in [Ids -> 0 .. 2]
  BY DeliveryAssumption
  DEF FlowOnAdd, flowHistory, MatcherInv, MatcherTypes, SubsInv, Types, Goroutines
<1> DEFINE new == nextId + 1
<1>1. /\ pc'[c] = "onCount" /\ arg'[c] = new
      /\ \A d \in Changers \ {c} : pc'[d] = pc[d] /\ arg'[d] = arg[d]
  BY <1>0 DEF Goroutines
<1>2. /\ new \in Ids /\ new \in 1 .. nextId' /\ new \notin 1 .. nextId /\ pat'[new] = p
      /\ \A i \in 1 .. nextId : i \in Ids /\ pat'[i] = pat[i] /\ i \in 1 .. nextId'
      /\ 1 .. nextId' = (1 .. nextId) \cup {new}
  <2>1. new \in Ids /\ \A i \in 1 .. nextId : i \in Ids /\ i # new BY <1>0 DEF Ids
  <2>2. 1 .. nextId' = (1 .. nextId) \cup {new} BY <1>0
  <2> HIDE DEF new
  <2>3. pat' = [pat EXCEPT ![new] = p] BY <1>0 DEF new
  <2> QED BY <1>0, <2>1, <2>2, <2>3
<1>4. \A i : Untouched(i)' = Untouched(i) BY <1>0 DEF Untouched
<1>5. Untouched(new) BY <1>0, <1>2 DEF MatcherInv, RemovedBefore
<1> HIDE DEF new
<1>6. MatcherTypes'
  <2>2. pat' = [i \in Ids |-> pat'[i]] BY <1>0, <1>2
  <2>3. \A i \in 1 .. nextId' : pat'[i] \in Patterns BY <1>2 DEF MatcherInv, MatcherTypes
  <2> QED BY <1>0, <2>2, <2>3 DEF MatcherInv, MatcherTypes
<1>7. RemovedBefore'
  <2>1. \A i \in Ids : i > nextId' => Untouched(i)'
    <3>1. \A i \in Ids : i > nextId' => i > nextId BY <1>0 DEF Ids
    <3> QED BY <1>4, <3>1 DEF MatcherInv, RemovedBefore
  <2>2. \A i \in sure' : Untouched(i)' BY <1>0, <1>4 DEF MatcherInv, RemovedBefore
  <2>3. ASSUME NEW d \in Changers, Adding(d)' PROVE removed'[arg'[d]] = 0
    <3>1. CASE d = c BY <1>0, <1>1, <1>5, <3>1 DEF Untouched
    <3>2. CASE d # c
      <4>1. Adding(d) /\ arg'[d] = arg[d] BY <1>1, <2>3, <3>2 DEF Adding
      <4>2. Untouched(arg[d]) BY <4>1 DEF MatcherInv, RemovedBefore
      <4> QED BY <1>0, <4>1, <4>2 DEF Untouched
    <3> QED BY <3>1, <3>2
  <2>4. ASSUME NEW d \in Changers, pc'[d] = "offSwap" PROVE removed'[arg'[d]] # 0
    <3>1. d # c /\ pc[d] = "offSwap" /\ arg'[d] = arg[d] BY <1>1, <2>4
    <3>2. ~Untouched(arg[d]) BY <3>1 DEF MatcherInv, RemovedBefore
    <3> QED BY <1>0, <3>1, <3>2 DEF Untouched
  <2>5. ASSUME NEW i \in 1 .. nextId', Untouched(i)'
        PROVE  i \in ToSet(subs') \/ \E d \in Changers : Adding(d)' /\ arg'[d] = i
    <3>1. CASE i = new BY <1>1, <3>1 DEF Adding
    <3>2. CASE i # new
      <4>1. i \in 1 .. nextId /\ Untouched(i) BY <1>2, <1>4, <2>5, <3>2
      <4>2. i \in ToSet(subs) \/ \E d \in Changers : Adding(d) /\ arg[d] = i
        BY <4>1 DEF MatcherInv, RemovedBefore
      <4>3. \A d \in Changers : Adding(d) => Adding(d)' /\ arg'[d] = arg[d]
        BY <1>0, <1>1 DEF Adding
      <4> QED BY <1>0, <4>2, <4>3
    <3> QED BY <3>1, <3>2
  <2> QED BY <2>1, <2>2, <2>3, <2>4, <2>5 DEF RemovedBefore, Untouched
<1>8. /\ \A q : Left(q)' = IF q = p THEN Left(q) \cup {new} ELSE Left(q)
      /\ \A q : Remaining(q)' = Remaining(q)
  <2>1. \A q : Left(q)' = IF q = p THEN Left(q) \cup {new} ELSE Left(q)
    BY <1>2, <1>4, <1>5 DEF Left
  <2>2. \A i \in 1 .. nextId : Counting(i)' <=> Counting(i)
    BY <1>0, <1>1, <1>2 DEF Counting
  <2>3. \A i : i = new => Counting(i)' BY <1>1 DEF Counting
  <2>4. ASSUME NEW q PROVE Remaining(q)' = Remaining(q)
    <3>1. \A i : i \in Left(q)' <=> i \in Left(q) \/ (i = new /\ q = p) BY <2>1
    <3>2. \A i \in Left(q) : i \in 1 .. nextId BY DEF Left
    <3>a. \A i : i \in Remaining(q)' <=> i \in Left(q)' /\ ~Counting(i)' BY DEF Remaining
    <3>b. \A i : i \in Remaining(q) <=> i \in Left(q) /\ ~Counting(i) BY DEF Remaining
    <3>3. \A i : i \in Remaining(q)' <=> i \in Remaining(q)
      BY <2>2, <2>3, <3>1, <3>2, <3>a, <3>b
    <3> QED BY <3>3 DEF Remaining
  <2> QED BY <2>1, <2>4
<1>10. Referenced'
  <2>1. ASSUME NEW q \in Patterns, ref'[q] > 0 PROVE \E i \in 1 .. nextId' : pat'[i] = q
    BY <1>0, <1>2, <2>1 DEF MatcherInv, Referenced
  <2>2. ASSUME NEW q \in Patterns, q \notin Overremoved', q \notin TooDeep
        PROVE  ref'[q] = Cardinality(Remaining(q)')
    <3>1. q \notin Overremoved
      <4> SUFFICES ASSUME q \in Overremoved PROVE q \in Overremoved'
        BY <2>2
      <4>0. PICK j \in Ids : removed[j] > 1 /\ pat[j] = q BY DEF Overremoved
      <4>1. j # new BY <1>5, <4>0 DEF Untouched
      <4>2. pat'[j] = q BY <1>0, <4>0, <4>1 DEF new
      <4> QED BY <1>0, <4>0, <4>2 DEF Overremoved
    <3> QED BY <1>0, <1>8, <2>2, <3>1 DEF MatcherInv, Referenced
  <2>3. ASSUME NEW q \in exact' PROVE Left(q)' # {}
    <3>1. CASE q = p BY <1>8, <3>1
    <3>2. CASE q # p
      <4>1. q \in exact BY <1>0, <2>3, <3>2
      <4>2. Left(q) # {} BY <4>1 DEF MatcherInv, Referenced
      <4> QED BY <1>8, <3>2, <4>2
    <3> QED BY <3>1, <3>2
  <2>4. \A d \in Changers : pc'[d] # "offCount" BY <1>0, <1>1 DEF TrieIsFree
  <2> QED BY <2>1, <2>2, <2>3, <2>4 DEF Referenced
<1> QED BY <1>s, <1>6, <1>7, <1>10 DEF MatcherInv

(* An On has counted its subscription.                                     *)
LEMMA MatcherCounts ==
  ASSUME MatcherInv, SubsInv', NEW c \in Changers, OnCount(c)
  PROVE  MatcherInv'
<1> DEFINE i == arg[c]
           p == pat[i]
<1>0. /\ UNCHANGED <<subs, exact, sure, nextId, arg, pat, removed>> /\ pc[c] = "onCount"
      /\ ref' = [ref EXCEPT ![p] = IF p \in TooDeep THEN @ ELSE @ + 1]
      /\ pc' = [pc EXCEPT ![c] = "onLoad"]
      /\ c \in Goroutines /\ pc \in [Goroutines -> Places] /\ ref \in [Patterns -> Nat]
  BY DEF OnCount, flowHistory, MatcherInv, MatcherTypes, SubsInv, Types, Goroutines
<1>1. pc'[c] = "onLoad" /\ \A d \in Changers \ {c} : pc'[d] = pc[d]
  BY <1>0 DEF Goroutines
<1>2. /\ i \in 1 .. nextId /\ p \in Patterns /\ Untouched(i)
      /\ \A d \in Changers \ {c} : Adding(d) => arg[d] # i
  <2>1. Adding(c) BY <1>0 DEF Adding
  <2> QED BY <2>1 DEF MatcherInv, SubsInv, AddingNew, RemovedBefore, MatcherTypes
<1>k. p = pat[i] /\ i = arg[c] OBVIOUS
<1> HIDE DEF i, p
<1>3. /\ ref' \in [Patterns -> Nat]
      /\ \A q \in Patterns \ TooDeep : ref'[q] = IF q = p THEN ref[q] + 1 ELSE ref[q]
      /\ \A q \in Patterns : q # p => ref'[q] = ref[q]
  BY <1>0, <1>2
<1>4. \A j : Untouched(j)' = Untouched(j) BY <1>0 DEF Untouched
<1>5. /\ \A d \in Changers : (Adding(d)' <=> Adding(d)) /\ (pc'[d] = "offSwap" <=> pc[d] = "offSwap")
      /\ \A d \in Changers : pc'[d] = "offCount" <=> pc[d] = "offCount"
  BY <1>0, <1>1 DEF Adding
<1>6. MatcherTypes' BY <1>0, <1>3 DEF MatcherInv, MatcherTypes
<1>7. RemovedBefore' BY <1>0, <1>5 DEF MatcherInv, RemovedBefore, Untouched
<1>8. /\ \A q : Left(q)' = Left(q)
      /\ \A q : q # p => Remaining(q)' = Remaining(q)
      /\ \A q : q = p => Remaining(q)' = Remaining(q) \cup {i}
      /\ i \notin Remaining(p)
  <2>1. \A q : Left(q)' = Left(q) BY <1>0, <1>4 DEF Left
  <2>2. \A j : j = i => Counting(j) /\ ~Counting(j)'
    BY <1>0, <1>1, <1>2, <1>k DEF Counting, Adding
  <2>3. \A j : j # i => (Counting(j)' <=> Counting(j)) BY <1>0, <1>1, <1>k DEF Counting
  <2>4. i \in Left(p) /\ \A q : q # p => i \notin Left(q) BY <1>2, <1>k DEF Left
  <2>5. ASSUME NEW q, q # p PROVE Remaining(q)' = Remaining(q)
    BY <2>1, <2>3, <2>4, <2>5 DEF Remaining
  <2>6. ASSUME NEW q, q = p PROVE Remaining(q)' = Remaining(q) \cup {i}
    <3>1. \A j : j \in Remaining(q)' <=> j \in Left(q) /\ ~Counting(j)' BY <2>1 DEF Remaining
    <3>2. \A j : j \in Remaining(q) <=> j \in Left(q) /\ ~Counting(j) BY DEF Remaining
    <3>3. i \in Left(q) BY <2>4, <2>6
    <3>4. \A j : j \in Remaining(q)' <=> j \in Remaining(q) \cup {i}
      BY <2>2, <2>3, <3>1, <3>2, <3>3
    <3> QED BY <3>4 DEF Remaining
  <2>7. i \notin Remaining(p) BY <2>2 DEF Remaining
  <2> QED BY <2>1, <2>5, <2>6, <2>7
<1>9. Referenced'
  <2>1. ASSUME NEW q \in Patterns, ref'[q] > 0 PROVE \E j \in 1 .. nextId' : pat'[j] = q
    <3>1. CASE q = p BY <1>0, <1>2, <1>k, <3>1
    <3>2. CASE q # p BY <1>0, <1>3, <2>1, <3>2 DEF MatcherInv, Referenced
    <3> QED BY <3>1, <3>2
  <2>2. ASSUME NEW q \in Patterns, q \notin Overremoved', q \notin TooDeep
        PROVE  ref'[q] = Cardinality(Remaining(q)')
    <3>1. q \notin Overremoved BY <1>0, <2>2 DEF Overremoved
    <3>2. ref[q] = Cardinality(Remaining(q)) BY <2>2, <3>1 DEF MatcherInv, Referenced
    <3>3. CASE q = p
      <4>1. IsFiniteSet(Remaining(p)) BY RemainingFinite DEF MatcherInv
      <4>2. Cardinality(Remaining(p) \cup {i}) = Cardinality(Remaining(p)) + 1
        BY <1>8, <4>1, FS_AddElement
      <4> QED BY <1>3, <1>8, <2>2, <3>2, <3>3, <4>2
    <3>4. CASE q # p BY <1>3, <1>8, <3>2, <3>4
    <3> QED BY <3>3, <3>4
  <2>3. \A q \in exact' : Left(q)' # {} BY <1>0, <1>8 DEF MatcherInv, Referenced
  <2>4. \A d \in Changers : pc'[d] = "offCount" => pat'[arg'[d]] \notin exact'
    BY <1>0, <1>5 DEF MatcherInv, Referenced
  <2> QED BY <2>1, <2>2, <2>3, <2>4 DEF Referenced
<1> QED BY <1>6, <1>7, <1>9 DEF MatcherInv

(* An Off has deleted the exact entry, and has still to count.             *)
LEMMA MatcherDeletes ==
  ASSUME MatcherInv, SubsInv', NEW c \in Changers, FlowOffRemove(c)
  PROVE  MatcherInv'
<1>0. /\ UNCHANGED <<subs, ref, sure, nextId, arg, pat, removed>> /\ pc[c] = "offRemove"
      /\ exact' = exact \ {pat[arg[c]]}
      /\ pc' = [pc EXCEPT ![c] = "offCount"]
      /\ c \in Goroutines /\ pc \in [Goroutines -> Places]
  BY DEF FlowOffRemove, flowHistory, MatcherInv, SubsInv, Types, Goroutines
<1>1. pc'[c] = "offCount" /\ \A d \in Changers \ {c} : pc'[d] = pc[d]
  BY <1>0 DEF Goroutines
<1>2. MatcherTypes' BY <1>0 DEF MatcherInv, MatcherTypes
<1>3. \A d \in Changers : /\ Adding(d)' <=> Adding(d)
                          /\ pc'[d] = "offSwap" <=> pc[d] = "offSwap"
                          /\ pc'[d] = "onCount" <=> pc[d] = "onCount"
  BY <1>0, <1>1 DEF Adding
<1>4. RemovedBefore' BY <1>0, <1>3 DEF MatcherInv, RemovedBefore, Untouched
<1>5. Referenced'
  <2>1. \A i : Counting(i)' <=> Counting(i) BY <1>0, <1>3 DEF Counting
  <2>2. \A p : Left(p)' = Left(p) BY <1>0 DEF Left, Untouched
  <2>3. \A p : Remaining(p)' = Remaining(p) BY <2>1, <2>2 DEF Remaining
  <2>4. Overremoved' = Overremoved BY <1>0 DEF Overremoved
  <2>5. \A d \in Changers : pc'[d] = "offCount" => pat'[arg'[d]] \notin exact'
    BY <1>0, <1>1 DEF MatcherInv, Referenced
  <2> QED BY <1>0, <2>2, <2>3, <2>4, <2>5 DEF MatcherInv, Referenced
<1> QED BY <1>2, <1>4, <1>5 DEF MatcherInv

LEMMA MatcherRemoves ==
  ASSUME MatcherInv, SubsInv', NEW c \in Changers, FlowOffCount(c)
  PROVE  MatcherInv'
<1> DEFINE i == arg[c]
           p == pat[i]
<1>0. /\ UNCHANGED <<subs, exact, sure, nextId, arg, pat>> /\ pc[c] = "offCount"
      /\ ref' = [ref EXCEPT ![p] = IF @ > 0 THEN @ - 1 ELSE 0]
      /\ pc' = [pc EXCEPT ![c] = "offSwap"]
      /\ removed' = [removed EXCEPT ![i] = IF @ < 2 THEN @ + 1 ELSE 2]
      /\ c \in Goroutines /\ pc \in [Goroutines -> Places]
      /\ ref \in [Patterns -> Nat] /\ removed \in [Ids -> 0 .. 2]
      /\ nextId \in 0 .. MaxId /\ MaxId \in Nat
  BY DeliveryAssumption
  DEF FlowOffCount, CountRemove, MatcherInv, MatcherTypes, SubsInv, Types, Goroutines
<1>1. pc'[c] = "offSwap" /\ \A d \in Changers \ {c} : pc'[d] = pc[d]
  BY <1>0 DEF Goroutines
<1>2. /\ i \in (1 .. nextId) \ sure /\ i \in Ids /\ p \in Patterns
      /\ \A d \in Changers : Adding(d) => arg[d] # i
  <2>1. Removing(c) BY <1>0 DEF Removing
  <2>2. i \in (1 .. nextId) \ sure BY <2>1 DEF MatcherInv, SubsInv, RemovingKnown
  <2>3. i \in Ids BY <1>0, <2>2 DEF Ids
  <2>4. p \in Patterns BY <2>2 DEF MatcherInv, MatcherTypes
  <2>5. \A d \in Changers : Adding(d) => arg[d] # i
    BY <1>0, <2>1 DEF MatcherInv, SubsInv, AddingNew, Adding
  <2> QED BY <2>2, <2>3, <2>4, <2>5
<1>3. /\ removed[i] \in 0 .. 2 /\ removed'[i] = IF removed[i] < 2 THEN removed[i] + 1 ELSE 2
      /\ \A j \in Ids : j # i => removed'[j] = removed[j]
  BY <1>0, <1>2
<1>4. /\ ref[p] \in Nat /\ ref'[p] = IF ref[p] > 0 THEN ref[p] - 1 ELSE 0
      /\ \A q \in Patterns : q # p => ref'[q] = ref[q]
  BY <1>0, <1>2
<1>5. p = pat[i] /\ i = arg[c] OBVIOUS
<1> HIDE DEF i, p
<1>6. removed'[i] # 0 BY <1>3
<1>7. \A j \in Ids : j # i => Untouched(j)' = Untouched(j) BY <1>3 DEF Untouched
<1>8. MatcherTypes'
  <2>1. ref' = [q \in Patterns |-> ref'[q]] /\ removed' = [j \in Ids |-> removed'[j]] BY <1>0
  <2>2. \A q \in Patterns : ref'[q] \in Nat BY <1>0, <1>4
  <2>3. \A j \in Ids : removed'[j] \in 0 .. 2 BY <1>0, <1>3
  <2> QED BY <1>0, <2>1, <2>2, <2>3 DEF MatcherInv, MatcherTypes
<1>a. \A d \in Changers : Adding(d)' = Adding(d) BY <1>0, <1>1 DEF Adding
<1>b. \A j \in 1 .. nextId : j \in Ids BY <1>0 DEF Ids
<1>9. RemovedBefore'
  <2>1. ASSUME NEW j \in Ids, j > nextId' PROVE Untouched(j)'
    <3>1. j # i BY <1>0, <1>2, <2>1
    <3> QED BY <1>0, <1>7, <2>1, <3>1 DEF MatcherInv, RemovedBefore
  <2>2. ASSUME NEW j \in sure' PROVE Untouched(j)'
    <3>1. j \in sure /\ j # i BY <1>0, <1>2, <2>2
    <3>2. j \in Ids BY <1>b, <3>1 DEF MatcherInv, SubsInv, Numbered
    <3> QED BY <1>7, <3>1, <3>2 DEF MatcherInv, RemovedBefore
  <2>3. ASSUME NEW d \in Changers, Adding(d)' PROVE removed'[arg'[d]] = 0
    <3>1. Adding(d) /\ arg[d] # i /\ arg'[d] = arg[d] BY <1>0, <1>2, <1>a, <2>3
    <3>2. arg[d] \in Ids BY <1>b, <3>1 DEF MatcherInv, SubsInv, AddingNew
    <3>3. Untouched(arg[d]) BY <3>1 DEF MatcherInv, RemovedBefore
    <3> QED BY <1>3, <3>1, <3>2, <3>3 DEF Untouched
  <2>4. ASSUME NEW d \in Changers, pc'[d] = "offSwap" PROVE removed'[arg'[d]] # 0
    <3>1. CASE arg[d] = i BY <1>0, <1>6, <3>1
    <3>2. CASE arg[d] # i
      <4>1. d # c /\ pc[d] = "offSwap" BY <1>1, <1>5, <2>4, <3>2
      <4>2. Removing(d) BY <4>1 DEF Removing
      <4>3. arg[d] \in Ids BY <1>b, <4>2 DEF MatcherInv, SubsInv, RemovingKnown
      <4>4. ~Untouched(arg[d]) BY <4>1 DEF MatcherInv, RemovedBefore
      <4> QED BY <1>0, <1>3, <3>2, <4>3, <4>4 DEF Untouched
    <3> QED BY <3>1, <3>2
  <2>5. ASSUME NEW j \in 1 .. nextId', Untouched(j)'
        PROVE  j \in ToSet(subs') \/ \E d \in Changers : Adding(d)' /\ arg'[d] = j
    <3>1. j # i /\ j \in 1 .. nextId BY <1>0, <1>6, <2>5 DEF Untouched
    <3>2. Untouched(j) BY <1>7, <1>b, <2>5, <3>1
    <3>3. j \in ToSet(subs) \/ \E d \in Changers : Adding(d) /\ arg[d] = j
      BY <3>1, <3>2 DEF MatcherInv, RemovedBefore
    <3> QED BY <1>0, <1>a, <3>3
  <2> QED BY <2>1, <2>2, <2>3, <2>4, <2>5 DEF RemovedBefore, Untouched
<1>l. \A q \in Patterns : Left(q)' = Left(q) \ {i}
  BY <1>0, <1>6, <1>7, <1>b DEF Left, Untouched
<1>d. /\ \A d \in Changers : pc'[d] = "onCount" <=> pc[d] = "onCount"
      /\ \A d \in Changers : pc'[d] = "offCount" => pc[d] = "offCount"
  BY <1>0, <1>1
<1>e. ~Counting(i) /\ \A j : Counting(j)' <=> Counting(j)
  BY <1>0, <1>2, <1>d DEF Counting, Adding
<1>10. \A q \in Patterns : Remaining(q)' = Remaining(q) \ {i}
  BY <1>l, <1>e DEF Remaining
<1>11. \A q \in Patterns : q # p => i \notin Left(q) /\ i \notin Remaining(q)
  BY <1>5 DEF Remaining, Left
<1>12. Referenced'
  <2>1. ASSUME NEW q \in Patterns, ref'[q] > 0 PROVE \E j \in 1 .. nextId' : pat'[j] = q
    <3>1. ref[q] > 0 BY <1>4, <2>1
    <3> QED BY <1>0, <3>1 DEF MatcherInv, Referenced
  <2>2. ASSUME NEW q \in Patterns, q \notin Overremoved', q \notin TooDeep
        PROVE  ref'[q] = Cardinality(Remaining(q)')
    <3>1. q \notin Overremoved
      <4> SUFFICES ASSUME q \in Overremoved PROVE q \in Overremoved'
        BY <2>2
      <4>1. PICK j \in Ids : removed[j] > 1 /\ pat[j] = q BY DEF Overremoved
      <4>2. removed'[j] > 1 BY <1>3, <4>1
      <4> QED BY <1>0, <4>1, <4>2 DEF Overremoved
    <3>2. ref[q] = Cardinality(Remaining(q)) BY <2>2, <3>1 DEF MatcherInv, Referenced
    <3>3. CASE q = p
      <4>1. removed'[i] \in 0 .. 1 BY <1>0, <1>2, <1>3, <1>5, <2>2, <3>3 DEF Overremoved
      <4>2. i \in Remaining(p) BY <1>2, <1>3, <1>5, <1>e, <4>1 DEF Remaining, Left, Untouched
      <4>3. IsFiniteSet(Remaining(p)) BY RemainingFinite DEF MatcherInv
      <4>4. Cardinality(Remaining(p) \ {i}) = Cardinality(Remaining(p)) - 1
        BY <4>2, <4>3, FS_RemoveElement
      <4>5. ref[p] > 0
        <5>1. /\ Cardinality(Remaining(p)) \in Nat
              /\ Cardinality(Remaining(p)) = 0 <=> Remaining(p) = {}
          BY RemainingFinite DEF MatcherInv
        <5> QED BY <1>4, <3>2, <3>3, <4>2, <5>1
      <4> QED BY <1>4, <1>10, <3>2, <3>3, <4>4, <4>5
    <3>4. CASE q # p
      <4>1. Remaining(q)' = Remaining(q) BY <1>10, <1>11, <3>4
      <4> QED BY <1>4, <3>2, <3>4, <4>1
    <3> QED BY <3>3, <3>4
  <2>3. ASSUME NEW q \in exact' PROVE Left(q)' # {}
    <3>1. q \in exact /\ q # p /\ q \in Patterns
      BY <1>0, <1>5, <2>3 DEF MatcherInv, MatcherTypes, Referenced
    <3>2. Left(q) # {} BY <3>1 DEF MatcherInv, Referenced
    <3> QED BY <1>l, <1>11, <3>1, <3>2
  <2>4. \A d \in Changers : pc'[d] = "offCount" => pat'[arg'[d]] \notin exact'
    BY <1>0, <1>d DEF MatcherInv, Referenced
  <2> QED BY <2>1, <2>2, <2>3, <2>4 DEF Referenced
<1> QED BY <1>8, <1>9, <1>12 DEF MatcherInv

(* The step of a dispatch, seen from the changers.                         *)
LEMMA DispatchLeaves ==
  ASSUME SubsInv, NEW c \in Consumers, Dispatch(c)
  PROVE  /\ UNCHANGED <<subs, gen, ref, exact, nextId, pat, sure, gone, removed>>
         /\ \A d \in Changers : pc'[d] = pc[d] /\ arg'[d] = arg[d] /\ old'[d] = old[d]
<1>0. \A d \in Changers : d # c BY FlowSubscriptionsAssumption
<1>1. /\ pc = [d \in Goroutines |-> pc[d]] /\ Changers \subseteq Goroutines
      /\ arg = [d \in Goroutines |-> arg[d]] /\ old = [d \in Goroutines |-> old[d]]
  BY DEF SubsInv, Types, Goroutines
<1>2. /\ UNCHANGED <<subs, gen, ref, exact, nextId, pat, sure, gone, removed>>
      /\ \E x : pc' = [pc EXCEPT ![c] = x]
      /\ arg' = arg \/ \E x : arg' = [arg EXCEPT ![c] = x]
      /\ old' = old \/ \E x : old' = [old EXCEPT ![c] = x]
  <2>1. /\ UNCHANGED <<subs, gen, matcherVars, nextId, pat, flowHistory>>
        /\ \E x : pc' = [pc EXCEPT ![c] = x]
        /\ arg' = arg \/ \E x : arg' = [arg EXCEPT ![c] = x]
        /\ old' = old \/ \E x : old' = [old EXCEPT ![c] = x]
    BY DEF Dispatch, DispatchLoad, DispatchExact, DispatchMerge, Handle, DispatchReturn
  <2> QED BY <2>1 DEF matcherVars, flowHistory
<1> QED BY <1>0, <1>1, <1>2

LEMMA MatcherStep == MatcherInv /\ [FlowNext]_flowVars => MatcherInv'
<1> SUFFICES ASSUME MatcherInv, [FlowNext]_flowVars PROVE MatcherInv'
  OBVIOUS
<1>s. SubsInv /\ SubsInv' BY Stays DEF MatcherInv
<1>0. /\ pc \in [Goroutines -> Places] /\ Changers \subseteq Goroutines
      /\ arg = [d \in Goroutines |-> arg[d]]
  BY <1>s DEF SubsInv, Types, Goroutines
<1>1. ASSUME NEW c \in Changers, OnLoad(c) PROVE MatcherInv'
  <2>1. /\ UNCHANGED <<subs, ref, exact, nextId, pat, removed, sure, arg>> /\ pc[c] = "onLoad"
        /\ pc' = [pc EXCEPT ![c] = "onSwap"]
    BY <1>1 DEF OnLoad, matcherVars, flowHistory
  <2>2. pc'[c] = "onSwap" /\ \A d \in Changers \ {c} : pc'[d] = pc[d] BY <1>0, <2>1
  <2> QED BY <1>s, <2>1, <2>2, MatcherStays DEF Adding
<1>2. ASSUME NEW c \in Changers, OnSwap(c) PROVE MatcherInv'
  <2>0. UNCHANGED <<ref, exact, nextId, pat, removed>> /\ pc[c] = "onSwap"
    BY <1>2 DEF OnSwap, matcherVars
  <2>1. CASE gen = old[c].gen
    <3>1. /\ sure' = sure \cup {arg[c]}
          /\ pc' = [pc EXCEPT ![c] = "idle"] /\ arg' = [arg EXCEPT ![c] = 0]
      BY <1>2, <2>1 DEF OnSwap, FlowReturn
    <3>2. pc'[c] = "idle" /\ \A d \in Changers \ {c} : pc'[d] = pc[d] /\ arg'[d] = arg[d]
      BY <1>0, <3>1
    <3>3. Adding(c) /\ ToSet(subs') = ToSet(subs) \cup {arg[c]} BY <1>2, <1>s, <2>1, ListIn
    <3>4. sure' \subseteq sure \cup {arg[d] : d \in {b \in Changers : Adding(b)}}
      BY <3>1, <3>3
    <3>5. ASSUME NEW d \in Changers
          PROVE  /\ Adding(d)' => Adding(d) /\ arg'[d] = arg[d]
                 /\ pc'[d] \in {"offCount", "offSwap"} => pc[d] = pc'[d] /\ arg'[d] = arg[d]
                 /\ pc'[d] = "onCount" \/ pc[d] = "onCount" => pc'[d] = pc[d] /\ arg'[d] = arg[d]
                 /\ Adding(d) => (Adding(d)' /\ arg'[d] = arg[d]) \/ arg[d] \in ToSet(subs')
      <4>1. CASE d = c BY <2>0, <3>2, <3>3, <4>1 DEF Adding
      <4>2. CASE d # c BY <3>2, <4>2 DEF Adding
      <4> QED BY <4>1, <4>2
    <3> QED BY <1>s, <2>0, <3>3, <3>4, <3>5, MatcherStays
  <2>2. CASE gen # old[c].gen
    <3>1. UNCHANGED <<subs, sure, arg>> /\ pc' = [pc EXCEPT ![c] = "onLoad"]
      BY <1>2, <2>2 DEF OnSwap
    <3>2. pc'[c] = "onLoad" /\ \A d \in Changers \ {c} : pc'[d] = pc[d] BY <1>0, <3>1
    <3> QED BY <1>s, <2>0, <3>1, <3>2, MatcherStays DEF Adding
  <2> QED BY <2>1, <2>2
<1>3. ASSUME NEW c \in Changers, NEW i, Look(c, i), sure' \subseteq sure,
             pc[c] \in {"idle", "offLoad"}, UNCHANGED <<subs, ref, exact, nextId, pat, removed>>
      PROVE  MatcherInv'
  <2>1. /\ \E x : arg' = [arg EXCEPT ![c] = x]
        /\ \E l \in {"offRemove", "idle"} : pc' = [pc EXCEPT ![c] = l]
    BY <1>3 DEF Look, FlowReturn
  <2>2. /\ pc'[c] \in {"offRemove", "idle"}
        /\ \A d \in Changers \ {c} : pc'[d] = pc[d] /\ arg'[d] = arg[d]
    BY <1>0, <2>1
  <2>3. ~Adding(c) /\ ~Adding(c)' BY <1>3, <2>2 DEF Adding
  <2>4. \A d \in Changers \ {c} : Adding(d)' = Adding(d) BY <2>2 DEF Adding
  <2> QED BY <1>s, <1>3, <2>2, <2>3, <2>4, MatcherStays
<1>4. ASSUME NEW c \in Changers, OffLoad(c) \/ \E i \in Ids : FlowOffStart(c, i)
      PROVE  MatcherInv'
  <2>1. \E i : Look(c, i) /\ sure' \subseteq sure
    BY <1>4 DEF OffLoad, FlowOffStart
  <2>2. pc[c] \in {"idle", "offLoad"} /\ UNCHANGED <<subs, ref, exact, nextId, pat, removed>>
    BY <1>4 DEF OffLoad, FlowOffStart, matcherVars
  <2> QED BY <1>3, <2>1, <2>2
<1>5. ASSUME NEW c \in Changers, OffSwap(c) PROVE MatcherInv'
  <2>0. UNCHANGED <<ref, exact, nextId, pat, removed, sure>> /\ pc[c] = "offSwap"
    BY <1>5 DEF OffSwap, matcherVars
  <2>1. CASE gen = old[c].gen
    <3>1. pc' = [pc EXCEPT ![c] = "idle"] /\ arg' = [arg EXCEPT ![c] = 0]
      BY <1>5, <2>1 DEF OffSwap, FlowReturn
    <3>2. pc'[c] = "idle" /\ \A d \in Changers \ {c} : pc'[d] = pc[d] /\ arg'[d] = arg[d]
      BY <1>0, <3>1
    <3>3. ToSet(subs') = ToSet(subs) \ {arg[c]} BY <1>5, <1>s, <2>1, ListOut
    <3>4. ~Untouched(arg[c]) BY <2>0 DEF MatcherInv, RemovedBefore
    <3>5. ~Adding(c) /\ ~Adding(c)' BY <2>0, <3>2 DEF Adding
    <3>6. \A d \in Changers \ {c} : Adding(d)' = Adding(d) BY <3>2 DEF Adding
    <3> QED BY <1>s, <2>0, <3>2, <3>3, <3>4, <3>5, <3>6, MatcherStays
  <2>2. CASE gen # old[c].gen
    <3>1. UNCHANGED <<subs, arg>> /\ pc' = [pc EXCEPT ![c] = "offLoad"]
      BY <1>5, <2>2 DEF OffSwap
    <3>2. pc'[c] = "offLoad" /\ \A d \in Changers \ {c} : pc'[d] = pc[d] BY <1>0, <3>1
    <3> QED BY <1>s, <2>0, <3>1, <3>2, MatcherStays DEF Adding
  <2> QED BY <2>1, <2>2
<1>6. ASSUME NEW c \in Consumers, Dispatch(c) PROVE MatcherInv'
  <2>1. /\ UNCHANGED <<subs, gen, ref, exact, nextId, pat, sure, gone, removed>>
        /\ \A d \in Changers : pc'[d] = pc[d] /\ arg'[d] = arg[d]
    BY <1>6, <1>s, DispatchLeaves
  <2> QED BY <1>s, <2>1, MatcherStays DEF Adding
<1>7. CASE UNCHANGED flowVars
  <2>1. UNCHANGED <<subs, ref, exact, nextId, pat, removed, sure, arg, pc>>
    BY <1>7 DEF flowVars, matcherVars, flowHistory
  <2> QED BY <1>s, <2>1, MatcherStays DEF Adding
<1>8. ASSUME NEW c \in Changers, NEW p \in Patterns, FlowOnAdd(c, p) PROVE MatcherInv'
  BY <1>8, MatcherAdds
<1> QED
  BY <1>s, <1>1, <1>2, <1>3, <1>4, <1>5, <1>6, <1>7, <1>8, MatcherCounts, MatcherDeletes, MatcherRemoves
  DEF FlowNext, FlowOn, FlowOff

(***************************************************************************)
(* The consumers' part is inductive.                                       *)
(***************************************************************************)
LEMMA DispatchInitially == FlowInit => DispatchInv
<1> SUFFICES ASSUME FlowInit PROVE DispatchInv
  OBVIOUS
<1>1. \A c \in Consumers : pc[c] = "idle" /\ throughout[c] = {} /\ sometime[c] = {}
  BY DEF FlowInit
<1>2. Dispatching BY <1>1 DEF FlowInit, Dispatching
<1> QED
  BY <1>1, <1>2, MatcherInitially
  DEF DispatchInv, LoadedOnce, DispatchIsSound, DispatchIsComplete

(* What a consumer knows and was told stays right when a changer moves.    *)
Kept(c) ==
  /\ pc'[c] = pc[c] /\ arg'[c] = arg[c] /\ old'[c] = old[c] /\ called'[c] = called[c]
  /\ throughout'[c] \subseteq throughout[c] \cap sure'
  /\ sometime[c] \subseteq sometime'[c] /\ sometime'[c] \subseteq 1 .. nextId'
  /\ pc[c] # "idle" => MaybeThere' \subseteq sometime'[c]

PatternsStay ==
  /\ \A i \in 1 .. nextId : pat'[i] = pat[i] /\ i \in 1 .. nextId'
  /\ Overremoved \subseteq Overremoved'

(* The three parts of the invariant for one consumer.                      *)
DispatchingOf(c) ==
  /\ pc[c] \in {"idle", "match", "merge", "called"}
  /\ throughout[c] \subseteq sure /\ sometime[c] \subseteq 1 .. nextId
  /\ pc[c] # "idle" => MaybeThere \subseteq sometime[c] /\ arg[c] \in EventTypes

LoadedOnceOf(c) ==
  pc[c] \in {"match", "merge"} =>
    /\ old[c].list \in Seq(Ids) /\ IsInjective(old[c].list)
    /\ throughout[c] \subseteq ToSet(old[c].list) /\ ToSet(old[c].list) \subseteq sometime[c]
    /\ \E j \in sometime[c] : pat[j] \in Wildcards

SoundOf(c) ==
  pc[c] = "called" =>
    /\ IsInjective(called[c]) /\ ToSet(called[c]) \subseteq sometime[c]
    /\ ToSet(called[c]) \subseteq FlowAddressed(c) \/ HasSingleKey(called[c])

CompleteOf(c) ==
  pc[c] = "called" =>
    \A i \in throughout[c] \cap FlowAddressed(c) :
      \/ i \in ToSet(called[c])
      \/ pat[i] \in TooDeep /\ \E j \in sometime[c] : pat[j] \in Wildcards
      \/ pat[i] \in Wildcards /\ arg[c] \notin TooDeep /\ \E j \in sometime[c] : pat[j] = arg[c]
      \/ pat[i] \in Overremoved

Of(c) == DispatchingOf(c) /\ LoadedOnceOf(c) /\ SoundOf(c) /\ CompleteOf(c)

LEMMA OfEach ==
  ASSUME called = [c \in Consumers |-> called[c]],
         throughout = [c \in Consumers |-> throughout[c]],
         sometime = [c \in Consumers |-> sometime[c]]
  PROVE  Dispatching /\ LoadedOnce /\ DispatchIsSound /\ DispatchIsComplete
           <=> \A c \in Consumers : Of(c)
BY DEF Dispatching, LoadedOnce, DispatchIsSound, DispatchIsComplete, Of, DispatchingOf,
       LoadedOnceOf, SoundOf, CompleteOf

LEMMA KeptIsRight ==
  ASSUME MatcherInv, NEW c \in Consumers, Of(c), Kept(c), PatternsStay
  PROVE  Of(c)'
<1>0. /\ pc'[c] = pc[c] /\ arg'[c] = arg[c] /\ old'[c] = old[c] /\ called'[c] = called[c]
      /\ throughout'[c] \subseteq throughout[c] /\ throughout'[c] \subseteq sure'
      /\ sometime[c] \subseteq sometime'[c] /\ sometime'[c] \subseteq 1 .. nextId'
      /\ pc[c] # "idle" => MaybeThere' \subseteq sometime'[c]
  BY DEF Kept
<1>1. sometime[c] \subseteq 1 .. nextId /\ \A i \in 1 .. nextId : pat'[i] = pat[i] /\ i \in Ids
  BY DeliveryAssumption
  DEF Of, DispatchingOf, PatternsStay, Ids, MatcherInv, SubsInv, Types
<1>2. DispatchingOf(c)' BY <1>0 DEF Of, DispatchingOf
<1>3. LoadedOnceOf(c)' BY <1>0, <1>1 DEF Of, LoadedOnceOf
<1>4. SoundOf(c)'
  <2> SUFFICES ASSUME pc[c] = "called"
               PROVE  /\ IsInjective(called[c]) /\ ToSet(called[c]) \subseteq sometime'[c]
                      /\ \/ ToSet(called[c]) \subseteq {i \in Ids : pat'[i] \in Covering[arg[c]]}
                         \/ /\ {pat'[i] : i \in ToSet(called[c])} \cap Wildcards = {}
                            /\ Cardinality({pat'[i] : i \in ToSet(called[c])}) = 1
    BY <1>0 DEF SoundOf, FlowAddressed, HasSingleKey, HasWildcard, PatternsOf
  <2>1. /\ IsInjective(called[c]) /\ ToSet(called[c]) \subseteq sometime[c]
        /\ ToSet(called[c]) \subseteq FlowAddressed(c) \/ HasSingleKey(called[c])
    BY DEF Of, SoundOf
  <2>2. {pat'[i] : i \in ToSet(called[c])} = {pat[i] : i \in ToSet(called[c])}
    BY <1>1, <2>1
  <2>3. ToSet(called[c]) \subseteq FlowAddressed(c)
          => ToSet(called[c]) \subseteq {i \in Ids : pat'[i] \in Covering[arg[c]]}
    BY <1>1, <2>1 DEF FlowAddressed
  <2> QED BY <1>0, <2>1, <2>2, <2>3 DEF HasSingleKey, HasWildcard, PatternsOf
<1>5. CompleteOf(c)'
  <2> SUFFICES ASSUME pc[c] = "called", NEW i \in throughout'[c], i \in Ids,
                      pat'[i] \in Covering[arg[c]]
               PROVE  \/ i \in ToSet(called[c])
                      \/ pat'[i] \in TooDeep /\ \E j \in sometime'[c] : pat'[j] \in Wildcards
                      \/ /\ pat'[i] \in Wildcards /\ arg[c] \notin TooDeep
                         /\ \E j \in sometime'[c] : pat'[j] = arg[c]
                      \/ pat'[i] \in Overremoved'
    BY <1>0 DEF CompleteOf, FlowAddressed
  <2>1. i \in throughout[c] /\ i \in 1 .. nextId
    BY <1>0 DEF Of, DispatchingOf, MatcherInv, SubsInv, Numbered
  <2>2. pat'[i] = pat[i] /\ i \in throughout[c] \cap FlowAddressed(c)
    BY <1>1, <2>1 DEF FlowAddressed
  <2>3. \/ i \in ToSet(called[c])
        \/ pat[i] \in TooDeep /\ \E j \in sometime[c] : pat[j] \in Wildcards
        \/ /\ pat[i] \in Wildcards /\ arg[c] \notin TooDeep
           /\ \E j \in sometime[c] : pat[j] = arg[c]
        \/ pat[i] \in Overremoved
    BY <2>2 DEF Of, CompleteOf
  <2>4. \A j \in sometime[c] : j \in sometime'[c] /\ pat'[j] = pat[j] BY <1>0, <1>1
  <2> QED BY <2>2, <2>3, <2>4 DEF PatternsStay
<1> QED BY <1>2, <1>3, <1>4, <1>5 DEF Of

(* A consumer loads the snapshot.                                          *)
LEMMA LoadIsRight ==
  ASSUME DispatchInv, NEW c \in Consumers, NEW e \in EventTypes, DispatchLoad(c, e)
  PROVE  Of(c)'
<1>t. /\ c \in Goroutines /\ pc = [d \in Goroutines |-> pc[d]] /\ arg = [d \in Goroutines |-> arg[d]]
      /\ old = [d \in Goroutines |-> old[d]] /\ called = [d \in Consumers |-> called[d]]
      /\ throughout = [d \in Consumers |-> throughout[d]]
      /\ sometime = [d \in Consumers |-> sometime[d]]
  BY DEF DispatchInv, MatcherInv, SubsInv, Types, Goroutines, Dispatching
<1>0. /\ UNCHANGED <<subs, nextId, pat, sure, gone, removed>>
      /\ arg'[c] = e /\ throughout'[c] = sure /\ sometime'[c] = MaybeThere
      /\ \/ /\ HasWildcard(subs) /\ old'[c] = [gen |-> gen, list |-> subs] /\ pc'[c] = "match"
         \/ /\ ~HasWildcard(subs) /\ pc'[c] = "called"
            /\ called'[c] = IF HasSingleKey(subs) THEN subs ELSE HandlersOf(subs, e)
  BY <1>t DEF DispatchLoad, flowHistory
<1>1. /\ subs \in Seq(Ids) /\ IsInjective(subs) /\ sure \subseteq ToSet(subs)
      /\ ToSet(subs) \subseteq MaybeThere /\ MaybeThere \subseteq 1 .. nextId
      /\ \A i \in ToSet(subs) : i \in Ids
  <2>1. /\ subs \in Seq(Ids) /\ IsInjective(subs) /\ sure \subseteq ToSet(subs)
        /\ gone \cap ToSet(subs) = {} /\ ToSet(subs) \subseteq 1 .. nextId
    BY DEF DispatchInv, MatcherInv, SubsInv, Types, Numbered, NoLostUpdate
  <2>2. \A i \in 1 .. nextId : i \in Ids
    BY DeliveryAssumption DEF DispatchInv, MatcherInv, SubsInv, Types, Ids
  <2> QED BY <2>1, <2>2 DEF MaybeThere
<1>2. Covering[e] \ Wildcards = Patterns \cap {e} /\ Covering[e] \subseteq Patterns
  BY DeliveryAssumption
<1>m. MaybeThere' = MaybeThere BY <1>0 DEF MaybeThere
<1>3. DispatchingOf(c)' BY <1>0, <1>1, <1>m DEF DispatchingOf
<1>4. LoadedOnceOf(c)'
  <2>1. HasWildcard(subs) => \E j \in MaybeThere : pat[j] \in Wildcards
    BY <1>1 DEF HasWildcard, PatternsOf
  <2> QED BY <1>0, <1>1, <2>1 DEF LoadedOnceOf
<1>5. ASSUME pc'[c] = "called"
      PROVE  /\ IsInjective(called'[c]) /\ ToSet(called'[c]) \subseteq MaybeThere
             /\ \/ \A i \in ToSet(called'[c]) : i \in Ids /\ pat[i] \in Covering[e]
                \/ HasSingleKey(called'[c])
             /\ \A i \in sure : pat[i] \in Covering[e] => i \in ToSet(called'[c])
  <2>1. ~HasWildcard(subs) /\ called'[c] = IF HasSingleKey(subs) THEN subs ELSE HandlersOf(subs, e)
    BY <1>0, <1>5
  <2>2. CASE HasSingleKey(subs) BY <1>1, <2>1, <2>2
  <2>3. CASE ~HasSingleKey(subs)
    <3>1. /\ IsInjective(called'[c])
          /\ ToSet(called'[c]) = {i \in ToSet(subs) : pat[i] = e}
      BY <1>1, <2>1, <2>3, HandlersGathered
    <3>2. \A i \in ToSet(subs) : pat[i] \in Patterns
      BY <1>1 DEF DispatchInv, MatcherInv, MatcherTypes
    <3>3. \A i \in ToSet(subs) : pat[i] \notin Wildcards
      BY <2>1 DEF HasWildcard, PatternsOf
    <3>4. \A i \in ToSet(subs) : pat[i] = e => pat[i] \in Covering[e] BY <1>2, <3>2
    <3>5. \A i \in ToSet(subs) : pat[i] \in Covering[e] => pat[i] = e BY <1>2, <3>3
    <3> QED BY <1>1, <3>1, <3>4, <3>5
  <2> QED BY <2>2, <2>3
<1>6. SoundOf(c)'
  <2> SUFFICES ASSUME pc'[c] = "called"
               PROVE  /\ IsInjective(called'[c]) /\ ToSet(called'[c]) \subseteq sometime'[c]
                      /\ \/ ToSet(called'[c]) \subseteq {i \in Ids : pat'[i] \in Covering[arg'[c]]}
                         \/ /\ {pat'[i] : i \in ToSet(called'[c])} \cap Wildcards = {}
                            /\ Cardinality({pat'[i] : i \in ToSet(called'[c])}) = 1
    BY DEF SoundOf, FlowAddressed, HasSingleKey, HasWildcard, PatternsOf
  <2> QED BY <1>0, <1>5 DEF HasSingleKey, HasWildcard, PatternsOf
<1>7. CompleteOf(c)'
  <2> SUFFICES ASSUME pc'[c] = "called", NEW i \in throughout'[c], pat'[i] \in Covering[arg'[c]]
               PROVE  i \in ToSet(called'[c])
    BY DEF CompleteOf, FlowAddressed
  <2> QED BY <1>0, <1>5
<1> QED BY <1>3, <1>4, <1>6, <1>7 DEF Of

(* The matcher answers a consumer with the patterns q: all that cover the  *)
(* event, but for the exceptions of the code.                              *)
LEMMA AnswerIsRight ==
  ASSUME DispatchInv, NEW c \in Consumers, pc[c] \in {"match", "merge"},
         NEW q \in Seq(Covering[arg[c]]), IsInjective(q), Handle(c, q),
         UNCHANGED <<subs, gen, matcherVars, nextId, arg, pat, flowHistory, throughout, sometime>>,
         \A i \in throughout[c] :
           pat[i] \in Covering[arg[c]] =>
             \/ pat[i] \in ToSet(q) \/ pat[i] \in TooDeep
             \/ /\ pat[i] \in Wildcards /\ arg[c] \notin TooDeep
                /\ \E j \in sometime[c] : pat[j] = arg[c]
             \/ pat[i] \in Overremoved
  PROVE  Of(c)'
<1>t. /\ c \in Goroutines /\ pc = [d \in Goroutines |-> pc[d]]
      /\ called = [d \in Consumers |-> called[d]]
  BY DEF DispatchInv, MatcherInv, SubsInv, Types, Goroutines, Dispatching
<1> DEFINE e == arg[c]
           list == old[c].list
<1>0. /\ UNCHANGED <<nextId, pat, sure, gone, removed, arg, throughout, sometime>>
      /\ pc'[c] = "called" /\ called'[c] = CalledFor(list, q)
  BY <1>t DEF Handle, CalledFor, flowHistory
<1>1. /\ list \in Seq(Ids) /\ IsInjective(list)
      /\ throughout[c] \subseteq ToSet(list) /\ ToSet(list) \subseteq sometime[c]
      /\ throughout[c] \subseteq sure /\ sometime[c] \subseteq 1 .. nextId
      /\ MaybeThere \subseteq sometime[c] /\ e \in EventTypes
      /\ \E j \in sometime[c] : pat[j] \in Wildcards
  BY DEF DispatchInv, LoadedOnce, Dispatching
<1>2. /\ q \in Seq(Covering[e])
      /\ \A i \in throughout[c] :
           pat[i] \in Covering[e] =>
             \/ pat[i] \in ToSet(q) \/ pat[i] \in TooDeep
             \/ /\ pat[i] \in Wildcards /\ e \notin TooDeep
                /\ \E j \in sometime[c] : pat[j] = e
             \/ pat[i] \in Overremoved
  OBVIOUS
<1> HIDE DEF e, list
<1>3. /\ IsInjective(called'[c])
      /\ ToSet(called'[c]) = {i \in ToSet(list) : pat[i] \in ToSet(q)}
  BY <1>0, <1>1, <1>2, CalledGathered
<1>5. \A i \in 1 .. nextId : i \in Ids
  BY DeliveryAssumption DEF DispatchInv, MatcherInv, SubsInv, Types, Ids
<1>m. MaybeThere' = MaybeThere BY <1>0 DEF MaybeThere
<1>6. DispatchingOf(c)' BY <1>0, <1>1, <1>m DEF DispatchingOf, e
<1>7. LoadedOnceOf(c)' BY <1>0 DEF LoadedOnceOf
<1>8. SoundOf(c)'
  <2>1. ToSet(called'[c]) \subseteq sometime[c] BY <1>1, <1>3
  <2>2. ToSet(q) \subseteq Covering[e] BY <1>2 DEF ToSet
  <2>3. ToSet(called'[c]) \subseteq {i \in Ids : pat[i] \in Covering[e]}
    BY <1>1, <1>3, <1>5, <2>1, <2>2
  <2> SUFFICES /\ IsInjective(called'[c]) /\ ToSet(called'[c]) \subseteq sometime'[c]
               /\ ToSet(called'[c]) \subseteq {i \in Ids : pat'[i] \in Covering[arg'[c]]}
    BY DEF SoundOf, FlowAddressed
  <2> QED BY <1>0, <1>3, <2>1, <2>3 DEF e
<1>9. CompleteOf(c)'
  <2> SUFFICES ASSUME NEW i \in throughout[c], pat[i] \in Covering[e], i \notin ToSet(called'[c])
               PROVE  \/ pat[i] \in TooDeep /\ \E j \in sometime[c] : pat[j] \in Wildcards
                      \/ /\ pat[i] \in Wildcards /\ e \notin TooDeep
                         /\ \E j \in sometime[c] : pat[j] = e
                      \/ pat[i] \in Overremoved
    <3>1. Overremoved' = Overremoved BY <1>0 DEF Overremoved
    <3> QED BY <1>0, <3>1 DEF CompleteOf, FlowAddressed, e
  <2>1. pat[i] \notin ToSet(q) BY <1>1, <1>3
  <2> QED BY <1>1, <1>2, <2>1
<1> QED BY <1>6, <1>7, <1>8, <1>9 DEF Of

(* An exact entry stands for a subscription that may be there.             *)
LEMMA LookIsRight ==
  ASSUME DispatchInv, NEW c \in Consumers, DispatchExact(c)
  PROVE  Of(c)'
<1>0. /\ UNCHANGED <<subs, gen, matcherVars, nextId, arg, pat, flowHistory, throughout, sometime>>
      /\ pc[c] = "match"
  BY DEF DispatchExact
<1>1. /\ arg[c] \in EventTypes /\ MaybeThere \subseteq sometime[c]
      /\ throughout[c] \subseteq sure /\ sure \subseteq 1 .. nextId
  BY <1>0 DEF DispatchInv, Dispatching, MatcherInv, SubsInv, Numbered
<1>2. CASE arg[c] \in exact /\ Handle(c, <<arg[c]>>)
  <2> DEFINE q == <<arg[c]>>
  <2>1. q \in Seq(Covering[arg[c]]) /\ IsInjective(q) /\ ToSet(q) = {arg[c]}
    <3>1. exact \subseteq Patterns BY DEF DispatchInv, MatcherInv, MatcherTypes
    <3> QED BY <1>1, <1>2, <3>1, ExactAlone
  <2>2. Handle(c, q) BY <1>2
  <2> HIDE DEF q
  <2>d. arg[c] \notin TooDeep BY <1>2 DEF DispatchInv, MatcherInv, MatcherTypes
  <2>3. \E j \in sometime[c] : pat[j] = arg[c]
    <3>1. PICK j \in Left(arg[c]) : TRUE BY <1>2 DEF DispatchInv, MatcherInv, Referenced
    <3>2. j \in 1 .. nextId /\ pat[j] = arg[c] /\ Untouched(j) BY <3>1 DEF Left
    <3>3. j \in ToSet(subs) \/ \E d \in Changers : Adding(d) /\ arg[d] = j
      BY <3>2 DEF DispatchInv, MatcherInv, RemovedBefore
    <3>4. j \notin gone
      BY <3>3 DEF DispatchInv, MatcherInv, SubsInv, NoLostUpdate, AddingNew
    <3> QED BY <1>1, <3>2, <3>4 DEF MaybeThere
  <2>4. \A i \in throughout[c] : pat[i] \in Covering[arg[c]] =>
          pat[i] \in ToSet(q) \/ pat[i] \in Wildcards
    BY <1>1, <2>1, DeliveryAssumption
  <2> QED BY <1>0, <2>1, <2>2, <2>d, <2>3, <2>4, AnswerIsRight
<1>3. CASE pc' = [pc EXCEPT ![c] = "merge"] /\ UNCHANGED <<called, old>>
  <2>1. pc'[c] = "merge" BY <1>3 DEF DispatchInv, MatcherInv, SubsInv, Types, Goroutines
  <2>2. DispatchingOf(c)'
    BY <1>0, <2>1 DEF DispatchInv, Dispatching, DispatchingOf, MaybeThere, flowHistory
  <2>3. LoadedOnceOf(c)' BY <1>0, <1>3 DEF DispatchInv, LoadedOnce, LoadedOnceOf
  <2>4. SoundOf(c)' /\ CompleteOf(c)' BY <2>1 DEF SoundOf, CompleteOf
  <2> QED BY <2>2, <2>3, <2>4 DEF Of
<1> QED BY <1>2, <1>3 DEF DispatchExact

(* What is sure has been counted, unless its pattern was removed twice.    *)
LEMMA MergeIsRight ==
  ASSUME DispatchInv, NEW c \in Consumers, DispatchMerge(c)
  PROVE  Of(c)'
<1>0. /\ UNCHANGED <<subs, gen, matcherVars, nextId, arg, pat, flowHistory, throughout, sometime>>
      /\ pc[c] = "merge" /\ Handle(c, Merged(arg[c]))
  BY DEF DispatchMerge
<1>1. arg[c] \in EventTypes /\ throughout[c] \subseteq sure
  BY <1>0 DEF DispatchInv, Dispatching
<1> DEFINE q == Merged(arg[c])
<1>2. /\ q \in Seq(Covering[arg[c]]) /\ IsInjective(q)
      /\ ToSet(q) = {p \in Covering[arg[c]] : ref[p] > 0}
  <2>1. nextId \in Nat BY DEF DispatchInv, MatcherInv, SubsInv, Types
  <2>2. \A p \in Patterns : ref[p] > 0 => \E i \in 1 .. nextId : pat[i] = p
    BY DEF DispatchInv, MatcherInv, Referenced
  <2> QED BY <1>1, <2>1, <2>2, MergedOnce
<1>3. Handle(c, q) BY <1>0
<1> HIDE DEF q
<1>4. ASSUME NEW i \in throughout[c], pat[i] \in Covering[arg[c]],
             pat[i] \notin Overremoved, pat[i] \notin TooDeep
      PROVE  pat[i] \in ToSet(q)
  <2>1. i \in 1 .. nextId /\ pat[i] \in Patterns /\ Untouched(i) /\ i \in sure
    BY <1>1 DEF DispatchInv, MatcherInv, SubsInv, Numbered, MatcherTypes, RemovedBefore
  <2>2. ~Counting(i)
    BY <2>1 DEF DispatchInv, MatcherInv, SubsInv, AddingNew, Adding, Counting
  <2>3. i \in Remaining(pat[i]) BY <2>1, <2>2 DEF Remaining, Left
  <2>4. ref[pat[i]] = Cardinality(Remaining(pat[i]))
    BY <1>4, <2>1 DEF DispatchInv, MatcherInv, Referenced
  <2>5. /\ Cardinality(Remaining(pat[i])) \in Nat
        /\ Cardinality(Remaining(pat[i])) = 0 <=> Remaining(pat[i]) = {}
    BY RemainingFinite DEF DispatchInv, MatcherInv
  <2>6. ref[pat[i]] > 0 BY <2>3, <2>4, <2>5
  <2> QED BY <1>2, <1>4, <2>6
<1> QED BY <1>0, <1>2, <1>3, <1>4, AnswerIsRight

LEMMA ReturnIsRight ==
  ASSUME DispatchInv, NEW c \in Consumers, DispatchReturn(c)
  PROVE  Of(c)'
<1>1. pc'[c] = "idle" /\ throughout'[c] = {} /\ sometime'[c] = {}
  BY DEF DispatchReturn, DispatchInv, MatcherInv, SubsInv, Types, Goroutines, Dispatching
<1> QED BY <1>1 DEF Of, DispatchingOf, LoadedOnceOf, SoundOf, CompleteOf

(* What a changer's step means for the consumers: patterns are kept, and a *)
(* consumer is told of the new and of the gone.                            *)
LEMMA ChangerKeeps ==
  ASSUME DispatchInv, NEW c \in Changers, FlowOn(c) \/ FlowOff(c)
  PROVE  /\ UNCHANGED called
         /\ throughout' = [d \in Consumers |-> throughout'[d]]
         /\ sometime' = [d \in Consumers |-> sometime'[d]]
         /\ PatternsStay /\ \A d \in Consumers : Kept(d)
<1>0. /\ c \in Goroutines /\ \A d \in Consumers : d # c /\ d \in Goroutines
      /\ pc = [d \in Goroutines |-> pc[d]] /\ arg = [d \in Goroutines |-> arg[d]]
      /\ old = [d \in Goroutines |-> old[d]]
      /\ throughout = [d \in Consumers |-> throughout[d]]
      /\ sometime = [d \in Consumers |-> sometime[d]]
  BY FlowSubscriptionsAssumption
  DEF DispatchInv, MatcherInv, SubsInv, Types, Goroutines, Dispatching
<1>n. nextId \in Nat /\ \A i \in 1 .. nextId : i \in Ids /\ i # nextId + 1
  BY DeliveryAssumption DEF DispatchInv, MatcherInv, SubsInv, Types, Ids
<1>1. /\ UNCHANGED called
      /\ \E x : pc' = [pc EXCEPT ![c] = x]
      /\ arg' = arg \/ \E x : arg' = [arg EXCEPT ![c] = x]
      /\ old' = old \/ \E x : old' = [old EXCEPT ![c] = x]
  BY DEF FlowOn, FlowOff, FlowOnAdd, OnCount, OnLoad, OnSwap, FlowOffStart, OffLoad, Look, FlowOffRemove,
      FlowOffCount, OffSwap, FlowReturn
<1>2. \A d \in Consumers : pc'[d] = pc[d] /\ arg'[d] = arg[d] /\ old'[d] = old[d]
  BY <1>0, <1>1
<1>3. /\ gone \subseteq gone'
      /\ \/ UNCHANGED <<nextId, pat>>
         \/ \E p \in Patterns : /\ nextId' = nextId + 1 /\ UNCHANGED removed
                                /\ pat' = [pat EXCEPT ![nextId + 1] = p]
                                /\ Untouched(nextId + 1)
  <2>1. ASSUME NEW p \in Patterns, FlowOnAdd(c, p) PROVE Untouched(nextId + 1)
    <3>1. nextId + 1 \in Ids /\ nextId + 1 > nextId
      BY <2>1, <1>n, DeliveryAssumption DEF FlowOnAdd, Ids
    <3> QED BY <3>1 DEF DispatchInv, MatcherInv, RemovedBefore
  <2>2. CASE \E p \in Patterns : FlowOnAdd(c, p) BY <2>1, <2>2 DEF FlowOnAdd, flowHistory
  <2>3. CASE ~\E p \in Patterns : FlowOnAdd(c, p)
    BY <2>3 DEF FlowOn, FlowOff, OnCount, OnLoad, OnSwap, FlowOffStart, OffLoad, Look, FlowOffRemove,
        FlowOffCount, OffSwap, flowHistory
  <2> QED BY <2>2, <2>3
<1>4. FlowWatch \/ UNCHANGED <<nextId, gone, sure, throughout, sometime>>
  BY DEF FlowOn, FlowOff, FlowOnAdd, OnCount, OnLoad, OnSwap, FlowOffStart, OffLoad, Look, FlowOffRemove,
      FlowOffCount, OffSwap, flowHistory
<1>5. MatcherTypes /\ MatcherTypes' /\ \A j \in Ids : removed[j] <= removed'[j]
  <2>1. MatcherInv' BY MatcherStep DEF DispatchInv, FlowNext
  <2>2. UNCHANGED removed \/ FlowOffCount(c)
    BY DEF FlowOn, FlowOff, FlowOnAdd, OnCount, OnLoad, OnSwap, FlowOffStart, OffLoad, Look,
        FlowOffRemove, OffSwap, flowHistory
  <2>3. removed \in [Ids -> 0 .. 2] BY DEF DispatchInv, MatcherInv, MatcherTypes
  <2>4. ASSUME NEW j \in Ids PROVE removed[j] <= removed'[j]
    BY <2>2, <2>3 DEF FlowOffCount, CountRemove
  <2> QED BY <2>1, <2>4 DEF DispatchInv, MatcherInv
<1>6. PatternsStay
  <2>1. \A i \in 1 .. nextId : pat'[i] = pat[i] /\ i \in 1 .. nextId'
    BY <1>n, <1>3, <1>5 DEF MatcherTypes
  <2>2. ASSUME NEW q \in Overremoved PROVE q \in Overremoved'
    <3>1. PICK j \in Ids : removed[j] > 1 /\ pat[j] = q BY <2>2 DEF Overremoved
    <3>2. removed'[j] > 1 BY <1>5, <3>1 DEF MatcherTypes
    <3>3. pat'[j] = pat[j]
      <4>1. j = nextId + 1 => ~Untouched(j) BY <3>1 DEF Untouched
      <4> QED BY <1>3, <1>5, <3>1, <4>1 DEF MatcherTypes
    <3> QED BY <3>1, <3>2, <3>3 DEF Overremoved
  <2> QED BY <2>1, <2>2 DEF PatternsStay
<1>7. ASSUME NEW d \in Consumers
      PROVE  /\ throughout'[d] \subseteq throughout[d] \cap sure'
             /\ sometime[d] \subseteq sometime'[d] /\ sometime'[d] \subseteq 1 .. nextId'
             /\ pc[d] # "idle" => MaybeThere' \subseteq sometime'[d]
  <2>0. /\ throughout[d] \subseteq sure /\ sometime[d] \subseteq 1 .. nextId
        /\ pc[d] # "idle" => MaybeThere \subseteq sometime[d]
    BY DEF DispatchInv, Dispatching
  <2>1. CASE UNCHANGED <<nextId, gone, sure, throughout, sometime>>
    BY <2>0, <2>1 DEF MaybeThere
  <2>2. CASE FlowWatch
    <3>1. /\ throughout'[d] = throughout[d] \cap sure'
          /\ sometime'[d] = IF pc[d] # "idle" THEN sometime[d] \cup MaybeThere' ELSE sometime[d]
      BY <2>2 DEF FlowWatch, Observe
    <3>2. MaybeThere' \subseteq 1 .. nextId' BY DEF MaybeThere
    <3>3. \A i \in 1 .. nextId : i \in 1 .. nextId' BY <1>6 DEF PatternsStay
    <3> HIDE DEF MaybeThere
    <3> QED BY <2>0, <3>1, <3>2, <3>3
  <2> QED BY <1>4, <2>1, <2>2
<1>8. /\ throughout' = [d \in Consumers |-> throughout'[d]]
      /\ sometime' = [d \in Consumers |-> sometime'[d]]
  BY <1>0, <1>4 DEF FlowWatch, Observe
<1> QED BY <1>1, <1>2, <1>6, <1>7, <1>8 DEF Kept

LEMMA DispatchStep == DispatchInv /\ [FlowNext]_flowVars => DispatchInv'
<1> SUFFICES ASSUME DispatchInv, [FlowNext]_flowVars PROVE DispatchInv'
  OBVIOUS
<1>m. MatcherInv /\ MatcherInv' BY MatcherStep DEF DispatchInv
<1>t. /\ called = [d \in Consumers |-> called[d]]
      /\ throughout = [d \in Consumers |-> throughout[d]]
      /\ sometime = [d \in Consumers |-> sometime[d]]
      /\ Consumers \subseteq Goroutines
      /\ pc = [d \in Goroutines |-> pc[d]] /\ arg = [d \in Goroutines |-> arg[d]]
      /\ old = [d \in Goroutines |-> old[d]]
  BY DEF DispatchInv, MatcherInv, SubsInv, Types, Dispatching, Goroutines
<1>o. \A d \in Consumers : Of(d) BY <1>t, OfEach DEF DispatchInv
<1>w. ASSUME called' = [d \in Consumers |-> called'[d]],
             throughout' = [d \in Consumers |-> throughout'[d]],
             sometime' = [d \in Consumers |-> sometime'[d]],
             \A d \in Consumers : Of(d)'
      PROVE  DispatchInv'
  <2>1. /\ \A d \in Consumers : DispatchingOf(d)'
        /\ \A d \in Consumers : LoadedOnceOf(d)'
        /\ \A d \in Consumers : SoundOf(d)'
        /\ \A d \in Consumers : CompleteOf(d)'
    BY <1>w DEF Of
  <2>2. Dispatching' BY <1>w, <2>1 DEF Dispatching, DispatchingOf
  <2>3. LoadedOnce' BY <2>1 DEF LoadedOnce, LoadedOnceOf
  <2>4. DispatchIsSound' BY <2>1 DEF DispatchIsSound, SoundOf
  <2>5. DispatchIsComplete' BY <2>1 DEF DispatchIsComplete, CompleteOf
  <2> QED BY <1>m, <2>2, <2>3, <2>4, <2>5 DEF DispatchInv
<1>1. ASSUME NEW c \in Changers, FlowOn(c) \/ FlowOff(c) PROVE DispatchInv'
  <2>1. /\ UNCHANGED called
        /\ throughout' = [d \in Consumers |-> throughout'[d]]
        /\ sometime' = [d \in Consumers |-> sometime'[d]]
        /\ PatternsStay /\ \A d \in Consumers : Kept(d)
    BY <1>1, ChangerKeeps
  <2>2. \A d \in Consumers : Of(d)' BY <1>m, <1>o, <2>1, KeptIsRight
  <2> QED BY <1>t, <1>w, <2>1, <2>2
<1>2. ASSUME NEW c \in Consumers, Dispatch(c) PROVE DispatchInv'
  <2>1. UNCHANGED <<subs, gen, ref, exact, nextId, pat, sure, gone, removed>>
    BY <1>2, <1>m, DispatchLeaves DEF MatcherInv
  <2>2. /\ \E x : pc' = [pc EXCEPT ![c] = x]
        /\ arg' = arg \/ \E x : arg' = [arg EXCEPT ![c] = x]
        /\ old' = old \/ \E x : old' = [old EXCEPT ![c] = x]
        /\ called' = called \/ \E x : called' = [called EXCEPT ![c] = x]
        /\ throughout' = throughout \/ \E x : throughout' = [throughout EXCEPT ![c] = x]
        /\ sometime' = sometime \/ \E x : sometime' = [sometime EXCEPT ![c] = x]
    BY <1>2 DEF Dispatch, DispatchLoad, DispatchExact, DispatchMerge, Handle, DispatchReturn
  <2>3. PatternsStay BY <2>1 DEF PatternsStay, Overremoved
  <2>4. \A d \in Consumers \ {c} :
          /\ pc'[d] = pc[d] /\ arg'[d] = arg[d] /\ old'[d] = old[d] /\ called'[d] = called[d]
          /\ throughout'[d] = throughout[d] /\ sometime'[d] = sometime[d]
    BY <1>t, <2>2
  <2>5. ASSUME NEW d \in Consumers, d # c PROVE Of(d)'
    <3>1. /\ throughout[d] \subseteq sure /\ sometime[d] \subseteq 1 .. nextId
          /\ pc[d] # "idle" => MaybeThere \subseteq sometime[d]
      BY DEF DispatchInv, Dispatching
    <3>2. Kept(d) BY <2>1, <2>4, <2>5, <3>1 DEF Kept, MaybeThere
    <3> QED BY <1>m, <1>o, <2>3, <3>2, KeptIsRight
  <2>6. Of(c)' BY <1>2, LoadIsRight, LookIsRight, MergeIsRight, ReturnIsRight DEF Dispatch
  <2>7. /\ called' = [d \in Consumers |-> called'[d]]
        /\ throughout' = [d \in Consumers |-> throughout'[d]]
        /\ sometime' = [d \in Consumers |-> sometime'[d]]
    BY <1>t, <2>2
  <2> QED BY <1>w, <2>5, <2>6, <2>7
<1>3. CASE UNCHANGED flowVars
  <2>1. UNCHANGED <<subs, gen, ref, exact, nextId, pat, sure, gone, removed, pc, arg, old,
                    called, throughout, sometime>>
    BY <1>3 DEF flowVars, matcherVars, flowHistory
  <2>2. PatternsStay BY <2>1 DEF PatternsStay, Overremoved
  <2>3. ASSUME NEW d \in Consumers PROVE Of(d)'
    <3>1. /\ throughout[d] \subseteq sure /\ sometime[d] \subseteq 1 .. nextId
          /\ pc[d] # "idle" => MaybeThere \subseteq sometime[d]
      BY DEF DispatchInv, Dispatching
    <3>2. Kept(d) BY <2>1, <3>1 DEF Kept, MaybeThere
    <3> QED BY <1>m, <1>o, <2>2, <3>2, KeptIsRight
  <2> QED BY <1>t, <1>w, <2>1, <2>3
<1> QED BY <1>1, <1>2, <1>3 DEF FlowNext

(* A dispatch by any of its three paths calls no handler twice, none whose *)
(* Off had returned before and none of a pattern that does not cover the   *)
(* event, but for the handlers of a snapshot's only pattern (flow/bus.go   *)
(* 319-348).                                                               *)
THEOREM DispatchSound == FlowSpec => []DispatchIsSound
<1>1. DispatchInv => DispatchIsSound BY DEF DispatchInv
<1> QED BY <1>1, DispatchInitially, DispatchStep, PTL DEF FlowSpec

(* It calls every handler that covers the event and was there throughout,  *)
(* but for patterns too deep for the matcher while the snapshot has a      *)
(* wildcard, wildcards that an exact subscription hides, and patterns that *)
(* an Off removed from the matcher twice (flow/bus.go 319-348, 470-492,    *)
(* matcher.go 132-136).                                                    *)
THEOREM DispatchComplete == FlowSpec => []DispatchIsComplete
<1>1. DispatchInv => DispatchIsComplete BY DEF DispatchInv
<1> QED BY <1>1, DispatchInitially, DispatchStep, PTL DEF FlowSpec
=============================================================================
