------------------------- MODULE TrieMatcher_proofs -------------------------
(* Theorems about TrieMatcher, for any patterns, event types and readers:  *)
(* the trie keeps no dead branch, both walks find what covers an event     *)
(* type, the cache is coherent with the trie, and a Match that races with  *)
(* the writer answers for the time of its call.                            *)
EXTENDS TrieMatcher, TLAPS, WellFoundedInduction

(***************************************************************************)
(* Sequences.                                                              *)
(***************************************************************************)
LEMMA SameSequence ==
  ASSUME NEW S, NEW q \in Seq(S), NEW r \in Seq(S), Len(q) = Len(r),
         \A i \in 1 .. Len(q) : q[i] = r[i]
  PROVE  q = r
OBVIOUS

LEMMA Cut ==
  ASSUME NEW S, NEW q \in Seq(S), NEW i \in 0 .. Len(q)
  PROVE  /\ SubSeq(q, 1, i) \in Seq(S) /\ Len(SubSeq(q, 1, i)) = i
         /\ \A j \in 1 .. i : SubSeq(q, 1, i)[j] = q[j]
OBVIOUS

LEMMA CutWhole ==
  ASSUME NEW S, NEW q \in Seq(S)
  PROVE  SubSeq(q, 1, Len(q)) = q
BY Cut, SameSequence

LEMMA CutOfCut ==
  ASSUME NEW S, NEW q \in Seq(S), NEW i \in 0 .. Len(q), NEW j \in 0 .. i
  PROVE  SubSeq(SubSeq(q, 1, i), 1, j) = SubSeq(q, 1, j)
<1> DEFINE a == SubSeq(q, 1, i)
           b == SubSeq(q, 1, j)
           c == SubSeq(a, 1, j)
<1>1. /\ a \in Seq(S) /\ Len(a) = i /\ \A k \in 1 .. i : a[k] = q[k]
      /\ b \in Seq(S) /\ Len(b) = j /\ \A k \in 1 .. j : b[k] = q[k]
  BY Cut
<1> HIDE DEF a
<1>2. c \in Seq(S) /\ Len(c) = j /\ \A k \in 1 .. j : c[k] = a[k] BY <1>1, Cut
<1> HIDE DEF b, c
<1>3. b = c BY <1>1, <1>2, SameSequence
<1> QED BY <1>3 DEF a, b, c

(* The sequence x goes through n.                                          *)
Below(n, x) == Len(n) <= Len(x) /\ \A i \in 1 .. Len(n) : x[i] = n[i]

LEMMA BelowIsPrefix ==
  ASSUME NEW S, NEW q \in Seq(S), NEW r \in Seq(S)
  PROVE  /\ IsPrefix(q, r) <=> Below(q, r)
         /\ Below(q, r) <=> (Len(q) <= Len(r) /\ q = SubSeq(r, 1, Len(q)))
<1>1. SubSeq(q, 1, Len(q)) = q BY CutWhole
<1>2. ASSUME Len(q) <= Len(r)
      PROVE  q = SubSeq(r, 1, Len(q)) <=> \A i \in 1 .. Len(q) : r[i] = q[i]
  <2> DEFINE s == SubSeq(r, 1, Len(q))
  <2>1. s \in Seq(S) /\ Len(s) = Len(q) /\ \A i \in 1 .. Len(q) : s[i] = r[i] BY <1>2, Cut
  <2> HIDE DEF s
  <2>2. q = s <=> \A i \in 1 .. Len(q) : r[i] = q[i] BY <2>1, SameSequence
  <2> QED BY <2>2 DEF s
<1> QED BY <1>1, <1>2 DEF IsPrefix, Below

LEMMA Appended ==
  ASSUME NEW S, NEW q \in Seq(S), NEW e \in S
  PROVE  /\ Append(q, e) \in Seq(S) /\ Len(Append(q, e)) = Len(q) + 1
         /\ \A i \in 1 .. Len(q) : Append(q, e)[i] = q[i]
         /\ Append(q, e)[Len(q) + 1] = e
OBVIOUS

LEMMA ConcatIsInjective ==
  ASSUME NEW S, NEW q \in Seq(S), NEW r \in Seq(S)
  PROVE  /\ q \o r \in Seq(S) /\ ToSet(q \o r) = ToSet(q) \cup ToSet(r)
         /\ IsInjective(q) /\ IsInjective(r) /\ ToSet(q) \cap ToSet(r) = {}
              => IsInjective(q \o r)
<1> DEFINE c == q \o r
<1>1. /\ c \in Seq(S) /\ Len(c) = Len(q) + Len(r)
      /\ \A i \in 1 .. Len(q) : c[i] = q[i]
      /\ \A i \in 1 .. Len(r) : c[Len(q) + i] = r[i]
  OBVIOUS
<1>2. /\ DOMAIN q = 1 .. Len(q) /\ DOMAIN r = 1 .. Len(r) /\ DOMAIN c = 1 .. Len(c)
      /\ Len(q) \in Nat /\ Len(r) \in Nat
  BY <1>1
<1> HIDE DEF c
<1>3. ASSUME NEW i \in 1 .. Len(c)
      PROVE  \/ i \in 1 .. Len(q) /\ c[i] = q[i]
             \/ i - Len(q) \in 1 .. Len(r) /\ c[i] = r[i - Len(q)]
  <2>1. i <= Len(q) \/ i - Len(q) \in 1 .. Len(r) BY <1>1, <1>2
  <2>2. Len(q) + (i - Len(q)) = i BY <1>2
  <2> QED BY <1>1, <1>2, <2>1, <2>2
<1>4. /\ ToSet(q) = {q[i] : i \in 1 .. Len(q)} /\ ToSet(r) = {r[i] : i \in 1 .. Len(r)}
      /\ ToSet(c) = {c[i] : i \in 1 .. Len(c)}
  BY <1>2, Zenon DEF ToSet
<1>5. ToSet(c) \subseteq ToSet(q) \cup ToSet(r) BY <1>3, <1>4
<1>6. ToSet(q) \subseteq ToSet(c) BY <1>1, <1>2, <1>4
<1>7. ToSet(r) \subseteq ToSet(c)
  <2>1. \A i \in 1 .. Len(r) : Len(q) + i \in 1 .. Len(c) BY <1>1, <1>2
  <2> QED BY <1>1, <1>4, <2>1
<1>8. ASSUME IsInjective(q), IsInjective(r), ToSet(q) \cap ToSet(r) = {} PROVE IsInjective(c)
  <2>1. SUFFICES ASSUME NEW i \in 1 .. Len(c), NEW j \in 1 .. Len(c), c[i] = c[j] PROVE i = j
    BY <1>2 DEF IsInjective
  <2>2. /\ \A k, l \in 1 .. Len(q) : q[k] = q[l] => k = l
        /\ \A k, l \in 1 .. Len(r) : r[k] = r[l] => k = l
    BY <1>2, <1>8 DEF IsInjective
  <2>3. \A k \in 1 .. Len(q), l \in 1 .. Len(r) : q[k] # r[l] BY <1>4, <1>8
  <2>4. CASE i \in 1 .. Len(q) /\ c[i] = q[i]
    BY <1>3, <2>1, <2>2, <2>3, <2>4
  <2>5. CASE i - Len(q) \in 1 .. Len(r) /\ c[i] = r[i - Len(q)]
    <3>1. j - Len(q) \in 1 .. Len(r) /\ c[j] = r[j - Len(q)] BY <1>3, <2>1, <2>3, <2>5
    <3>2. i - Len(q) = j - Len(q) BY <2>1, <2>2, <2>5, <3>1
    <3> QED BY <1>2, <3>2
  <2> QED BY <1>3, <2>4, <2>5
<1> QED BY <1>1, <1>5, <1>6, <1>7, <1>8 DEF c

(***************************************************************************)
(* Induction over the naturals.                                            *)
(***************************************************************************)
Less == {ss \in Nat \X Nat : ss[1] < ss[2]}

LEMMA LessWellFounded == IsWellFoundedOn(Less, Nat)
BY NatLessThanWellFounded DEF OpToRel, Less

LEMMA InductionOverNat ==
  ASSUME NEW S, 0 \in S, \A n \in Nat : n \in S => n + 1 \in S
  PROVE  Nat \subseteq S
<1>1. SUFFICES ASSUME Nat \ S # {} PROVE FALSE
  OBVIOUS
<1>2. PICK m \in Nat \ S : \A k \in Nat \ S : <<k, m>> \notin Less
  BY <1>1, LessWellFounded, WFMin
<1>3. m # 0 /\ m - 1 \in Nat BY <1>2
<1>4. m - 1 \in S
  <2>1. <<m - 1, m>> \in Less BY <1>3 DEF Less
  <2> QED BY <1>2, <1>3, <2>1
<1> QED BY <1>2, <1>3, <1>4

(* A recursion on a node in ns and a depth up to N that asks at each depth *)
(* only for answers at the next one: F turns one assignment of answers in  *)
(* V to calls into the next one, as the recursion's body does.             *)
Layered(F, ns, N, D, V) ==
  /\ N \in Nat /\ D = ns \X (0 .. N) /\ V # {}
  /\ F \in [[D -> V] -> [D -> V]]
  /\ \A g, h \in [D -> V] : \A n \in ns : \A d \in 0 .. N :
       (d < N => \A m \in ns : g[<<m, d + 1>>] = h[<<m, d + 1>>])
         => F[g][<<n, d>>] = F[h][<<n, d>>]

(* Such a recursion has a solution.                                        *)
LEMMA RecursionSolved ==
  ASSUME NEW F, NEW ns, NEW N, NEW D, NEW V, Layered(F, ns, N, D, V)
  PROVE  \E g \in [D -> V] : F[g] = g
<1> USE DEF Layered
<1>1. PICK a \in V : TRUE OBVIOUS
<1> DEFINE Upto(g, k) == \A n \in ns : \A d \in 0 .. N :
                           d + k > N => F[g][<<n, d>>] = g[<<n, d>>]
           S == {k \in Nat : \E g \in [D -> V] : Upto(g, k)}
<1>2. \A g \in [D -> V] : F[g] \in [D -> V] OBVIOUS
<1>3. 0 \in S
  <2>1. [at \in D |-> a] \in [D -> V] OBVIOUS
  <2>2. \A g : Upto(g, 0) OBVIOUS
  <2> HIDE DEF Upto
  <2> QED BY <2>1, <2>2
<1>4. ASSUME NEW k \in Nat, k \in S PROVE k + 1 \in S
  <2>1. PICK g \in [D -> V] : Upto(g, k) BY <1>4
  <2>2. ASSUME NEW n \in ns, NEW d \in 0 .. N, d + (k + 1) > N
        PROVE  F[F[g]][<<n, d>>] = F[g][<<n, d>>]
    <3>1. ASSUME d < N, NEW m \in ns PROVE F[g][<<m, d + 1>>] = g[<<m, d + 1>>]
      <4>1. d + 1 \in 0 .. N /\ (d + 1) + k > N BY <2>2, <3>1
      <4> QED BY <2>1, <4>1
    <3> QED BY <1>2, <3>1
  <2>3. Upto(F[g], k + 1) BY <2>2
  <2>4. F[g] \in [D -> V] BY <1>2
  <2> HIDE DEF Upto
  <2> QED BY <2>3, <2>4
<1>5. N + 1 \in S
  <2> HIDE DEF S
  <2> QED BY <1>3, <1>4, InductionOverNat
<1>6. PICK g \in [D -> V] : Upto(g, N + 1) BY <1>5
<1>7. \A n \in ns : \A d \in 0 .. N : F[g][<<n, d>>] = g[<<n, d>>]
  <2>1. \A d \in 0 .. N : d + (N + 1) > N OBVIOUS
  <2> QED BY <1>6, <2>1
<1>8. \A at \in D : F[g][at] = g[at] BY <1>7
<1>9. F[g] \in [D -> V] /\ g \in [D -> V] BY <1>2
<1>10. F[g] = g BY <1>8, <1>9
<1> QED BY <1>10

(***************************************************************************)
(* Types.                                                                  *)
(***************************************************************************)
(* The writer works on a pattern, and has room for one version more.       *)
WriterInv == writer # "none" => changing \in Patterns /\ cacheVer < MaxVer

TypeInv == TypeOK /\ WriterInv

LEMMA PathsAreNodes ==
  ASSUME NEW p \in Patterns
  PROVE  /\ Paths(p) \subseteq AllNodes
         /\ \A i \in 1 .. Len(p) : SubSeq(p, 1, i) # << >>
<1>1. p \in Seq(ToSet(p)) BY MatcherAssumption
<1>2. \A i \in 1 .. Len(p) : Len(SubSeq(p, 1, i)) = i BY <1>1
<1> QED BY <1>2 DEF AllNodes

LEMMA TypeInit == Init => TypeInv
BY MatcherAssumption DEF Init, TypeInv, TypeOK, WriterInv, NoEntry, AllNodes

LEMMA TypeChange == TypeInv /\ Change => TypeInv'
<1> SUFFICES ASSUME TypeInv, Change PROVE TypeInv'
  OBVIOUS
<1> USE MatcherAssumption DEF TypeInv, TypeOK, WriterInv, readerVars
<1>1. ASSUME NEW p \in Patterns, AddToTrie(p) PROVE TypeInv'
  <2> USE <1>1 DEF AddToTrie, MayChange
  <2>1. nodes' \subseteq AllNodes BY PathsAreNodes
  <2>2. ref' \in [AllNodes -> 0 .. MaxRefs]
    <3>1. ASSUME p \in AllNodes PROVE ref[p] + 1 \in 0 .. MaxRefs
      BY <3>1
    <3> QED BY <3>1
  <2> QED BY <2>1, <2>2
<1>2. ASSUME NEW p \in Patterns, RemoveFromTrie(p) PROVE TypeInv'
  <2> USE <1>2 DEF RemoveFromTrie, MayChange
  <2>1. << >> \in nodes' /\ nodes' \subseteq AllNodes
    BY PathsAreNodes DEF Pruned
  <2>2. ref' \in [AllNodes -> 0 .. MaxRefs] BY DEF Released
  <2> QED BY <2>1, <2>2
<1>3. CASE AddExact \/ RemoveExact
  BY <1>3 DEF AddExact, RemoveExact, trieVars
<1>4. CASE Bump
  BY <1>4 DEF Bump, trieVars
<1> QED BY <1>1, <1>2, <1>3, <1>4 DEF Change

LEMMA TypeMatch ==
  ASSUME NEW r \in Readers
  PROVE  TypeInv /\ Match(r) => TypeInv'
<1> SUFFICES ASSUME TypeInv, Match(r) PROVE TypeInv'
  OBVIOUS
<1> USE MatcherAssumption DEF TypeInv, TypeOK, WriterInv, trieVars, writerVars
<1>1. ASSUME NEW e \in EventTypes, MatchStart(r, e) PROVE TypeInv'
  BY <1>1 DEF MatchStart
<1>2. CASE MatchExact(r)
  BY <1>2 DEF MatchExact, Return
<1>3. CASE MatchVersion(r)
  BY <1>3 DEF MatchVersion
<1>4. CASE MatchCache(r)
  BY <1>4 DEF MatchCache, Return
<1>5. CASE MatchWalk(r)
  BY <1>5 DEF MatchWalk
<1>6. CASE MatchStore(r)
  BY <1>6 DEF MatchStore
<1> QED BY <1>1, <1>2, <1>3, <1>4, <1>5, <1>6 DEF Match

LEMMA TypeStep == TypeInv /\ [Next]_vars => TypeInv'
<1>1. TypeInv /\ UNCHANGED vars => TypeInv'
  BY DEF TypeInv, TypeOK, WriterInv, vars, trieVars, writerVars, readerVars
<1> QED BY <1>1, TypeChange, TypeMatch DEF Next

(* The trie has only nodes on the way to patterns and never loses its      *)
(* root, a reference count is never negative, the exact set and the        *)
(* versions are in range (matcher.go 125-218).                             *)
THEOREM TypeCorrect == Spec => []TypeOK
BY TypeInit, TypeStep, PTL DEF Spec, TypeInv

(***************************************************************************)
(* The cache.                                                              *)
(***************************************************************************)
(* The variables the cache has to do with, and no version from the future. *)
Versions ==
  /\ cacheVer \in Nat
  /\ ver \in [Readers -> 0 .. cacheVer]
  /\ cache = [e \in EventTypes |-> cache[e]]
  /\ \A e \in EventTypes : cache[e].ver \in -1 .. cacheVer

ReaderDomains ==
  /\ pc = [r \in Readers |-> pc[r]]
  /\ event \in [Readers -> {<< >>} \cup EventTypes]
  /\ result = [r \in Readers |-> result[r]]
  /\ \A r \in Readers : pc[r] # "idle" => event[r] \in EventTypes

(* A reader that has walked and not yet stored holds what a walk would     *)
(* find now, unless the version it loaded is out of date.                  *)
WalkedIsCurrent ==
  writer = "none" =>
    \A r \in Readers :
      pc[r] = "store" /\ ver[r] = cacheVer => result[r] = Walk(event[r])

CacheInv == Versions /\ ReaderDomains /\ WalkedIsCurrent /\ CacheIsCoherent

LEMMA CacheInit == Init => CacheInv
BY DEF Init, CacheInv, Versions, ReaderDomains, WalkedIsCurrent, CacheIsCoherent, NoEntry

(* The writer's steps: what they change in the trie they change with the   *)
(* lock held, and the lock is released with a new version.                 *)
LEMMA ChangeStep == CacheInv /\ Change => CacheInv'
<1> SUFFICES ASSUME CacheInv, Change PROVE CacheInv'
  OBVIOUS
<1> USE DEF CacheInv
<1>1. ASSUME NEW p \in Patterns, AddToTrie(p) \/ RemoveFromTrie(p) PROVE CacheInv'
  BY <1>1 DEF AddToTrie, RemoveFromTrie, readerVars, Versions, ReaderDomains,
    WalkedIsCurrent, CacheIsCoherent
<1>2. CASE AddExact \/ RemoveExact
  BY <1>2 DEF AddExact, RemoveExact, readerVars, Versions, ReaderDomains,
    WalkedIsCurrent, CacheIsCoherent
<1>3. CASE Bump
  BY <1>3 DEF Bump, readerVars, Versions, ReaderDomains, WalkedIsCurrent, CacheIsCoherent
<1> QED BY <1>1, <1>2, <1>3 DEF Change

LEMMA MatchStep ==
  ASSUME NEW r \in Readers
  PROVE  CacheInv /\ Match(r) => CacheInv'
<1> SUFFICES ASSUME CacheInv, Match(r) PROVE CacheInv'
  OBVIOUS
<1> USE DEF CacheInv, writerVars, trieVars
<1>1. ASSUME NEW e \in EventTypes, MatchStart(r, e) PROVE CacheInv'
  BY <1>1 DEF MatchStart, Versions, ReaderDomains, WalkedIsCurrent, CacheIsCoherent, Walk
<1>2. CASE MatchExact(r)
  BY <1>2 DEF MatchExact, Return, Versions, ReaderDomains, WalkedIsCurrent,
    CacheIsCoherent, Walk
<1>3. CASE MatchVersion(r)
  <2> USE <1>3 DEF MatchVersion
  <2>1. Versions' BY DEF Versions
  <2>2. ReaderDomains' BY DEF ReaderDomains
  <2>3. \A q \in Readers : pc'[q] = "store" => q # r /\ ver'[q] = ver[q] /\ pc[q] = "store"
    BY DEF Versions, ReaderDomains
  <2>4. WalkedIsCurrent' BY <2>3 DEF WalkedIsCurrent, Walk
  <2>5. CacheIsCoherent' BY DEF CacheIsCoherent, Walk
  <2> QED BY <2>1, <2>2, <2>4, <2>5
<1>4. CASE MatchCache(r)
  BY <1>4 DEF MatchCache, Return, Versions, ReaderDomains, WalkedIsCurrent,
    CacheIsCoherent, Walk
<1>5. CASE MatchWalk(r)
  BY <1>5 DEF MatchWalk, Versions, ReaderDomains, WalkedIsCurrent, CacheIsCoherent, Walk
<1>6. CASE MatchStore(r)
  <2> USE <1>6 DEF MatchStore
  <2>1. event[r] \in EventTypes BY DEF ReaderDomains
  <2>2. \A e \in EventTypes :
          cache'[e] = IF e = event[r] THEN [ver |-> ver[r], patterns |-> result[r]]
                      ELSE cache[e]
    BY <2>1 DEF Versions
  <2>3. Versions' BY <2>2 DEF Versions
  <2>4. ReaderDomains' /\ WalkedIsCurrent'
    BY DEF ReaderDomains, WalkedIsCurrent, Walk
  <2>5. writer = "none" /\ ver[r] = cacheVer => result[r] = Walk(event[r])
    BY DEF WalkedIsCurrent
  <2>6. CacheIsCoherent' BY <2>2, <2>5 DEF CacheIsCoherent, Walk
  <2> QED BY <2>3, <2>4, <2>6
<1> QED BY <1>1, <1>2, <1>3, <1>4, <1>5, <1>6 DEF Match

LEMMA CacheStep == CacheInv /\ [Next]_vars => CacheInv'
<1>1. CacheInv /\ UNCHANGED vars => CacheInv'
  BY DEF CacheInv, vars, trieVars, writerVars, readerVars, Versions, ReaderDomains,
    WalkedIsCurrent, CacheIsCoherent, Walk
<1> QED BY <1>1, ChangeStep, MatchStep DEF Next

(* Match never goes on answering from the cache with a result from before  *)
(* a completed Add or Remove (matcher.go 231-264 against 158 and 217).     *)
THEOREM Coherent == Spec => []CacheIsCoherent
BY CacheInit, CacheStep, PTL DEF Spec, CacheInv

(***************************************************************************)
(* What a walk can reach.                                                  *)
(***************************************************************************)
Segments == {Star, DoubleStar} \cup UNION {ToSet(p) : p \in Patterns \cup EventTypes}

(* Below a node at depth d, x is what a walk for e can end at.             *)
Fits(e, d, x) ==
  \/ Len(x) = Len(e) /\ \A i \in d + 1 .. Len(e) : x[i] \in {e[i], Star}
  \/ /\ Len(x) \in d + 1 .. Len(e) + 1 /\ x[Len(x)] = DoubleStar
     /\ \A i \in d + 1 .. Len(x) - 1 : x[i] \in {e[i], Star}

Reach(e, n, x) == Below(n, x) /\ Fits(e, Len(n), x)

LEMMA AllSequences ==
  /\ Patterns \subseteq Seq(Segments) /\ EventTypes \subseteq Seq(Segments)
  /\ AllNodes \subseteq Seq(Segments)
<1>1. ASSUME NEW p \in Patterns \cup EventTypes PROVE p \in Seq(Segments)
  <2>1. p \in Seq(ToSet(p)) /\ ToSet(p) \subseteq Segments BY MatcherAssumption DEF Segments
  <2> QED BY <2>1
<1>2. ASSUME NEW p \in Patterns PROVE Paths(p) \subseteq Seq(Segments)
  BY <1>1, Cut DEF Paths
<1>3. << >> \in Seq(Segments) OBVIOUS
<1> QED BY <1>1, <1>2, <1>3 DEF AllNodes

LEMMA BelowAppended ==
  ASSUME NEW S, NEW n \in Seq(S), NEW x \in Seq(S), NEW s \in S
  PROVE  Below(Append(n, s), x) <=> Below(n, x) /\ Len(n) < Len(x) /\ x[Len(n) + 1] = s
<1> DEFINE m == Append(n, s)
<1>1. /\ Len(m) = Len(n) + 1 /\ m[Len(n) + 1] = s /\ \A i \in 1 .. Len(n) : m[i] = n[i]
      /\ Len(n) \in Nat /\ Len(x) \in Nat
  BY Appended
<1> HIDE DEF m
<1>2. Below(m, x) <=> Below(n, x) /\ Len(n) < Len(x) /\ x[Len(n) + 1] = s
  <2>1. ASSUME Below(m, x) PROVE Below(n, x) /\ Len(n) < Len(x) /\ x[Len(n) + 1] = s
    BY <1>1, <2>1 DEF Below
  <2>2. ASSUME Below(n, x), Len(n) < Len(x), x[Len(n) + 1] = s PROVE Below(m, x)
    BY <1>1, <2>2 DEF Below
  <2> QED BY <2>1, <2>2
<1> QED BY <1>2 DEF m

LEMMA BelowWhole ==
  ASSUME NEW S, NEW n \in Seq(S), NEW x \in Seq(S)
  PROVE  x = n <=> Below(n, x) /\ Len(x) = Len(n)
BY SameSequence DEF Below

LEMMA ReachEnd ==
  ASSUME NEW S, NEW e \in Seq(S), NEW n \in Seq(S), NEW x \in Seq(S), DoubleStar \in S,
         Len(n) = Len(e)
  PROVE  Reach(e, n, x) <=> x = n \/ x = Append(n, DoubleStar)
<1> DEFINE m == Append(n, DoubleStar)
<1>1. x = n <=> Below(n, x) /\ Len(x) = Len(n) BY BelowWhole
<1>2. m \in Seq(S) /\ Len(m) = Len(n) + 1 BY Appended
<1>3. Below(m, x) <=> Below(n, x) /\ Len(n) < Len(x) /\ x[Len(n) + 1] = DoubleStar
  BY BelowAppended
<1> HIDE DEF m
<1>4. x = m <=> Below(m, x) /\ Len(x) = Len(n) + 1 BY <1>2, BelowWhole
<1>5. Fits(e, Len(n), x) <=>
        \/ Len(x) = Len(n)
        \/ Len(x) = Len(n) + 1 /\ x[Len(n) + 1] = DoubleStar
  BY DEF Fits
<1>6. Reach(e, n, x) <=> x = n \/ x = m BY <1>1, <1>3, <1>4, <1>5 DEF Reach
<1> QED BY <1>6 DEF m

LEMMA FitsOn ==
  ASSUME NEW S, NEW e \in Seq(S), NEW x \in Seq(S), NEW d \in Nat, d < Len(e)
  PROVE  Fits(e, d, x) <=>
           \/ d < Len(x) /\ x[d + 1] \in {e[d + 1], Star} /\ Fits(e, d + 1, x)
           \/ Len(x) = d + 1 /\ x[d + 1] = DoubleStar
<1>1. Len(e) \in Nat /\ Len(x) \in Nat OBVIOUS
<1>2. ASSUME Fits(e, d, x), ~ (Len(x) = d + 1 /\ x[d + 1] = DoubleStar)
      PROVE  d < Len(x) /\ x[d + 1] \in {e[d + 1], Star} /\ Fits(e, d + 1, x)
  <2>1. CASE Len(x) = Len(e) /\ \A i \in d + 1 .. Len(e) : x[i] \in {e[i], Star}
    BY <1>1, <2>1 DEF Fits
  <2>2. CASE /\ Len(x) \in d + 1 .. Len(e) + 1 /\ x[Len(x)] = DoubleStar
             /\ \A i \in d + 1 .. Len(x) - 1 : x[i] \in {e[i], Star}
    <3>1. Len(x) > d + 1 BY <1>1, <1>2, <2>2
    <3> QED BY <1>1, <2>2, <3>1 DEF Fits
  <2> QED BY <1>2, <2>1, <2>2 DEF Fits
<1>3. ASSUME d < Len(x), x[d + 1] \in {e[d + 1], Star}, Fits(e, d + 1, x)
      PROVE  Fits(e, d, x)
  <2>1. \A i \in Int : i \in d + 1 .. Len(x) => i = d + 1 \/ i \in (d + 1) + 1 .. Len(x)
    BY <1>1
  <2>2. CASE Len(x) = Len(e) /\ \A i \in (d + 1) + 1 .. Len(e) : x[i] \in {e[i], Star}
    BY <1>1, <1>3, <2>1, <2>2 DEF Fits
  <2>3. CASE /\ Len(x) \in (d + 1) + 1 .. Len(e) + 1 /\ x[Len(x)] = DoubleStar
             /\ \A i \in (d + 1) + 1 .. Len(x) - 1 : x[i] \in {e[i], Star}
    BY <1>1, <1>3, <2>1, <2>3 DEF Fits
  <2> QED BY <1>3, <2>2, <2>3 DEF Fits
<1>4. ASSUME Len(x) = d + 1, x[d + 1] = DoubleStar PROVE Fits(e, d, x)
  BY <1>1, <1>4 DEF Fits
<1> QED BY <1>2, <1>3, <1>4

LEMMA ReachOn ==
  ASSUME NEW S, NEW e \in Seq(S), NEW n \in Seq(S), NEW x \in Seq(S),
         Star \in S, DoubleStar \in S, Len(n) < Len(e)
  PROVE  Reach(e, n, x) <=>
           \/ Reach(e, Append(n, e[Len(n) + 1]), x)
           \/ Reach(e, Append(n, Star), x)
           \/ x = Append(n, DoubleStar)
<1> DEFINE d == Len(n)
           own == e[Len(n) + 1]
<1>1. d \in Nat /\ d < Len(e) /\ own \in S OBVIOUS
<1>2. /\ Append(n, own) \in Seq(S) /\ Append(n, Star) \in Seq(S)
      /\ Append(n, DoubleStar) \in Seq(S)
      /\ Len(Append(n, own)) = d + 1 /\ Len(Append(n, Star)) = d + 1
      /\ Len(Append(n, DoubleStar)) = d + 1
  BY <1>1, Appended
<1>3. /\ Below(Append(n, own), x) <=> Below(n, x) /\ d < Len(x) /\ x[d + 1] = own
      /\ Below(Append(n, Star), x) <=> Below(n, x) /\ d < Len(x) /\ x[d + 1] = Star
      /\ Below(Append(n, DoubleStar), x)
           <=> Below(n, x) /\ d < Len(x) /\ x[d + 1] = DoubleStar
  BY <1>1, BelowAppended
<1>4. x = Append(n, DoubleStar) <=> Below(Append(n, DoubleStar), x) /\ Len(x) = d + 1
  BY <1>2, BelowWhole
<1>5. Fits(e, d, x) <=>
        \/ d < Len(x) /\ x[d + 1] \in {own, Star} /\ Fits(e, d + 1, x)
        \/ Len(x) = d + 1 /\ x[d + 1] = DoubleStar
  BY <1>1, FitsOn
<1>6. Len(x) = d + 1 => d < Len(x) BY <1>1
<1> HIDE DEF d, own
<1>7. Reach(e, n, x) <=>
        \/ Reach(e, Append(n, own), x)
        \/ Reach(e, Append(n, Star), x)
        \/ x = Append(n, DoubleStar)
  <2>1. Reach(e, n, x) <=> Below(n, x) /\ Fits(e, d, x) BY DEF Reach, d
  <2>2. Reach(e, Append(n, own), x) <=> Below(Append(n, own), x) /\ Fits(e, d + 1, x)
    BY <1>2 DEF Reach
  <2>3. Reach(e, Append(n, Star), x) <=> Below(Append(n, Star), x) /\ Fits(e, d + 1, x)
    BY <1>2 DEF Reach
  <2> QED BY <1>3, <1>4, <1>5, <1>6, <2>1, <2>2, <2>3
<1> QED BY <1>7 DEF own

(* A walk from the root can reach exactly what covers the event type.      *)
LEMMA ReachFromRoot ==
  ASSUME NEW S, NEW e \in Seq(S), NEW x \in Seq(S)
  PROVE  Reach(e, << >>, x) <=> Covers(x, e)
<1> DEFINE f == Front(x)
<1>1. Len(e) \in Nat /\ Len(x) \in Nat /\ Below(<< >>, x) BY DEF Below
<1>2. x # << >> <=> Len(x) > 0 OBVIOUS
<1>3. ASSUME Len(x) > 0
      PROVE  /\ f \in Seq(S) /\ Len(f) = Len(x) - 1 /\ f # x
             /\ \A i \in 1 .. Len(x) - 1 : f[i] = x[i]
  <2>1. Len(x) - 1 \in 0 .. Len(x) BY <1>1, <1>3
  <2>2. f \in Seq(S) /\ Len(f) = Len(x) - 1 /\ \A i \in 1 .. Len(x) - 1 : f[i] = x[i]
    BY <2>1, Cut DEF Front
  <2> QED BY <1>1, <2>2
<1>4. Last(x) = x[Len(x)] BY DEF Last
<1>5. Reach(e, << >>, x) <=> Fits(e, 0, x) BY <1>1 DEF Reach
<1> HIDE DEF f
<1>6. CASE Len(x) > 0 /\ x[Len(x)] = DoubleStar
  <2>1. Covers(x, e) <=> /\ Len(e) >= Len(x) - 1
                         /\ \A i \in 1 .. Len(x) - 1 : x[i] \in {e[i], Star}
    BY <1>2, <1>3, <1>4, <1>6 DEF Covers, f
  <2>2. Fits(e, 0, x) <=> /\ Len(e) >= Len(x) - 1
                          /\ \A i \in 1 .. Len(x) - 1 : x[i] \in {e[i], Star}
    BY <1>1, <1>6 DEF Fits
  <2> QED BY <1>5, <2>1, <2>2
<1>7. CASE ~ (Len(x) > 0 /\ x[Len(x)] = DoubleStar)
  <2>1. Covers(x, e) <=> Len(e) = Len(x) /\ \A i \in 1 .. Len(x) : x[i] \in {e[i], Star}
    BY <1>2, <1>4, <1>7 DEF Covers
  <2>2. Fits(e, 0, x) <=> Len(e) = Len(x) /\ \A i \in 1 .. Len(x) : x[i] \in {e[i], Star}
    BY <1>1, <1>7 DEF Fits
  <2> QED BY <1>5, <2>1, <2>2
<1> QED BY <1>6, <1>7

(***************************************************************************)
(* The walks.                                                              *)
(***************************************************************************)
(* Every prefix of a node is a node.                                       *)
Closed == \A n \in nodes : \A i \in 0 .. Len(n) : SubSeq(n, 1, i) \in nodes

TrieInv == << >> \in nodes /\ nodes \subseteq AllNodes /\ Closed

(* What a call of matchRecursive at the node n and the depth d answers,    *)
(* when g[<<m, d + 1>>] is what its own calls answer.                      *)
End(n) == IF IsEnd(n) THEN <<n>> ELSE << >>

Sub(e, g, n, d, seg) ==
  IF d < Len(e) /\ Append(n, seg) \in nodes THEN g[<<Append(n, seg), d + 1>>] ELSE << >>

Answer(e, g, n, d) ==
  IF d = Len(e) THEN End(n) \o End(Append(n, DoubleStar))
  ELSE Sub(e, g, n, d, e[d + 1]) \o Sub(e, g, n, d, Star) \o End(Append(n, DoubleStar))

IsWalk(e, g) ==
  g = [at \in nodes \X (0 .. Len(e)) |-> Answer(e, g, at[1], at[2])]

LEMMA EndIsNode ==
  \A n : /\ End(n) \in Seq(nodes) /\ ToSet(End(n)) = {x \in Live : x = n}
         /\ IsInjective(End(n))
<1>1. SUFFICES ASSUME NEW n
               PROVE  /\ End(n) \in Seq(nodes) /\ ToSet(End(n)) = {x \in Live : x = n}
                      /\ IsInjective(End(n))
  OBVIOUS
<1>2. CASE IsEnd(n)
  <2>1. End(n) = <<n>> /\ n \in Live BY <1>2 DEF End, Live, IsEnd
  <2>2. n \in nodes BY <1>2 DEF IsEnd
  <2>3. ToSet(<<n>>) = {n} /\ IsInjective(<<n>>) BY DEF ToSet, IsInjective
  <2> QED BY <2>1, <2>2, <2>3
<1>3. CASE ~ IsEnd(n)
  <2>1. End(n) = << >> /\ n \notin Live BY <1>3 DEF End, Live
  <2>2. ToSet(<< >>) = {} /\ IsInjective(<< >>) BY DEF ToSet, IsInjective
  <2> QED BY <2>1, <2>2
<1> QED BY <1>2, <1>3

LEMMA AnswerIsSequence ==
  ASSUME NEW e \in Seq(Segments), NEW g \in [nodes \X (0 .. Len(e)) -> Seq(nodes)],
         NEW n \in nodes, NEW d \in 0 .. Len(e)
  PROVE  Answer(e, g, n, d) \in Seq(nodes)
<1>1. \A m : End(m) \in Seq(nodes) BY EndIsNode
<1>2. ASSUME NEW seg PROVE Sub(e, g, n, d, seg) \in Seq(nodes)
  <2>1. CASE d < Len(e) /\ Append(n, seg) \in nodes
    <3>1. d + 1 \in 0 .. Len(e)
      <4>1. Len(e) \in Nat OBVIOUS
      <4> QED BY <2>1, <4>1
    <3>2. g[<<Append(n, seg), d + 1>>] \in Seq(nodes) BY <2>1, <3>1
    <3> QED BY <2>1, <3>2 DEF Sub
  <2>2. CASE ~ (d < Len(e) /\ Append(n, seg) \in nodes) BY <2>2 DEF Sub
  <2> QED BY <2>1, <2>2
<1>3. CASE d = Len(e) BY <1>1, <1>3 DEF Answer
<1>4. CASE d # Len(e)
  <2> DEFINE x == Sub(e, g, n, d, e[d + 1])
             y == Sub(e, g, n, d, Star)
             z == End(Append(n, DoubleStar))
  <2>1. x \in Seq(nodes) /\ y \in Seq(nodes) /\ z \in Seq(nodes) BY <1>1, <1>2, <1>4
  <2>2. Answer(e, g, n, d) = x \o y \o z BY <1>4 DEF Answer
  <2> HIDE DEF x, y, z
  <2> QED BY <2>1, <2>2
<1> QED BY <1>3, <1>4

LEMMA WalkIsWalk ==
  ASSUME NEW e \in Seq(Segments)
  PROVE  \E g : IsWalk(e, g) /\ Walk(e) = g[<<<< >>, 0>>]
<1> DEFINE N == Len(e)
           D == nodes \X (0 .. N)
           V == Seq(nodes)
           F == [g \in [D -> V] |-> [at \in D |-> Answer(e, g, at[1], at[2])]]
<1>1. N \in Nat /\ << >> \in V OBVIOUS
<1>2. ASSUME NEW g \in [D -> V] PROVE [at \in D |-> Answer(e, g, at[1], at[2])] \in [D -> V]
  <2>1. \A at \in D : Answer(e, g, at[1], at[2]) \in V BY <1>2, AnswerIsSequence
  <2> QED BY <2>1
<1>3. F \in [[D -> V] -> [D -> V]] BY <1>2
<1>4. ASSUME NEW g \in [D -> V], NEW h \in [D -> V], NEW n \in nodes, NEW d \in 0 .. N,
             d < N => \A m \in nodes : g[<<m, d + 1>>] = h[<<m, d + 1>>]
      PROVE  F[g][<<n, d>>] = F[h][<<n, d>>]
  <2>1. F[g][<<n, d>>] = Answer(e, g, n, d) /\ F[h][<<n, d>>] = Answer(e, h, n, d) OBVIOUS
  <2>2. \A seg : Sub(e, g, n, d, seg) = Sub(e, h, n, d, seg) BY <1>4 DEF Sub
  <2>3. Answer(e, g, n, d) = Answer(e, h, n, d) BY <2>2 DEF Answer
  <2> QED BY <2>1, <2>3
<1> HIDE DEF N
<1>5. PICK g \in [D -> V] : F[g] = g
  <2>1. \A g, h \in [D -> V] : \A n \in nodes : \A d \in 0 .. N :
           (d < N => \A m \in nodes : g[<<m, d + 1>>] = h[<<m, d + 1>>])
             => F[g][<<n, d>>] = F[h][<<n, d>>]
    BY <1>4
  <2>2. D = nodes \X (0 .. N) OBVIOUS
  <2> HIDE DEF F, V, D
  <2>3. Layered(F, nodes, N, D, V) BY <1>1, <1>3, <2>1, <2>2 DEF Layered
  <2>4. \E g \in [D -> V] : F[g] = g BY <2>3, RecursionSolved
  <2> QED BY <2>4
<1>6. IsWalk(e, g)
  <2>1. F[g] = [at \in D |-> Answer(e, g, at[1], at[2])] OBVIOUS
  <2> QED BY <1>5, <2>1 DEF IsWalk, N
<1> DEFINE w == CHOOSE h : IsWalk(e, h)
<1>7. IsWalk(e, w) BY <1>6
<1>8. Walk(e) = w[<<<< >>, 0>>] BY DEF Walk, WalkIn, IsWalk, Answer, Sub, End, IsEnd
<1> QED BY <1>7, <1>8

(* What is live and can be reached from n.                                 *)
Found(e, n) == {x \in Live : Reach(e, n, x)}

LEMMA LiveSequences ==
  TrieInv => /\ nodes \subseteq Seq(Segments) /\ Live \subseteq nodes
             /\ \A x \in Live : \A n \in nodes : \A s \in Segments :
                  Below(Append(n, s), x) => Append(n, s) \in nodes
<1>1. SUFFICES ASSUME TrieInv
               PROVE  /\ nodes \subseteq Seq(Segments) /\ Live \subseteq nodes
                      /\ \A x \in Live : \A n \in nodes : \A s \in Segments :
                           Below(Append(n, s), x) => Append(n, s) \in nodes
  OBVIOUS
<1>2. nodes \subseteq Seq(Segments) /\ Live \subseteq nodes
  BY <1>1, AllSequences DEF TrieInv, Live
<1>3. ASSUME NEW x \in Live, NEW n \in nodes, NEW s \in Segments, Below(Append(n, s), x)
      PROVE  Append(n, s) \in nodes
  <2> DEFINE m == Append(n, s)
  <2>1. m \in Seq(Segments) /\ x \in Seq(Segments) /\ x \in nodes BY <1>2, <1>3, Appended
  <2>2. Below(m, x) BY <1>3
  <2> HIDE DEF m
  <2>3. m = SubSeq(x, 1, Len(m)) /\ Len(m) <= Len(x) BY <2>1, <2>2, BelowIsPrefix
  <2>4. Len(m) \in 0 .. Len(x) BY <2>1, <2>3
  <2>5. m \in nodes BY <1>1, <2>1, <2>3, <2>4 DEF TrieInv, Closed
  <2> QED BY <2>5 DEF m
<1> QED BY <1>2, <1>3

(* One level of the walk.                                                  *)
LEMMA AnswerAtEnd ==
  ASSUME TrieInv, NEW e \in Seq(Segments), NEW g, NEW n \in nodes, Len(n) = Len(e)
  PROVE  /\ Answer(e, g, n, Len(n)) \in Seq(nodes)
         /\ ToSet(Answer(e, g, n, Len(n))) = Found(e, n)
         /\ IsInjective(Answer(e, g, n, Len(n)))
<1> DEFINE m == Append(n, DoubleStar)
           a == End(n)
           b == End(m)
<1>1. n \in Seq(Segments) /\ nodes \subseteq Seq(Segments) /\ Live \subseteq Seq(Segments)
      /\ DoubleStar \in Segments
  BY LiveSequences DEF Segments
<1>2. \A x \in Live : Reach(e, n, x) <=> x = n \/ x = m BY <1>1, ReachEnd
<1>3. n # m BY <1>1, Appended
<1>4. /\ a \in Seq(nodes) /\ ToSet(a) = {x \in Live : x = n} /\ IsInjective(a)
      /\ b \in Seq(nodes) /\ ToSet(b) = {x \in Live : x = m} /\ IsInjective(b)
  BY EndIsNode
<1>5. Answer(e, g, n, Len(n)) = a \o b BY DEF Answer
<1> HIDE DEF m, a, b
<1>6. ToSet(a) \cap ToSet(b) = {} BY <1>3, <1>4
<1>7. a \o b \in Seq(nodes) /\ ToSet(a \o b) = ToSet(a) \cup ToSet(b) /\ IsInjective(a \o b)
  BY <1>4, <1>6, ConcatIsInjective
<1>8. ToSet(a) \cup ToSet(b) = Found(e, n) BY <1>2, <1>4 DEF Found
<1> QED BY <1>5, <1>7, <1>8

LEMMA AnswerBelow ==
  ASSUME TrieInv, NEW e \in Seq(Segments), NEW g, NEW n \in nodes, Len(n) < Len(e),
         \A m \in nodes : Len(m) = Len(n) + 1 =>
           /\ g[<<m, Len(m)>>] \in Seq(nodes) /\ ToSet(g[<<m, Len(m)>>]) = Found(e, m)
           /\ IsExact(e) => IsInjective(g[<<m, Len(m)>>])
  PROVE  /\ Answer(e, g, n, Len(n)) \in Seq(nodes)
         /\ ToSet(Answer(e, g, n, Len(n))) = Found(e, n)
         /\ IsExact(e) => IsInjective(Answer(e, g, n, Len(n)))
<1> DEFINE d == Len(n)
           own == e[Len(n) + 1]
           m == Append(n, DoubleStar)
           a == Sub(e, g, n, Len(n), e[Len(n) + 1])
           b == Sub(e, g, n, Len(n), Star)
           c == End(m)
<1>1. /\ n \in Seq(Segments) /\ nodes \subseteq Seq(Segments) /\ Live \subseteq Seq(Segments)
      /\ Star \in Segments /\ DoubleStar \in Segments /\ own \in Segments /\ d \in Nat
  BY LiveSequences DEF Segments
<1>2. ASSUME NEW s \in Segments
      PROVE  /\ Sub(e, g, n, d, s) \in Seq(nodes)
             /\ ToSet(Sub(e, g, n, d, s)) = Found(e, Append(n, s))
             /\ IsExact(e) => IsInjective(Sub(e, g, n, d, s))
  <2> DEFINE k == Append(n, s)
  <2>1. k \in Seq(Segments) /\ Len(k) = d + 1 BY <1>1, Appended
  <2>2. CASE k \in nodes
    <3>1. Sub(e, g, n, d, s) = g[<<k, Len(k)>>] BY <2>1, <2>2 DEF Sub
    <3> HIDE DEF k
    <3> QED BY <2>1, <2>2, <3>1 DEF k
  <2>3. CASE k \notin nodes
    <3>1. Sub(e, g, n, d, s) = << >> BY <2>3 DEF Sub
    <3>2. \A x \in Live : ~ Below(k, x) BY <2>3, LiveSequences
    <3>3. Found(e, k) = {} BY <3>2 DEF Found, Reach
    <3>4. ToSet(<< >>) = {} /\ IsInjective(<< >>) BY DEF ToSet, IsInjective
    <3> QED BY <3>1, <3>3, <3>4
  <2> QED BY <2>2, <2>3
<1>3. /\ a \in Seq(nodes) /\ ToSet(a) = Found(e, Append(n, own))
      /\ b \in Seq(nodes) /\ ToSet(b) = Found(e, Append(n, Star))
      /\ IsExact(e) => IsInjective(a) /\ IsInjective(b)
  BY <1>1, <1>2
<1>4. c \in Seq(nodes) /\ ToSet(c) = {x \in Live : x = m} /\ IsInjective(c) BY EndIsNode
<1>5. Answer(e, g, n, d) = (a \o b) \o c
  <2>1. d # Len(e) OBVIOUS
  <2> QED BY <2>1, <1>3, <1>4 DEF Answer
<1>6. \A x \in Live : Reach(e, n, x) <=>
         \/ Reach(e, Append(n, own), x) \/ Reach(e, Append(n, Star), x) \/ x = m
  BY <1>1, ReachOn
<1>7. /\ \A x \in Found(e, Append(n, own)) : x[d + 1] = own
      /\ \A x \in Found(e, Append(n, Star)) : x[d + 1] = Star
      /\ m[d + 1] = DoubleStar
  <2>1. \A s \in Segments : \A x \in Found(e, Append(n, s)) : x[d + 1] = s
    BY <1>1, BelowAppended DEF Found, Reach
  <2> QED BY <1>1, <2>1, Appended
<1>8. ASSUME IsExact(e) PROVE own # Star /\ own # DoubleStar
  <2>1. d + 1 \in DOMAIN e BY <1>1
  <2> QED BY <1>8, <2>1 DEF IsExact, ToSet
<1> HIDE DEF a, b, c, d, own, m
<1>9. /\ a \o b \in Seq(nodes) /\ ToSet(a \o b) = ToSet(a) \cup ToSet(b)
      /\ (a \o b) \o c \in Seq(nodes)
      /\ ToSet((a \o b) \o c) = ToSet(a) \cup ToSet(b) \cup ToSet(c)
  <2>1. a \o b \in Seq(nodes) /\ ToSet(a \o b) = ToSet(a) \cup ToSet(b)
    BY <1>3, ConcatIsInjective
  <2> DEFINE ab == a \o b
  <2>2. ab \in Seq(nodes) BY <2>1
  <2> HIDE DEF ab
  <2>3. ab \o c \in Seq(nodes) /\ ToSet(ab \o c) = ToSet(ab) \cup ToSet(c)
    BY <1>4, <2>2, ConcatIsInjective
  <2> QED BY <2>1, <2>3 DEF ab
<1>10. ToSet(a) \cup ToSet(b) \cup ToSet(c) = Found(e, n) BY <1>3, <1>4, <1>6 DEF Found
<1>11. ASSUME IsExact(e) PROVE IsInjective((a \o b) \o c)
  <2>1. Star # DoubleStar BY MatcherAssumption
  <2>2. ToSet(a) \cap ToSet(b) = {} BY <1>3, <1>7, <1>8, <1>11
  <2>3. IsInjective(a \o b) BY <1>3, <1>11, <2>2, ConcatIsInjective
  <2>4. ToSet(a \o b) \cap ToSet(c) = {} BY <1>3, <1>4, <1>7, <1>8, <1>9, <1>11, <2>1
  <2> QED BY <1>4, <1>9, <2>3, <2>4, ConcatIsInjective
<1> QED BY <1>5, <1>9, <1>10, <1>11 DEF d

(* Match's walk finds each live pattern that covers e, and once unless e   *)
(* has a wildcard of its own.                                              *)
LEMMA WalkFinds ==
  ASSUME TrieInv, NEW e \in EventTypes
  PROVE  /\ Walk(e) \in Seq(nodes) /\ ToSet(Walk(e)) = CoveredIn(Live, e)
         /\ IsExact(e) => IsInjective(Walk(e))
<1>1. e \in Seq(Segments) /\ Len(e) \in Nat /\ nodes \subseteq Seq(Segments)
  BY AllSequences, LiveSequences
<1>2. PICK g : IsWalk(e, g) /\ Walk(e) = g[<<<< >>, 0>>] BY <1>1, WalkIsWalk
<1> DEFINE Right(n) == /\ g[<<n, Len(n)>>] \in Seq(nodes)
                       /\ ToSet(g[<<n, Len(n)>>]) = Found(e, n)
                       /\ IsExact(e) => IsInjective(g[<<n, Len(n)>>])
           S == {k \in Nat : \A n \in nodes : Len(n) + k = Len(e) => Right(n)}
<1>3. \A n \in nodes : Len(n) <= Len(e) => g[<<n, Len(n)>>] = Answer(e, g, n, Len(n))
  <2>1. SUFFICES ASSUME NEW n \in nodes, Len(n) <= Len(e)
                 PROVE  g[<<n, Len(n)>>] = Answer(e, g, n, Len(n))
    OBVIOUS
  <2>2. Len(n) \in 0 .. Len(e) BY <1>1, <2>1
  <2> QED BY <1>2, <2>2 DEF IsWalk
<1>4. 0 \in S
  <2>1. ASSUME NEW n \in nodes, Len(n) + 0 = Len(e) PROVE Right(n)
    <3>1. Len(n) = Len(e) BY <1>1, <2>1
    <3>2. Len(n) <= Len(e) BY <1>1, <3>1
    <3> QED BY <1>1, <1>3, <3>1, <3>2, AnswerAtEnd
  <2> HIDE DEF Right
  <2> QED BY <2>1
<1>5. ASSUME NEW k \in Nat, k \in S PROVE k + 1 \in S
  <2>1. ASSUME NEW n \in nodes, Len(n) + (k + 1) = Len(e) PROVE Right(n)
    <3>1. Len(n) < Len(e) /\ Len(n) <= Len(e) /\ Len(n) \in Nat BY <1>1, <2>1
    <3>2. ASSUME NEW m \in nodes, Len(m) = Len(n) + 1 PROVE Right(m)
      <4>1. Len(m) + k = Len(e) BY <1>1, <2>1, <3>1, <3>2
      <4> HIDE DEF Right
      <4> QED BY <1>5, <4>1
    <3> QED BY <1>1, <1>3, <3>1, <3>2, AnswerBelow
  <2> HIDE DEF Right
  <2> QED BY <2>1
<1>6. Len(e) \in S
  <2> HIDE DEF S
  <2> QED BY <1>1, <1>4, <1>5, InductionOverNat
<1>7. Right(<< >>)
  <2>1. << >> \in nodes /\ Len(<< >>) + Len(e) = Len(e) BY <1>1 DEF TrieInv
  <2> HIDE DEF Right
  <2> QED BY <1>6, <2>1
<1>8. Found(e, << >>) = CoveredIn(Live, e)
  <2>1. \A x \in Live : Reach(e, << >>, x) <=> Covers(x, e)
    BY <1>1, ReachFromRoot, LiveSequences
  <2> QED BY <2>1 DEF Found, CoveredIn
<1> QED BY <1>2, <1>7, <1>8

(* The same for hasMatchRecursive: what a call answers, and that g gives   *)
(* every call its answer.                                                  *)
HasAnswer(e, g, n, d) ==
  \/ d = Len(e) /\ IsEnd(n)
  \/ IsEnd(Append(n, DoubleStar))
  \/ /\ d < Len(e)
     /\ \E seg \in {e[d + 1], Star} :
          Append(n, seg) \in nodes /\ g[<<Append(n, seg), d + 1>>]

IsHasWalk(e, g) ==
  g = [at \in nodes \X (0 .. Len(e)) |-> HasAnswer(e, g, at[1], at[2])]

LEMMA HasWalkIsWalk ==
  ASSUME NEW e \in Seq(Segments)
  PROVE  \E g : IsHasWalk(e, g) /\ HasWalk(e) = g[<<<< >>, 0>>]
<1> DEFINE N == Len(e)
           D == nodes \X (0 .. N)
           V == BOOLEAN
           F == [g \in [D -> V] |-> [at \in D |-> HasAnswer(e, g, at[1], at[2])]]
<1>1. N \in Nat /\ V # {}
  <2>1. N \in Nat OBVIOUS
  <2>2. TRUE \in V OBVIOUS
  <2> HIDE DEF V, N
  <2> QED BY <2>1, <2>2
<1>2. ASSUME NEW g \in [D -> V] PROVE [at \in D |-> HasAnswer(e, g, at[1], at[2])] \in [D -> V]
  <2>1. \A at \in D : HasAnswer(e, g, at[1], at[2]) \in V BY DEF HasAnswer
  <2> QED BY <2>1
<1>3. F \in [[D -> V] -> [D -> V]] BY <1>2
<1>4. ASSUME NEW g \in [D -> V], NEW h \in [D -> V], NEW n \in nodes, NEW d \in 0 .. N,
             d < N => \A m \in nodes : g[<<m, d + 1>>] = h[<<m, d + 1>>]
      PROVE  F[g][<<n, d>>] = F[h][<<n, d>>]
  <2>1. F[g][<<n, d>>] = HasAnswer(e, g, n, d) /\ F[h][<<n, d>>] = HasAnswer(e, h, n, d)
    BY Zenon
  <2>2. HasAnswer(e, g, n, d) = HasAnswer(e, h, n, d)
    <3>1. HasAnswer(e, g, n, d) <=> HasAnswer(e, h, n, d) BY <1>4 DEF HasAnswer
    <3> QED BY <3>1 DEF HasAnswer
  <2> QED BY <2>1, <2>2
<1> HIDE DEF N
<1>5. PICK g \in [D -> V] : F[g] = g
  <2>1. \A g, h \in [D -> V] : \A n \in nodes : \A d \in 0 .. N :
           (d < N => \A m \in nodes : g[<<m, d + 1>>] = h[<<m, d + 1>>])
             => F[g][<<n, d>>] = F[h][<<n, d>>]
    BY <1>4
  <2>2. D = nodes \X (0 .. N) OBVIOUS
  <2> HIDE DEF F, V, D
  <2>3. Layered(F, nodes, N, D, V) BY <1>1, <1>3, <2>1, <2>2 DEF Layered
  <2>4. \E g \in [D -> V] : F[g] = g BY <2>3, RecursionSolved
  <2> QED BY <2>4
<1>6. IsHasWalk(e, g)
  <2>1. F[g] = [at \in D |-> HasAnswer(e, g, at[1], at[2])] OBVIOUS
  <2> QED BY <1>5, <2>1 DEF IsHasWalk, N
<1> DEFINE w == CHOOSE h : IsHasWalk(e, h)
<1>7. IsHasWalk(e, w) BY <1>6
<1>8. HasWalk(e) = w[<<<< >>, 0>>] BY DEF HasWalk, IsHasWalk, HasAnswer, IsEnd
<1> QED BY <1>7, <1>8

(* HasMatch's walk says whether a live pattern covers e.                   *)
LEMMA HasWalkFinds ==
  ASSUME TrieInv, NEW e \in EventTypes
  PROVE  HasWalk(e) <=> CoveredIn(Live, e) # {}
<1>1. /\ e \in Seq(Segments) /\ Len(e) \in Nat /\ nodes \subseteq Seq(Segments)
      /\ Live \subseteq Seq(Segments) /\ Star \in Segments /\ DoubleStar \in Segments
  BY AllSequences, LiveSequences DEF Segments
<1>2. PICK g : IsHasWalk(e, g) /\ HasWalk(e) = g[<<<< >>, 0>>] BY <1>1, HasWalkIsWalk
<1>3. \A n : IsEnd(n) <=> n \in Live BY DEF Live, IsEnd
<1> DEFINE Right(n) == g[<<n, Len(n)>>] <=> \E x \in Live : Reach(e, n, x)
           S == {k \in Nat : \A n \in nodes : Len(n) + k = Len(e) => Right(n)}
<1>4. ASSUME NEW n \in nodes, Len(n) <= Len(e)
      PROVE  g[<<n, Len(n)>>] = HasAnswer(e, g, n, Len(n))
  <2>1. Len(n) \in 0 .. Len(e) BY <1>1, <1>4
  <2> QED BY <1>2, <2>1 DEF IsHasWalk
<1>5. 0 \in S
  <2>1. ASSUME NEW n \in nodes, Len(n) + 0 = Len(e) PROVE Right(n)
    <3>1. Len(n) = Len(e) /\ Len(n) <= Len(e) BY <1>1, <2>1
    <3>2. HasAnswer(e, g, n, Len(n)) <=> n \in Live \/ Append(n, DoubleStar) \in Live
      BY <1>1, <1>3, <3>1 DEF HasAnswer
    <3>3. \A x \in Live : Reach(e, n, x) <=> x = n \/ x = Append(n, DoubleStar)
      BY <1>1, <3>1, ReachEnd
    <3>4. (\E x \in Live : Reach(e, n, x)) <=> n \in Live \/ Append(n, DoubleStar) \in Live
      BY <3>3
    <3> QED BY <1>4, <3>1, <3>2, <3>4
  <2> HIDE DEF Right
  <2> QED BY <2>1
<1>6. ASSUME NEW k \in Nat, k \in S PROVE k + 1 \in S
  <2>1. ASSUME NEW n \in nodes, Len(n) + (k + 1) = Len(e) PROVE Right(n)
    <3> DEFINE own == e[Len(n) + 1]
    <3>1. Len(n) < Len(e) /\ Len(n) <= Len(e) /\ Len(n) \in Nat /\ own \in Segments
      BY <1>1, <2>1
    <3>2. ASSUME NEW s \in Segments
          PROVE  Append(n, s) \in nodes /\ g[<<Append(n, s), Len(n) + 1>>]
                   <=> \E x \in Live : Reach(e, Append(n, s), x)
      <4> DEFINE m == Append(n, s)
      <4>1. Len(m) = Len(n) + 1 /\ Len(m) + k = Len(e) BY <1>1, <2>1, <3>1, Appended
      <4>2. m \in nodes => Right(m) BY <1>6, <4>1
      <4>3. \A x \in Live : Reach(e, m, x) => m \in nodes BY LiveSequences DEF Reach
      <4> HIDE DEF m
      <4>4. m \in nodes => (g[<<m, Len(n) + 1>>] <=> \E x \in Live : Reach(e, m, x))
        BY <4>1, <4>2
      <4>5. m \in nodes /\ g[<<m, Len(n) + 1>>] <=> \E x \in Live : Reach(e, m, x)
        BY <4>3, <4>4
      <4> QED BY <4>5 DEF m
    <3>3. \A x \in Live : Reach(e, n, x) <=>
            \/ Reach(e, Append(n, own), x) \/ Reach(e, Append(n, Star), x)
            \/ x = Append(n, DoubleStar)
      BY <1>1, <3>1, ReachOn
    <3>4. HasAnswer(e, g, n, Len(n)) <=>
            \/ Append(n, DoubleStar) \in Live
            \/ Append(n, own) \in nodes /\ g[<<Append(n, own), Len(n) + 1>>]
            \/ Append(n, Star) \in nodes /\ g[<<Append(n, Star), Len(n) + 1>>]
      BY <1>3, <3>1 DEF HasAnswer
    <3> HIDE DEF own
    <3>5. HasAnswer(e, g, n, Len(n)) <=>
            \/ Append(n, DoubleStar) \in Live
            \/ \E x \in Live : Reach(e, Append(n, own), x)
            \/ \E x \in Live : Reach(e, Append(n, Star), x)
      BY <1>1, <3>1, <3>2, <3>4
    <3>6. HasAnswer(e, g, n, Len(n)) <=> \E x \in Live : Reach(e, n, x) BY <3>3, <3>5
    <3> QED BY <1>4, <3>1, <3>6
  <2> HIDE DEF Right
  <2> QED BY <2>1
<1>7. Len(e) \in S
  <2> HIDE DEF S
  <2> QED BY <1>1, <1>5, <1>6, InductionOverNat
<1>8. Right(<< >>)
  <2>1. << >> \in nodes /\ Len(<< >>) + Len(e) = Len(e) BY <1>1 DEF TrieInv
  <2> HIDE DEF Right
  <2> QED BY <1>7, <2>1
<1>9. \A x \in Live : Reach(e, << >>, x) <=> Covers(x, e) BY <1>1, ReachFromRoot
<1> QED BY <1>2, <1>8, <1>9 DEF CoveredIn

(***************************************************************************)
(* The trie.                                                               *)
(***************************************************************************)
(* Every node but the root hangs on a node, and only nodes are counted.    *)
Rooted == \A n \in nodes \ {<< >>} : Front(n) \in nodes
Counted == \A n \in AllNodes \ nodes : ref[n] = 0

TidyInv == TypeInv /\ Rooted /\ Counted /\ TrieIsTidy

LEMMA BelowTransitive ==
  ASSUME NEW S, NEW a \in Seq(S), NEW b \in Seq(S), NEW c \in Seq(S), Below(a, b), Below(b, c)
  PROVE  Below(a, c)
BY DEF Below

LEMMA CutIsBelow ==
  ASSUME NEW S, NEW q \in Seq(S), NEW i \in 0 .. Len(q)
  PROVE  Below(SubSeq(q, 1, i), q)
BY Cut DEF Below

LEMMA RootedIsClosed == TypeInv /\ Rooted => TrieInv
<1>1. SUFFICES ASSUME TypeInv, Rooted PROVE TrieInv
  OBVIOUS
<1>2. nodes \subseteq Seq(Segments) /\ << >> \in nodes /\ nodes \subseteq AllNodes
  BY <1>1, AllSequences DEF TypeInv, TypeOK
<1> DEFINE S == {k \in Nat : \A n \in nodes : k <= Len(n) => SubSeq(n, 1, Len(n) - k) \in nodes}
<1>3. 0 \in S
  <2>1. ASSUME NEW n \in nodes PROVE SubSeq(n, 1, Len(n) - 0) \in nodes
    <3>1. n \in Seq(Segments) BY <1>2
    <3>2. SubSeq(n, 1, Len(n)) = n /\ Len(n) - 0 = Len(n) BY <3>1, CutWhole
    <3> QED BY <3>2
  <2> QED BY <2>1
<1>4. ASSUME NEW k \in Nat, k \in S PROVE k + 1 \in S
  <2>1. ASSUME NEW n \in nodes, k + 1 <= Len(n) PROVE SubSeq(n, 1, Len(n) - (k + 1)) \in nodes
    <3> DEFINE i == Len(n) - k
               m == SubSeq(n, 1, i)
    <3>1. n \in Seq(Segments) /\ Len(n) \in Nat BY <1>2
    <3>2. i \in 0 .. Len(n) /\ i > 0 /\ i - 1 \in 0 .. i /\ Len(n) - (k + 1) = i - 1
      BY <2>1, <3>1
    <3>3. m \in nodes BY <1>4, <2>1, <3>1
    <3> HIDE DEF i
    <3>4. m \in Seq(Segments) /\ Len(m) = i BY <3>1, <3>2, Cut
    <3>5. Front(m) = SubSeq(n, 1, i - 1)
      <4>1. SubSeq(m, 1, i - 1) = SubSeq(n, 1, i - 1) BY <3>1, <3>2, CutOfCut
      <4> HIDE DEF m
      <4> QED BY <3>4, <4>1 DEF Front
    <3> HIDE DEF m
    <3>6. m # << >> BY <3>2, <3>4
    <3> QED BY <1>1, <3>2, <3>3, <3>5, <3>6 DEF Rooted
  <2> QED BY <2>1
<1>5. Nat \subseteq S
  <2> HIDE DEF S
  <2> QED BY <1>3, <1>4, InductionOverNat
<1>6. ASSUME NEW n \in nodes, NEW i \in 0 .. Len(n) PROVE SubSeq(n, 1, i) \in nodes
  <2> DEFINE k == Len(n) - i
  <2>1. Len(n) \in Nat BY <1>2
  <2>2. k \in Nat /\ k <= Len(n) /\ Len(n) - k = i BY <2>1
  <2> HIDE DEF k
  <2>3. k \in S BY <1>5, <2>2
  <2>4. SubSeq(n, 1, Len(n) - k) \in nodes BY <2>2, <2>3
  <2> QED BY <2>2, <2>4
<1> QED BY <1>2, <1>6 DEF TrieInv, Closed

LEMMA PathOf ==
  ASSUME NEW p \in Patterns
  PROVE  /\ p \in Seq(Segments) /\ Len(p) \in Nat /\ p \in Paths(p) /\ Paths(p) \subseteq AllNodes
         /\ \A i \in 0 .. Len(p) : /\ SubSeq(p, 1, i) \in Seq(Segments)
                                   /\ Len(SubSeq(p, 1, i)) = i
         /\ \A x \in Paths(p) : /\ Len(x) \in 0 .. Len(p) /\ x = SubSeq(p, 1, Len(x))
                                /\ \A i \in 0 .. Len(x) : SubSeq(x, 1, i) \in Paths(p)
<1>1. p \in Seq(Segments) /\ Len(p) \in Nat BY AllSequences
<1>2. \A i \in 0 .. Len(p) : SubSeq(p, 1, i) \in Seq(Segments) /\ Len(SubSeq(p, 1, i)) = i
  BY <1>1, Cut
<1>3. p \in Paths(p)
  <2>1. p = SubSeq(p, 1, Len(p)) /\ Len(p) \in 0 .. Len(p) BY <1>1, CutWhole
  <2> QED BY <2>1 DEF Paths
<1>4. ASSUME NEW x \in Paths(p)
      PROVE  /\ Len(x) \in 0 .. Len(p) /\ x = SubSeq(p, 1, Len(x))
             /\ \A i \in 0 .. Len(x) : SubSeq(x, 1, i) \in Paths(p)
  <2>1. PICK k \in 0 .. Len(p) : x = SubSeq(p, 1, k) BY <1>4 DEF Paths
  <2>2. Len(x) = k BY <1>2, <2>1
  <2>3. \A i \in 0 .. k : SubSeq(x, 1, i) = SubSeq(p, 1, i) BY <1>1, <2>1, CutOfCut
  <2>4. \A i \in 0 .. k : i \in 0 .. Len(p) BY <1>1
  <2>5. \A i \in 0 .. k : SubSeq(p, 1, i) \in Paths(p) BY <2>4 DEF Paths
  <2> QED BY <2>1, <2>2, <2>3, <2>5
<1> QED BY <1>1, <1>2, <1>3, <1>4 DEF AllNodes

(* Add: the pattern becomes live, or stays so.                             *)
LEMMA AddStep ==
  ASSUME TidyInv, NEW p \in Patterns, AddToTrie(p)
  PROVE  Live' = Live \cup {p} /\ Rooted' /\ Counted' /\ TrieIsTidy'
<1>1. /\ nodes' = nodes \cup Paths(p) /\ ref' = [ref EXCEPT ![p] = ref[p] + 1]
      /\ ref \in [AllNodes -> Nat] /\ p \in AllNodes /\ p \in nodes'
      /\ nodes \subseteq AllNodes /\ nodes \subseteq Seq(Segments)
  <2>1. MaxRefs \in Nat BY MatcherAssumption
  <2>2. nodes \subseteq AllNodes /\ ref \in [AllNodes -> 0 .. MaxRefs]
    BY DEF TidyInv, TypeInv, TypeOK
  <2>3. nodes' = nodes \cup Paths(p) /\ ref' = [ref EXCEPT ![p] = ref[p] + 1]
    BY DEF AddToTrie
  <2>4. p \in Paths(p) /\ Paths(p) \subseteq AllNodes BY PathOf
  <2>5. ref \in [AllNodes -> Nat] BY <2>1, <2>2
  <2> QED BY <2>2, <2>3, <2>4, <2>5, AllSequences
<1>2. ref'[p] > 0 /\ \A n \in AllNodes \ {p} : ref'[n] = ref[n] BY <1>1
<1>3. \A n \in AllNodes : n \notin nodes => ref[n] = 0 BY DEF TidyInv, Counted
<1>4. nodes' \subseteq AllNodes BY <1>1, PathOf
<1>5. Live' = Live \cup {p}
  <2>1. ASSUME NEW n \in Live' PROVE n \in Live \cup {p}
    <3>1. n \in nodes' /\ ref'[n] > 0 BY DEF Live, IsEnd
    <3>2. CASE n # p
      <4>1. ref[n] > 0 /\ n \in AllNodes BY <1>2, <1>4, <3>1, <3>2
      <4>2. n \in nodes BY <1>3, <4>1
      <4> QED BY <4>1, <4>2 DEF Live, IsEnd
    <3> QED BY <3>2
  <2>2. ASSUME NEW n \in Live PROVE n \in Live'
    <3>1. n \in nodes /\ ref[n] > 0 BY DEF Live, IsEnd
    <3>2. n \in nodes' /\ ref'[n] > 0 BY <1>1, <1>2, <3>1
    <3> QED BY <3>2 DEF Live, IsEnd
  <2>3. p \in Live' BY <1>1, <1>2 DEF Live, IsEnd
  <2> QED BY <2>1, <2>2, <2>3
<1>6. Rooted'
  <2>1. SUFFICES ASSUME NEW n \in nodes', n # << >> PROVE Front(n) \in nodes'
    BY DEF Rooted
  <2>2. CASE n \in nodes BY <1>1, <2>1, <2>2 DEF TidyInv, Rooted
  <2>3. CASE n \in Paths(p)
    <3>1. n \in Seq(Segments) BY <2>3, PathOf, AllSequences
    <3>2. Len(n) - 1 \in 0 .. Len(n) BY <2>1, <3>1
    <3>3. Front(n) \in Paths(p) BY <2>3, <3>2, PathOf DEF Front
    <3> QED BY <1>1, <3>3
  <2> QED BY <1>1, <2>1, <2>2, <2>3
<1>7. Counted' BY <1>1, <1>2, <1>3 DEF Counted
<1>8. TrieIsTidy'
  <2>1. SUFFICES ASSUME NEW n \in nodes', n # << >> PROVE \E x \in Live' : IsPrefix(n, x)
    BY DEF TrieIsTidy
  <2>2. CASE n \in nodes BY <1>5, <2>1, <2>2 DEF TidyInv, TrieIsTidy
  <2>3. CASE n \in Paths(p)
    <3>1. /\ n \in Seq(Segments) /\ p \in Seq(Segments) /\ Len(n) \in 0 .. Len(p)
          /\ n = SubSeq(p, 1, Len(n))
      BY <2>3, PathOf, AllSequences
    <3>2. IsPrefix(n, p) BY <3>1, BelowIsPrefix
    <3> QED BY <1>5, <3>2
  <2> QED BY <1>1, <2>1, <2>2, <2>3
<1> QED BY <1>5, <1>6, <1>7, <1>8

(* The node at depth j on the path of p is of no more use once p is        *)
(* released: nobody counts on it, and it has no child off the path.        *)
Bare(p, j, refs) ==
  refs[SubSeq(p, 1, j)] = 0 /\ Children(SubSeq(p, 1, j)) \subseteq Paths(p)

(* Remove: no other pattern is touched.                                    *)
LEMMA RemoveStep ==
  ASSUME TidyInv, NEW p \in Patterns, RemoveFromTrie(p)
  PROVE  Live \ {p} \subseteq Live' /\ Live' \subseteq Live /\ Rooted' /\ Counted' /\ TrieIsTidy'
<1>1. TrieInv BY RootedIsClosed DEF TidyInv
<1>2. /\ p \in Seq(Segments) /\ Len(p) \in Nat /\ p \in nodes
      /\ nodes \subseteq AllNodes /\ nodes \subseteq Seq(Segments)
  <2>1. p \in nodes BY DEF RemoveFromTrie
  <2> QED BY <1>1, <2>1, PathOf, AllSequences DEF TrieInv
<1>3. \A j \in 0 .. Len(p) : /\ SubSeq(p, 1, j) \in nodes
                             /\ Len(SubSeq(p, 1, j)) = j
  BY <1>1, <1>2, PathOf DEF TrieInv, Closed
<1>4. /\ \A n \in AllNodes \ {p} : ref'[n] = ref[n]
      /\ ref'[p] \in Nat /\ (ref'[p] > 0 => ref[p] > 0)
  <2>1. MaxRefs \in Nat BY MatcherAssumption
  <2>2. ref \in [AllNodes -> 0 .. MaxRefs] BY DEF TidyInv, TypeInv, TypeOK
  <2>3. ref' = [ref EXCEPT ![p] = IF ref[p] > 0 THEN ref[p] - 1 ELSE ref[p]]
    BY DEF RemoveFromTrie, Released
  <2>4. ref[p] \in Nat BY <1>2, <2>1, <2>2
  <2> QED BY <1>2, <2>2, <2>3, <2>4
<1>5. /\ nodes' \subseteq nodes
      /\ \A n \in nodes : \/ n \in nodes'
                          \/ \E i \in 1 .. Len(p) : /\ n = SubSeq(p, 1, i)
                                                    /\ \A j \in i .. Len(p) : Bare(p, j, ref')
      /\ \A i \in 1 .. Len(p) : (\A j \in i .. Len(p) : Bare(p, j, ref'))
                                  => SubSeq(p, 1, i) \notin nodes'
  BY DEF RemoveFromTrie, Pruned, Bare
<1>6. ASSUME NEW n \in nodes, n \notin nodes'
      PROVE  /\ n \in Paths(p) /\ Len(n) \in 1 .. Len(p)
             /\ \A j \in Len(n) .. Len(p) : Bare(p, j, ref')
             /\ ref'[n] = 0
  <2>1. PICK i \in 1 .. Len(p) : /\ n = SubSeq(p, 1, i)
                                 /\ \A j \in i .. Len(p) : Bare(p, j, ref')
    BY <1>5, <1>6
  <2>2. i \in 0 .. Len(p) /\ i \in i .. Len(p) BY <1>2
  <2>3. Len(n) = i /\ n \in Paths(p) BY <1>3, <2>1, <2>2 DEF Paths
  <2>4. ref'[n] = 0 BY <2>1, <2>2 DEF Bare
  <2> QED BY <2>1, <2>3, <2>4
<1>7. Live' \subseteq Live
  <2>1. SUFFICES ASSUME NEW n \in Live' PROVE n \in Live
    OBVIOUS
  <2>2. n \in nodes /\ ref'[n] > 0 BY <1>5, <2>1 DEF Live, IsEnd
  <2>3. ref[n] > 0 BY <1>2, <1>4, <2>2
  <2> QED BY <2>2, <2>3 DEF Live, IsEnd
<1>8. Live \ {p} \subseteq Live'
  <2>1. SUFFICES ASSUME NEW n \in Live, n # p PROVE n \in Live'
    OBVIOUS
  <2>2. n \in nodes /\ ref[n] > 0 BY <2>1 DEF Live, IsEnd
  <2>3. ref'[n] > 0 BY <1>2, <1>4, <2>1, <2>2
  <2>4. n \in nodes' BY <1>6, <2>2, <2>3
  <2> QED BY <2>3, <2>4 DEF Live, IsEnd
<1>9. Counted'
  <2>1. SUFFICES ASSUME NEW n \in AllNodes, n \notin nodes' PROVE ref'[n] = 0
    BY DEF Counted
  <2>2. CASE n \in nodes BY <1>6, <2>1, <2>2
  <2>3. CASE n \notin nodes
    <3>1. ref[n] = 0 BY <2>1, <2>3 DEF TidyInv, Counted
    <3> QED BY <1>2, <1>4, <2>1, <2>3, <3>1
  <2> QED BY <2>2, <2>3
<1>10. Rooted'
  <2>1. SUFFICES ASSUME NEW n \in nodes', n # << >>, Front(n) \notin nodes' PROVE FALSE
    BY DEF Rooted
  <2> DEFINE f == Front(n)
  <2>2. n \in nodes /\ n \in Seq(Segments) /\ f \in nodes
    BY <1>2, <1>5, <2>1 DEF TidyInv, Rooted
  <2>3. n \in Children(f) BY <2>1, <2>2 DEF Children
  <2>4. Len(f) = Len(n) - 1 /\ Len(n) \in Nat
    <3>1. Len(n) - 1 \in 0 .. Len(n) BY <2>1, <2>2
    <3>2. Len(SubSeq(n, 1, Len(n) - 1)) = Len(n) - 1 BY <2>2, <3>1, Cut
    <3> QED BY <2>2, <3>2 DEF Front
  <2>5. /\ f \in Paths(p) /\ Len(f) \in 1 .. Len(p)
        /\ \A j \in Len(f) .. Len(p) : Bare(p, j, ref')
    BY <1>6, <2>1, <2>2
  <2> HIDE DEF f
  <2>6. f = SubSeq(p, 1, Len(f)) BY <2>5, PathOf
  <2>7. n \in Paths(p)
    <3>1. Len(f) \in Len(f) .. Len(p) BY <1>2, <2>5
    <3>2. Bare(p, Len(f), ref') BY <2>5, <3>1
    <3> QED BY <2>3, <2>6, <3>2 DEF Bare
  <2>8. Len(n) \in 1 .. Len(p) /\ n = SubSeq(p, 1, Len(n))
    <3>1. Len(n) \in 0 .. Len(p) /\ n = SubSeq(p, 1, Len(n)) BY <2>7, PathOf
    <3>2. Len(n) > 0 BY <2>1, <2>2
    <3> QED BY <3>1, <3>2
  <2>9. \A j \in Len(n) .. Len(p) : j \in Len(f) .. Len(p) BY <1>2, <2>4, <2>5
  <2> QED BY <1>5, <2>1, <2>5, <2>8, <2>9
<1>11. TrieIsTidy'
  <2>1. SUFFICES ASSUME NEW n \in nodes', n # << >> PROVE \E x \in Live' : IsPrefix(n, x)
    BY DEF TrieIsTidy
  <2>2. n \in nodes /\ n \in Seq(Segments) /\ Len(n) \in Nat /\ Len(n) > 0
    BY <1>2, <1>5, <2>1
  <2>3. Live \subseteq Seq(Segments) /\ Live' \subseteq Seq(Segments)
    BY <1>2, <1>7 DEF Live
  <2>4. \A x \in Live' : Below(n, x) => IsPrefix(n, x) BY <2>2, <2>3, BelowIsPrefix
  <2>5. PICK x \in Live : IsPrefix(n, x) BY <2>1, <2>2 DEF TidyInv, TrieIsTidy
  <2>6. CASE x \in Live' BY <2>5, <2>6
  <2>7. CASE x \notin Live'
    <3>1. x = p BY <1>8, <2>7
    <3>2. Below(n, p) /\ n = SubSeq(p, 1, Len(n)) /\ Len(n) \in 1 .. Len(p)
      BY <1>2, <2>2, <2>5, <3>1, BelowIsPrefix
    <3>3. PICK j \in Len(n) .. Len(p) : ~ Bare(p, j, ref') BY <1>5, <2>1, <3>2
    <3> DEFINE m == SubSeq(p, 1, j)
    <3>4. j \in 1 .. Len(p) /\ j \in 0 .. Len(p) /\ Len(n) \in 0 .. j BY <1>2, <3>2, <3>3
    <3>5. m \in nodes /\ m \in Seq(Segments) /\ Len(m) = j BY <1>2, <1>3, <3>4
    <3>6. Below(n, m)
      <4>1. SubSeq(m, 1, Len(n)) = n BY <1>2, <3>2, <3>4, CutOfCut
      <4> HIDE DEF m
      <4> QED BY <2>2, <3>4, <3>5, <4>1, BelowIsPrefix
    <3>7. CASE ref'[m] # 0
      <4>1. ref'[m] > 0
        <5>1. \A k \in AllNodes : ref[k] \in Nat
          <6>1. MaxRefs \in Nat BY MatcherAssumption
          <6> QED BY <6>1 DEF TidyInv, TypeInv, TypeOK
        <5>2. m \in AllNodes BY <1>2, <3>5
        <5> HIDE DEF m
        <5>3. ref'[m] \in Nat BY <1>4, <5>1, <5>2
        <5> QED BY <3>7, <5>3
      <4> HIDE DEF m
      <4>2. m \in nodes' BY <1>6, <3>5, <4>1
      <4>3. m \in Live' BY <4>1, <4>2 DEF Live, IsEnd
      <4> QED BY <2>4, <3>6, <4>3
    <3>8. CASE ref'[m] = 0
      <4>1. PICK c \in Children(m) : c \notin Paths(p) BY <3>3, <3>8 DEF Bare
      <4> HIDE DEF m
      <4>2. c \in nodes /\ c # << >> /\ Front(c) = m /\ c \in Seq(Segments)
        BY <1>2, <4>1 DEF Children
      <4>3. PICK y \in Live : IsPrefix(c, y) BY <4>2 DEF TidyInv, TrieIsTidy
      <4>4. y \in Seq(Segments) /\ Below(c, y) /\ c = SubSeq(y, 1, Len(c)) /\ Len(c) <= Len(y)
        BY <2>3, <4>2, <4>3, BelowIsPrefix
      <4>5. y # p
        <5>1. Len(c) \in 0 .. Len(y) BY <4>2, <4>4
        <5> QED BY <4>1, <4>4, <5>1 DEF Paths
      <4>6. Below(m, c)
        <5>1. Len(c) - 1 \in 0 .. Len(c) BY <4>2
        <5> QED BY <4>2, <5>1, CutIsBelow DEF Front
      <4>7. Below(n, y) BY <2>2, <3>5, <3>6, <4>2, <4>4, <4>6, BelowTransitive
      <4>8. y \in Live' BY <1>8, <4>5
      <4> QED BY <2>4, <4>7, <4>8
    <3> QED BY <3>7, <3>8
  <2> QED BY <2>6, <2>7
<1> QED BY <1>7, <1>8, <1>9, <1>10, <1>11

LEMMA TidyInit == Init => TidyInv
<1>1. << >> \in AllNodes BY DEF AllNodes
<1> QED BY <1>1, TypeInit DEF Init, TidyInv, Rooted, Counted, TrieIsTidy

LEMMA TidyStep == TidyInv /\ [Next]_vars => TidyInv'
<1>1. SUFFICES ASSUME TidyInv, [Next]_vars PROVE TidyInv'
  OBVIOUS
<1>2. TypeInv' BY <1>1, TypeStep DEF TidyInv
<1>3. ASSUME NEW p \in Patterns, AddToTrie(p) PROVE TidyInv'
  BY <1>1, <1>2, <1>3, AddStep DEF TidyInv
<1>4. ASSUME NEW p \in Patterns, RemoveFromTrie(p) PROVE TidyInv'
  BY <1>1, <1>2, <1>4, RemoveStep DEF TidyInv
<1>5. CASE UNCHANGED trieVars
  BY <1>1, <1>2, <1>5 DEF trieVars, TidyInv, Rooted, Counted, TrieIsTidy, Live, IsEnd
<1>6. UNCHANGED trieVars \/ \E p \in Patterns : AddToTrie(p) \/ RemoveFromTrie(p)
  BY <1>1 DEF Next, Change, Match, AddExact, RemoveExact, Bump, MatchStart, MatchExact,
     MatchVersion, MatchCache, MatchWalk, MatchStore, vars
<1> QED BY <1>3, <1>4, <1>5, <1>6

THEOREM Tidy == Spec => []TrieIsTidy
<1>1. TidyInv => TrieIsTidy BY DEF TidyInv
<1> QED BY TidyInit, TidyStep, <1>1, PTL DEF Spec

(***************************************************************************)
(* The exact patterns and the lookups.                                     *)
(***************************************************************************)
(* An exact entry stands for a live pattern, until Remove deletes it.      *)
ExactInv ==
  /\ \A e \in exact : IsExact(e) /\ (e \in Live \/ (writer = "removeExact" /\ e = changing))
  /\ writer = "addExact" => changing \in Live

LookInv == TidyInv /\ ExactInv

LEMMA LookInit == Init => LookInv
BY TidyInit DEF Init, LookInv, ExactInv

LEMMA LookStep == LookInv /\ [Next]_vars => LookInv'
<1>1. SUFFICES ASSUME LookInv, [Next]_vars PROVE ExactInv'
  BY TidyStep DEF LookInv
<1>2. ASSUME NEW p \in Patterns, AddToTrie(p) PROVE ExactInv'
  <2>1. Live' = Live \cup {p} BY <1>1, <1>2, AddStep DEF LookInv
  <2> QED BY <1>1, <1>2, <2>1 DEF AddToTrie, MayChange, LookInv, ExactInv
<1>3. ASSUME NEW p \in Patterns, RemoveFromTrie(p) PROVE ExactInv'
  <2>1. Live \ {p} \subseteq Live' BY <1>1, <1>3, RemoveStep DEF LookInv
  <2> QED BY <1>1, <1>3, <2>1 DEF RemoveFromTrie, MayChange, LookInv, ExactInv
<1>4. CASE AddExact \/ RemoveExact \/ Bump
  <2>1. Live' = Live BY <1>4 DEF AddExact, RemoveExact, Bump, trieVars, Live, IsEnd
  <2> QED BY <1>1, <1>4, <2>1 DEF AddExact, RemoveExact, Bump, LookInv, ExactInv
<1>5. CASE UNCHANGED <<trieVars, exact, writerVars>>
  BY <1>1, <1>5 DEF trieVars, writerVars, LookInv, ExactInv, Live, IsEnd
<1>6. \/ UNCHANGED <<trieVars, exact, writerVars>> \/ AddExact \/ RemoveExact \/ Bump
      \/ \E p \in Patterns : AddToTrie(p) \/ RemoveFromTrie(p)
  BY <1>1 DEF Next, Change, Match, MatchStart, MatchExact,
     MatchVersion, MatchCache, MatchWalk, MatchStore, vars
<1> QED BY <1>2, <1>3, <1>4, <1>5, <1>6

LEMMA ExactCoversItself ==
  ASSUME NEW S, NEW e \in Seq(S), IsExact(e)
  PROVE  Covers(e, e)
<1>1. e # << >> => Last(e) \in ToSet(e)
  <2>1. e # << >> => Len(e) \in DOMAIN e OBVIOUS
  <2> QED BY <2>1 DEF Last, ToSet
<1> QED BY <1>1 DEF Covers, IsExact

(* Both lookups find what they should, in a trie that no writer is about   *)
(* to change (matcher.go 266-293, 309-353).                                *)
THEOREM Lookups == Spec => []LookupsAgree
<1>1. LookInv => LookupsAgree
  <2>1. SUFFICES ASSUME LookInv, NEW e \in EventTypes
                 PROVE  /\ ToSet(Walk(e)) = CoveredIn(Live, e)
                        /\ IsExact(e) => IsInjective(Walk(e))
                        /\ writer = "none" => (HasMatch(e) <=> CoveredIn(Live, e) # {})
    BY DEF LookupsAgree
  <2>2. TrieInv BY <2>1, RootedIsClosed DEF LookInv, TidyInv
  <2>3. ASSUME writer = "none", e \in exact PROVE e \in CoveredIn(Live, e)
    <3>1. e \in Live /\ IsExact(e) BY <2>1, <2>3 DEF LookInv, ExactInv
    <3> QED BY <3>1, AllSequences, ExactCoversItself DEF CoveredIn
  <2> QED BY <2>2, <2>3, WalkFinds, HasWalkFinds DEF HasMatch
<1> QED BY LookInit, LookStep, <1>1, PTL DEF Spec

(***************************************************************************)
(* What a Match that races with the writer returns.                        *)
(***************************************************************************)
(* The answers that are in the cache or on their way there, each with the  *)
(* event type and the version it is for.                                   *)
Held ==
  {<<e, cache[e].ver, ToSet(cache[e].patterns)>> : e \in EventTypes}
    \cup {<<event[q], ver[q], ToSet(result[q])>> : q \in {r \in Readers : pc[r] = "store"}}

(* The history variables are kept while a Match runs.                      *)
Tracked ==
  /\ throughout = [r \in Readers |-> throughout[r]]
  /\ sometime = [r \in Readers |-> sometime[r]]
  /\ \A r \in Readers : pc[r] # "idle" =>
       /\ throughout[r] \subseteq CoveredIn(SurelyLive, event[r])
       /\ CoveredIn(MaybeLive, event[r]) \subseteq sometime[r]

(* An answer of the current version is right now.                          *)
CurrentIsRight ==
  \A h \in Held : h[2] = cacheVer =>
    CoveredIn(SurelyLive, h[1]) \subseteq h[3] /\ h[3] \subseteq CoveredIn(MaybeLive, h[1])

(* An answer of the version that a reader loaded is right for the reader.  *)
HitIsRight ==
  \A r \in Readers : pc[r] = "cache" =>
    \A h \in Held : h[1] = event[r] /\ h[2] = ver[r] =>
      throughout[r] \subseteq h[3] /\ h[3] \subseteq sometime[r]

RaceInv == Tracked /\ CurrentIsRight /\ HitIsRight /\ MatchIsSound

SoundInv == LookInv /\ CacheInv /\ RaceInv

LEMMA SoundInit == Init => SoundInv
<1>1. SUFFICES ASSUME Init PROVE RaceInv
  BY LookInit, CacheInit DEF SoundInv
<1>2. ToSet(<< >>) = {} BY DEF ToSet
<1>3. \A h \in Held : h[2] = -1 BY <1>1 DEF Init, Held, NoEntry
<1>4. CurrentIsRight BY <1>1, <1>3 DEF Init, CurrentIsRight
<1> QED BY <1>1, <1>2, <1>4 DEF Init, RaceInv, Tracked, HitIsRight, MatchIsSound

(* A change of the trie under the lock: no pattern but the one in work     *)
(* becomes live or stops being so.                                         *)
LEMMA TrieChange ==
  ASSUME SoundInv, NEW p \in Patterns, AddToTrie(p) \/ RemoveFromTrie(p)
  PROVE  RaceInv'
<1>1. writer = "none" /\ writer' # "none" /\ changing' = p
      /\ UNCHANGED <<cache, cacheVer, pc, event, ver, result>> /\ Observe
  BY DEF AddToTrie, RemoveFromTrie, MayChange, readerVars
<1>2. Live' \ {p} \subseteq Live /\ Live \subseteq Live' \cup {p}
  BY AddStep, RemoveStep DEF SoundInv, LookInv
<1>3. /\ SurelyLive' \subseteq SurelyLive /\ MaybeLive \subseteq MaybeLive'
  BY <1>1, <1>2 DEF SurelyLive, MaybeLive
<1>4. Held' = Held BY <1>1 DEF Held
<1>5. \A r \in Readers :
        /\ throughout'[r] = throughout[r] \cap SurelyLive'
        /\ sometime'[r] = IF pc[r] = "idle" THEN sometime[r]
                          ELSE sometime[r] \cup CoveredIn(MaybeLive', event[r])
  BY <1>1 DEF Observe
<1>6. Tracked'
  <2>1. /\ throughout' = [r \in Readers |-> throughout'[r]]
        /\ sometime' = [r \in Readers |-> sometime'[r]]
    BY <1>1 DEF Observe
  <2>2. ASSUME NEW r \in Readers, pc[r] # "idle"
        PROVE  /\ throughout'[r] \subseteq CoveredIn(SurelyLive', event[r])
               /\ CoveredIn(MaybeLive', event[r]) \subseteq sometime'[r]
    BY <1>5, <2>2 DEF SoundInv, RaceInv, Tracked, CoveredIn
  <2> QED BY <1>1, <2>1, <2>2 DEF Tracked
<1>7. CurrentIsRight' BY <1>1, <1>3, <1>4 DEF SoundInv, RaceInv, CurrentIsRight, CoveredIn
<1>8. HitIsRight'
  <2>1. SUFFICES ASSUME NEW r \in Readers, pc[r] = "cache", NEW h \in Held,
                        h[1] = event[r], h[2] = ver[r]
                 PROVE  throughout'[r] \subseteq h[3] /\ h[3] \subseteq sometime'[r]
    BY <1>1, <1>4 DEF HitIsRight
  <2>2. throughout[r] \subseteq h[3] /\ h[3] \subseteq sometime[r]
    BY <2>1 DEF SoundInv, RaceInv, HitIsRight
  <2> QED BY <1>5, <2>1, <2>2
<1>9. MatchIsSound' BY <1>1, <1>5 DEF SoundInv, RaceInv, MatchIsSound
<1> QED BY <1>6, <1>7, <1>8, <1>9 DEF RaceInv

LEMMA LateChange ==
  ASSUME SoundInv, AddExact \/ RemoveExact \/ Bump
  PROVE  RaceInv'
<1>1. UNCHANGED <<trieVars, cache, pc, event, ver, result, throughout, sometime>>
  BY DEF AddExact, RemoveExact, Bump, readerVars, history
<1>2. Live' = Live /\ Held' = Held BY <1>1 DEF trieVars, Live, IsEnd, Held
<1>3. SurelyLive \subseteq SurelyLive' /\ MaybeLive' \subseteq MaybeLive
  BY <1>2 DEF AddExact, RemoveExact, Bump, SurelyLive, MaybeLive
<1>4. Tracked' BY <1>1, <1>3 DEF SoundInv, RaceInv, Tracked, CoveredIn
<1>5. CurrentIsRight'
  <2>1. CASE AddExact \/ RemoveExact
    <3>1. SurelyLive' = SurelyLive /\ MaybeLive' = MaybeLive /\ cacheVer' = cacheVer
      BY <1>2, <2>1 DEF AddExact, RemoveExact, SurelyLive, MaybeLive
    <3> QED BY <1>2, <3>1 DEF SoundInv, RaceInv, CurrentIsRight
  <2>2. CASE Bump
    <3>1. \A h \in Held : h[2] <= cacheVer BY DEF SoundInv, CacheInv, Versions, Held
    <3>2. cacheVer' = cacheVer + 1 /\ cacheVer \in Nat
      BY <2>2 DEF Bump, SoundInv, CacheInv, Versions
    <3>3. \A h \in Held : h[2] # cacheVer'
      <4>1. \A h \in Held : h[2] \in Int BY DEF SoundInv, CacheInv, Versions, Held
      <4> QED BY <3>1, <3>2, <4>1
    <3> QED BY <1>2, <3>3 DEF CurrentIsRight
  <2> QED BY <2>1, <2>2
<1>6. HitIsRight' BY <1>1, <1>2 DEF SoundInv, RaceInv, HitIsRight
<1>7. MatchIsSound' BY <1>1 DEF SoundInv, RaceInv, MatchIsSound
<1> QED BY <1>4, <1>5, <1>6, <1>7 DEF RaceInv

(* A Match leaves to the writer what is the writer's.                      *)
Unmoved == UNCHANGED <<trieVars, cacheVer, writerVars>>

LEMMA UnmovedLive == Unmoved => /\ Live' = Live /\ SurelyLive' = SurelyLive
                                /\ MaybeLive' = MaybeLive
BY DEF Unmoved, trieVars, writerVars, Live, IsEnd, SurelyLive, MaybeLive

LEMMA StartRace ==
  ASSUME SoundInv, NEW r \in Readers, NEW e \in EventTypes, MatchStart(r, e)
  PROVE  RaceInv'
<1>1. /\ pc[r] = "idle" /\ pc'[r] = "exact" /\ event'[r] = e
      /\ throughout'[r] = CoveredIn(SurelyLive, e) /\ sometime'[r] = CoveredIn(MaybeLive, e)
      /\ \A q \in Readers \ {r} : /\ pc'[q] = pc[q] /\ event'[q] = event[q]
                                  /\ throughout'[q] = throughout[q]
                                  /\ sometime'[q] = sometime[q]
      /\ throughout' = [q \in Readers |-> throughout'[q]]
      /\ sometime' = [q \in Readers |-> sometime'[q]]
      /\ UNCHANGED <<cache, cacheVer, ver, result>>
  BY DEF MatchStart, SoundInv, CacheInv, ReaderDomains, RaceInv, Tracked
<1>2. Live' = Live /\ SurelyLive' = SurelyLive /\ MaybeLive' = MaybeLive
  BY UnmovedLive DEF MatchStart, Unmoved
<1>3. Held' \subseteq Held BY <1>1 DEF Held
<1>4. Tracked' BY <1>1, <1>2 DEF SoundInv, RaceInv, Tracked, CoveredIn
<1>5. CurrentIsRight' BY <1>1, <1>2, <1>3 DEF SoundInv, RaceInv, CurrentIsRight, CoveredIn
<1>6. HitIsRight' BY <1>1, <1>3 DEF SoundInv, RaceInv, HitIsRight
<1>7. MatchIsSound' BY <1>1 DEF SoundInv, RaceInv, MatchIsSound
<1> QED BY <1>4, <1>5, <1>6, <1>7 DEF RaceInv

(* A step that only moves r on, and perhaps sets its result.               *)
LEMMA ReaderMoves ==
  ASSUME SoundInv, NEW r \in Readers, Unmoved, UNCHANGED <<cache, event, ver, history>>,
         pc[r] # "idle", pc' = [pc EXCEPT ![r] = pc'[r]], pc'[r] \notin {"store", "cache"},
         \A q \in Readers \ {r} : result'[q] = result[q],
         pc'[r] = "idle" =>
           /\ ToSet(result'[r]) \subseteq sometime[r]
           /\ throughout[r] \subseteq ToSet(result'[r]) \/ result'[r] = <<event[r]>>
  PROVE  RaceInv'
<1>1. /\ \A q \in Readers \ {r} : pc'[q] = pc[q]
      /\ UNCHANGED <<cache, cacheVer, event, ver, throughout, sometime>>
  BY DEF Unmoved, history, SoundInv, CacheInv, ReaderDomains
<1>2. Live' = Live /\ SurelyLive' = SurelyLive /\ MaybeLive' = MaybeLive BY UnmovedLive
<1>3. Held' \subseteq Held BY <1>1 DEF Held
<1>4. Tracked' BY <1>1, <1>2 DEF SoundInv, RaceInv, Tracked, CoveredIn
<1>5. CurrentIsRight' BY <1>1, <1>2, <1>3 DEF SoundInv, RaceInv, CurrentIsRight, CoveredIn
<1>6. HitIsRight' BY <1>1, <1>3 DEF SoundInv, RaceInv, HitIsRight
<1>7. MatchIsSound' BY <1>1 DEF SoundInv, RaceInv, MatchIsSound
<1> QED BY <1>4, <1>5, <1>6, <1>7 DEF RaceInv

LEMMA ExactRace ==
  ASSUME SoundInv, NEW r \in Readers, MatchExact(r)
  PROVE  RaceInv'
<1>1. /\ Unmoved /\ UNCHANGED <<cache, event, ver, history>> /\ pc[r] = "exact"
      /\ pc' = [pc EXCEPT ![r] = pc'[r]]
      /\ \A q \in Readers \ {r} : result'[q] = result[q]
      /\ \/ pc'[r] = "idle" /\ event[r] \in exact /\ result'[r] = <<event[r]>>
         \/ pc'[r] = "version"
  BY DEF MatchExact, Return, Unmoved, SoundInv, CacheInv, ReaderDomains
<1>2. ASSUME pc'[r] = "idle"
      PROVE  ToSet(result'[r]) \subseteq sometime[r] /\ result'[r] = <<event[r]>>
  <2>1. event[r] \in exact /\ result'[r] = <<event[r]>> BY <1>1, <1>2
  <2>2. IsExact(event[r]) /\ event[r] \in MaybeLive
    BY <2>1 DEF SoundInv, LookInv, ExactInv, MaybeLive
  <2>3. event[r] \in Seq(Segments)
    BY <1>1, AllSequences DEF SoundInv, CacheInv, ReaderDomains
  <2>4. event[r] \in CoveredIn(MaybeLive, event[r]) BY <2>2, <2>3, ExactCoversItself DEF CoveredIn
  <2>5. event[r] \in sometime[r] BY <1>1, <2>4 DEF SoundInv, RaceInv, Tracked
  <2>6. ToSet(<<event[r]>>) = {event[r]} BY DEF ToSet
  <2> QED BY <2>1, <2>5, <2>6
<1> QED BY <1>1, <1>2, ReaderMoves

LEMMA VersionRace ==
  ASSUME SoundInv, NEW r \in Readers, MatchVersion(r)
  PROVE  RaceInv'
<1>1. /\ pc[r] = "version" /\ pc'[r] = "cache" /\ ver'[r] = cacheVer
      /\ \A q \in Readers \ {r} : pc'[q] = pc[q] /\ ver'[q] = ver[q]
      /\ UNCHANGED <<cache, cacheVer, event, result, throughout, sometime>>
  BY DEF MatchVersion, history, SoundInv, CacheInv, ReaderDomains, Versions
<1>2. Live' = Live /\ SurelyLive' = SurelyLive /\ MaybeLive' = MaybeLive
  BY UnmovedLive DEF MatchVersion, Unmoved
<1>3. Held' \subseteq Held BY <1>1 DEF Held
<1>4. Tracked' BY <1>1, <1>2 DEF SoundInv, RaceInv, Tracked, CoveredIn
<1>5. CurrentIsRight' BY <1>1, <1>2, <1>3 DEF SoundInv, RaceInv, CurrentIsRight, CoveredIn
<1>6. HitIsRight'
  <2>1. SUFFICES ASSUME NEW q \in Readers, pc'[q] = "cache", NEW h \in Held,
                        h[1] = event[q], h[2] = ver'[q]
                 PROVE  throughout[q] \subseteq h[3] /\ h[3] \subseteq sometime[q]
    BY <1>1, <1>3 DEF HitIsRight
  <2>2. CASE q # r BY <1>1, <2>1, <2>2 DEF SoundInv, RaceInv, HitIsRight
  <2>3. CASE q = r
    <3>1. /\ CoveredIn(SurelyLive, event[r]) \subseteq h[3]
          /\ h[3] \subseteq CoveredIn(MaybeLive, event[r])
      BY <1>1, <2>1, <2>3 DEF SoundInv, RaceInv, CurrentIsRight
    <3> QED BY <1>1, <2>3, <3>1 DEF SoundInv, RaceInv, Tracked
  <2> QED BY <2>2, <2>3
<1>7. MatchIsSound' BY <1>1 DEF SoundInv, RaceInv, MatchIsSound
<1> QED BY <1>4, <1>5, <1>6, <1>7 DEF RaceInv

LEMMA CacheRace ==
  ASSUME SoundInv, NEW r \in Readers, MatchCache(r)
  PROVE  RaceInv'
<1>1. /\ Unmoved /\ UNCHANGED <<cache, event, ver, history>> /\ pc[r] = "cache"
      /\ pc' = [pc EXCEPT ![r] = pc'[r]]
      /\ \A q \in Readers \ {r} : result'[q] = result[q]
      /\ \/ pc'[r] = "idle" /\ cache[event[r]].ver = ver[r]
            /\ result'[r] = cache[event[r]].patterns
         \/ pc'[r] = "walk"
  BY DEF MatchCache, Return, Unmoved, SoundInv, CacheInv, ReaderDomains
<1>2. ASSUME pc'[r] = "idle"
      PROVE  ToSet(result'[r]) \subseteq sometime[r] /\ throughout[r] \subseteq ToSet(result'[r])
  <2> DEFINE h == <<event[r], cache[event[r]].ver, ToSet(cache[event[r]].patterns)>>
  <2>1. event[r] \in EventTypes BY <1>1 DEF SoundInv, CacheInv, ReaderDomains
  <2>2. h \in Held BY <2>1 DEF Held
  <2>3. h[1] = event[r] /\ h[2] = ver[r] /\ h[3] = ToSet(result'[r]) BY <1>1, <1>2
  <2> HIDE DEF h
  <2> QED BY <1>1, <2>2, <2>3 DEF SoundInv, RaceInv, HitIsRight
<1> QED BY <1>1, <1>2, ReaderMoves

(* A walk answers from the trie as it is, which is right for everybody who *)
(* is on the way.                                                          *)
LEMMA WalkRace ==
  ASSUME SoundInv, NEW r \in Readers, MatchWalk(r)
  PROVE  RaceInv'
<1>1. /\ pc[r] = "walk" /\ writer = "none" /\ pc'[r] = "store" /\ result'[r] = Walk(event[r])
      /\ \A q \in Readers \ {r} : pc'[q] = pc[q] /\ result'[q] = result[q]
      /\ UNCHANGED <<cache, cacheVer, event, ver, throughout, sometime>>
  BY DEF MatchWalk, history, SoundInv, CacheInv, ReaderDomains
<1>2. Live' = Live /\ SurelyLive' = SurelyLive /\ MaybeLive' = MaybeLive
  BY UnmovedLive DEF MatchWalk, Unmoved
<1>3. SurelyLive = Live /\ MaybeLive = Live BY <1>1 DEF SurelyLive, MaybeLive
<1>4. ToSet(Walk(event[r])) = CoveredIn(Live, event[r])
  <2>1. event[r] \in EventTypes BY <1>1 DEF SoundInv, CacheInv, ReaderDomains
  <2>2. TrieInv BY RootedIsClosed DEF SoundInv, LookInv, TidyInv
  <2> QED BY <2>1, <2>2, WalkFinds
<1> DEFINE new == <<event[r], ver[r], CoveredIn(Live, event[r])>>
<1>5. Held' \subseteq Held \cup {new} BY <1>1, <1>4 DEF Held
<1>6. new[1] = event[r] /\ new[2] = ver[r] /\ new[3] = CoveredIn(Live, event[r]) OBVIOUS
<1> HIDE DEF new
<1>7. \A q \in Readers : pc[q] # "idle" =>
         /\ throughout[q] \subseteq CoveredIn(Live, event[q])
         /\ CoveredIn(Live, event[q]) \subseteq sometime[q]
  BY <1>3 DEF SoundInv, RaceInv, Tracked
<1>8. Tracked' BY <1>1, <1>2 DEF SoundInv, RaceInv, Tracked, CoveredIn
<1>9. CurrentIsRight'
  BY <1>1, <1>2, <1>3, <1>5, <1>6 DEF SoundInv, RaceInv, CurrentIsRight, CoveredIn
<1>10. HitIsRight'
  <2>1. SUFFICES ASSUME NEW q \in Readers, pc'[q] = "cache", NEW h \in Held \cup {new},
                        h[1] = event[q], h[2] = ver[q]
                 PROVE  throughout[q] \subseteq h[3] /\ h[3] \subseteq sometime[q]
    BY <1>1, <1>5 DEF HitIsRight
  <2>2. pc[q] = "cache" BY <1>1, <2>1
  <2>3. CASE h \in Held BY <2>1, <2>2, <2>3 DEF SoundInv, RaceInv, HitIsRight
  <2>4. CASE h = new BY <1>6, <1>7, <2>1, <2>2, <2>4
  <2> QED BY <2>1, <2>3, <2>4
<1>11. MatchIsSound' BY <1>1, <1>4, <1>7 DEF SoundInv, RaceInv, MatchIsSound
<1> QED BY <1>8, <1>9, <1>10, <1>11 DEF RaceInv

LEMMA StoreRace ==
  ASSUME SoundInv, NEW r \in Readers, MatchStore(r)
  PROVE  RaceInv'
<1>1. /\ pc[r] = "store" /\ pc'[r] = "idle"
      /\ \A q \in Readers \ {r} : pc'[q] = pc[q]
      /\ UNCHANGED <<cacheVer, event, ver, result, throughout, sometime>>
  BY DEF MatchStore, history, SoundInv, CacheInv, ReaderDomains
<1>2. Live' = Live /\ SurelyLive' = SurelyLive /\ MaybeLive' = MaybeLive
  BY UnmovedLive DEF MatchStore, Unmoved
<1>3. Held' \subseteq Held
  <2>1. \A e \in EventTypes :
          cache'[e] = IF e = event[r] THEN [ver |-> ver[r], patterns |-> result[r]]
                      ELSE cache[e]
    BY DEF MatchStore, SoundInv, CacheInv, Versions
  <2>2. ASSUME NEW e \in EventTypes
        PROVE  <<e, cache'[e].ver, ToSet(cache'[e].patterns)>> \in Held
    <3>1. CASE e = event[r]
      <4>1. cache'[e].ver = ver[r] /\ cache'[e].patterns = result[r] BY <2>1, <3>1
      <4> QED BY <1>1, <3>1, <4>1 DEF Held
    <3>2. CASE e # event[r] BY <2>1, <3>2 DEF Held
    <3> QED BY <3>1, <3>2
  <2> QED BY <1>1, <2>2 DEF Held
<1>4. Tracked' BY <1>1, <1>2 DEF SoundInv, RaceInv, Tracked, CoveredIn
<1>5. CurrentIsRight' BY <1>1, <1>2, <1>3 DEF SoundInv, RaceInv, CurrentIsRight, CoveredIn
<1>6. HitIsRight' BY <1>1, <1>3 DEF SoundInv, RaceInv, HitIsRight
<1>7. MatchIsSound' BY <1>1 DEF SoundInv, RaceInv, MatchIsSound
<1> QED BY <1>4, <1>5, <1>6, <1>7 DEF RaceInv

LEMMA SoundStep == SoundInv /\ [Next]_vars => SoundInv'
<1>1. SUFFICES ASSUME SoundInv, [Next]_vars PROVE RaceInv'
  BY LookStep, CacheStep DEF SoundInv
<1>2. CASE Change BY <1>1, <1>2, TrieChange, LateChange DEF Change
<1>3. ASSUME NEW r \in Readers, Match(r) PROVE RaceInv'
  BY <1>1, <1>3, StartRace, ExactRace, VersionRace, CacheRace, WalkRace, StoreRace DEF Match
<1>4. CASE UNCHANGED vars
  <2>1. Held' = Held /\ Unmoved
    BY <1>4 DEF vars, trieVars, writerVars, readerVars, Held, Unmoved
  <2>2. Live' = Live /\ SurelyLive' = SurelyLive /\ MaybeLive' = MaybeLive
    BY <2>1, UnmovedLive
  <2> QED BY <1>1, <1>4, <2>1, <2>2
      DEF vars, readerVars, history, SoundInv, RaceInv, Tracked, CurrentIsRight, HitIsRight,
          MatchIsSound, CoveredIn
<1> QED BY <1>1, <1>2, <1>3, <1>4 DEF Next

(* A Match that races with Add and Remove returns no pattern that was not  *)
(* live at some time of the call and misses none that was live all through *)
(* it, except that an exact pattern stands alone (matcher.go 221-264       *)
(* against 125-218).                                                       *)
THEOREM Sound == Spec => []MatchIsSound
<1>1. SoundInv => MatchIsSound BY DEF SoundInv, RaceInv
<1> QED BY SoundInit, SoundStep, <1>1, PTL DEF Spec
=============================================================================
