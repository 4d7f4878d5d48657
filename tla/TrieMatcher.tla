---------------------------- MODULE TrieMatcher ----------------------------
(***************************************************************************)
(* The pattern matcher of core/matcher.go: a trie of patterns under a      *)
(* reader-writer lock, a set of exact patterns and a cache of results that *)
(* Match reads without the lock, and a version that invalidates the cache. *)
(*                                                                         *)
(* A pattern, an event type and a trie node are sequences of segments: the *)
(* node reached by a path is named by that path, its isEnd flag is a       *)
(* positive reference count, and its pattern field is its name.            *)
(***************************************************************************)
EXTENDS Integers, Sequences, FiniteSets, SequencesExt

CONSTANTS
  Patterns,    \* the patterns that are added and removed
  EventTypes,  \* the event types that are looked up
  Star,        \* the segment "*"
  DoubleStar,  \* the segment "**"
  MaxDepth,    \* maxTrieDepth, 16 in the code
  Readers,     \* goroutines that call Match
  MaxRefs,     \* bound of the model: no Add beyond so many references
  MaxVer       \* bound of the model: no Add or Remove once cacheVer is MaxVer

ASSUME MatcherAssumption ==
  /\ \A p \in Patterns \cup EventTypes : p \in Seq(ToSet(p))
  /\ Star # DoubleStar
  /\ MaxDepth \in Nat
  /\ MaxRefs \in Nat /\ MaxVer \in Nat

VARIABLES
  nodes,     \* the nodes of the trie
  ref,       \* ref[n]: the reference count of node n
  exact,     \* the patterns in the sync.Map exact
  cache,     \* cache[e]: the entry for e, a record or NoEntry
  cacheVer,
  writer,    \* where the holder of the write lock is, "none" if nobody holds it
  changing,  \* the pattern the writer works on
  pc,        \* pc[r]: where reader r is in Match
  event,     \* event[r]: what r looks up
  ver,       \* ver[r]: the version r loaded
  result,    \* result[r]: what r's last Match returned
  throughout, \* history: the matching patterns live all through r's Match
  sometime    \* history: the matching patterns live at some time of it

trieVars == <<nodes, ref>>
writerVars == <<writer, changing>>
readerVars == <<pc, event, ver, result>>
history == <<throughout, sometime>>
vars == <<trieVars, exact, cache, cacheVer, writerVars, readerVars, history>>

NoEntry == [ver |-> -1, patterns |-> << >>]

IsExact(p) == Star \notin ToSet(p) /\ DoubleStar \notin ToSet(p)

(* The patterns that Add does not turn away for their depth, and all the   *)
(* nodes they can need.                                                    *)
Accepted == {p \in Patterns : Len(p) <= MaxDepth}
Paths(p) == {SubSeq(p, 1, i) : i \in 0 .. Len(p)}
AllNodes == {<< >>} \cup UNION {Paths(p) : p \in Patterns}

Children(n) == {c \in nodes : c # << >> /\ Front(c) = n}
IsEnd(n) == n \in nodes /\ ref[n] > 0

(* matchRecursive, as a function of the node and the depth, in the trie of *)
(* the nodes ns with the reference counts rs.                              *)
WalkIn(ns, rs, parts) ==
  LET End(n) == IF n \in ns /\ rs[n] > 0 THEN <<n>> ELSE << >>
      found[at \in ns \X (0 .. Len(parts))] ==
        LET n == at[1]
            d == at[2]
            Sub(seg) == IF d < Len(parts) /\ Append(n, seg) \in ns
                          THEN found[<<Append(n, seg), d + 1>>] ELSE << >>
            Rest == End(Append(n, DoubleStar))
        IN IF d = Len(parts) THEN End(n) \o Rest
           ELSE Sub(parts[d + 1]) \o Sub(Star) \o Rest
  IN found[<<<< >>, 0>>]

Walk(parts) == WalkIn(nodes, ref, parts)

(* Mutant: once the segment has a child of its own, "*" is not tried.      *)
HasWalkCommits(parts) ==
  LET has[at \in nodes \X (0 .. Len(parts))] ==
        LET n == at[1]
            d == at[2]
            own == Append(n, parts[d + 1])
        IN \/ d = Len(parts) /\ IsEnd(n)
           \/ IsEnd(Append(n, DoubleStar))
           \/ /\ d < Len(parts)
              /\ IF own \in nodes THEN has[<<own, d + 1>>]
                 ELSE Append(n, Star) \in nodes /\ has[<<Append(n, Star), d + 1>>]
  IN has[<<<< >>, 0>>]

(* hasMatchRecursive.                                                      *)
HasWalk(parts) ==
  LET has[at \in nodes \X (0 .. Len(parts))] ==
        LET n == at[1]
            d == at[2]
        IN \/ d = Len(parts) /\ IsEnd(n)
           \/ IsEnd(Append(n, DoubleStar))
           \/ /\ d < Len(parts)
              /\ \E seg \in {parts[d + 1], Star} :
                   Append(n, seg) \in nodes /\ has[<<Append(n, seg), d + 1>>]
  IN has[<<<< >>, 0>>]

(* HasMatch, by a caller that no writer disturbs.                          *)
HasMatch(e) == e \in exact \/ HasWalk(e)

Init ==
  /\ nodes = {<< >>}
  /\ ref = [n \in AllNodes |-> 0]
  /\ exact = {}
  /\ cache = [e \in EventTypes |-> NoEntry]
  /\ cacheVer = 0
  /\ writer = "none" /\ changing = << >>
  /\ pc = [r \in Readers |-> "idle"]
  /\ event = [r \in Readers |-> << >>]
  /\ ver = [r \in Readers |-> 0]
  /\ result = [r \in Readers |-> << >>]
  /\ throughout = [r \in Readers |-> {}]
  /\ sometime = [r \in Readers |-> {}]
-----------------------------------------------------------------------------
(* What a pattern matches, segment by segment: "*" stands for one segment, *)
(* a final "**" for any number of them.                                    *)
Covers(p, e) ==
  LET q == IF p # << >> /\ Last(p) = DoubleStar THEN Front(p) ELSE p IN
    /\ IF q = p THEN Len(e) = Len(q) ELSE Len(e) >= Len(q)
    /\ \A i \in 1 .. Len(q) : q[i] \in {e[i], Star}

Live == {p \in nodes : IsEnd(p)}

(* A pattern counts as live for sure while no writer works on it, and as   *)
(* possibly live while one does.                                           *)
SurelyLive == IF writer = "none" THEN Live ELSE Live \ {changing}
MaybeLive == IF writer = "none" THEN Live ELSE Live \cup {changing}
CoveredIn(live, e) == {p \in live : Covers(p, e)}

Observe ==
  /\ throughout' = [r \in Readers |-> throughout[r] \cap SurelyLive']
  /\ sometime' = [r \in Readers |->
                    IF pc[r] = "idle" THEN sometime[r]
                    ELSE sometime[r] \cup CoveredIn(MaybeLive, event[r])']
-----------------------------------------------------------------------------
(* Add and Remove hold the write lock; readers see exact and cacheVer      *)
(* change one after the other.                                             *)
MayChange(p) == writer = "none" /\ cacheVer < MaxVer /\ p \in Accepted

AddToTrie(p) ==
  /\ MayChange(p) /\ ref[p] < MaxRefs
  /\ nodes' = nodes \cup Paths(p)
  /\ ref' = [ref EXCEPT ![p] = @ + 1]
  /\ writer' = "addExact" /\ changing' = p
  /\ UNCHANGED <<exact, cache, cacheVer, readerVars>>
  /\ Observe

AddExact ==
  /\ writer = "addExact"
  /\ exact' = IF IsExact(changing) THEN exact \cup {changing} ELSE exact
  /\ writer' = "bump"
  /\ UNCHANGED <<trieVars, cache, cacheVer, changing, readerVars, history>>

Released(p) == [ref EXCEPT ![p] = IF @ > 0 THEN @ - 1 ELSE @]

(* Mutant: only the last node of the removed pattern is cleaned up.        *)
PrunedLeafOnly(p, refs) ==
  IF refs[p] = 0 /\ Children(p) = {} THEN nodes \ {p} ELSE nodes

(* The loop from the removed node upwards deletes the nodes that have no   *)
(* reference and no child left.                                            *)
Pruned(p, refs) ==
  LET bare(i) == /\ refs[SubSeq(p, 1, i)] = 0
                 /\ Children(SubSeq(p, 1, i)) \subseteq Paths(p)
      cut == {i \in 1 .. Len(p) : \A j \in i .. Len(p) : bare(j)}
  IN nodes \ {SubSeq(p, 1, i) : i \in cut}

RemoveFromTrie(p) ==
  /\ MayChange(p) /\ p \in nodes
  /\ ref' = Released(p)
  /\ nodes' = Pruned(p, ref')
  /\ writer' = "removeExact" /\ changing' = p
  /\ UNCHANGED <<exact, cache, cacheVer, readerVars>>
  /\ Observe

RemoveExact ==
  /\ writer = "removeExact"
  /\ exact' = exact \ {changing}
  /\ writer' = "bump"
  /\ UNCHANGED <<trieVars, cache, cacheVer, changing, readerVars, history>>

Bump ==
  /\ writer = "bump"
  /\ cacheVer' = cacheVer + 1
  /\ writer' = "none" /\ changing' = << >>
  /\ UNCHANGED <<trieVars, exact, cache, readerVars, history>>
-----------------------------------------------------------------------------
(* Match.                                                                  *)
Return(r, patterns) ==
  /\ result' = [result EXCEPT ![r] = patterns]
  /\ pc' = [pc EXCEPT ![r] = "idle"]

MatchStart(r, e) ==
  /\ pc[r] = "idle"
  /\ event' = [event EXCEPT ![r] = e]
  /\ pc' = [pc EXCEPT ![r] = "exact"]
  /\ throughout' = [throughout EXCEPT ![r] = CoveredIn(SurelyLive, e)]
  /\ sometime' = [sometime EXCEPT ![r] = CoveredIn(MaybeLive, e)]
  /\ UNCHANGED <<trieVars, exact, cache, cacheVer, writerVars, ver, result>>

MatchExact(r) ==
  /\ pc[r] = "exact"
  /\ \/ /\ event[r] \in exact
        /\ Return(r, <<event[r]>>)
     \/ /\ event[r] \notin exact
        /\ pc' = [pc EXCEPT ![r] = "version"]
        /\ UNCHANGED result
  /\ UNCHANGED <<trieVars, exact, cache, cacheVer, writerVars, event, ver, history>>

MatchVersion(r) ==
  /\ pc[r] = "version"
  /\ ver' = [ver EXCEPT ![r] = cacheVer]
  /\ pc' = [pc EXCEPT ![r] = "cache"]
  /\ UNCHANGED <<trieVars, exact, cache, cacheVer, writerVars, event, result, history>>

(* Mutant: an entry of any version is a hit.                               *)
MatchCacheAnyVersion(r) ==
  /\ pc[r] = "cache"
  /\ \/ /\ cache[event[r]] # NoEntry
        /\ Return(r, cache[event[r]].patterns)
     \/ /\ cache[event[r]] = NoEntry
        /\ pc' = [pc EXCEPT ![r] = "walk"]
        /\ UNCHANGED result
  /\ UNCHANGED <<trieVars, exact, cache, cacheVer, writerVars, event, ver, history>>

MatchCache(r) ==
  /\ pc[r] = "cache"
  /\ \/ /\ cache[event[r]].ver = ver[r]
        /\ Return(r, cache[event[r]].patterns)
     \/ /\ cache[event[r]].ver # ver[r]
        /\ pc' = [pc EXCEPT ![r] = "walk"]
        /\ UNCHANGED result
  /\ UNCHANGED <<trieVars, exact, cache, cacheVer, writerVars, event, ver, history>>

(* The walk holds the read lock: no writer is inside.                      *)
MatchWalk(r) ==
  /\ pc[r] = "walk" /\ writer = "none"
  /\ result' = [result EXCEPT ![r] = Walk(event[r])]
  /\ pc' = [pc EXCEPT ![r] = "store"]
  /\ UNCHANGED <<trieVars, exact, cache, cacheVer, writerVars, event, ver, history>>

(* Mutant: the entry gets the version of the moment it is stored.          *)
MatchStoreLateVersion(r) ==
  /\ pc[r] = "store"
  /\ cache' = [cache EXCEPT ![event[r]] = [ver |-> cacheVer, patterns |-> result[r]]]
  /\ pc' = [pc EXCEPT ![r] = "idle"]
  /\ UNCHANGED <<trieVars, exact, cacheVer, writerVars, event, ver, result, history>>

MatchStore(r) ==
  /\ pc[r] = "store"
  /\ cache' = [cache EXCEPT ![event[r]] = [ver |-> ver[r], patterns |-> result[r]]]
  /\ pc' = [pc EXCEPT ![r] = "idle"]
  /\ UNCHANGED <<trieVars, exact, cacheVer, writerVars, event, ver, result, history>>
-----------------------------------------------------------------------------
Change ==
  \/ \E p \in Patterns : AddToTrie(p) \/ RemoveFromTrie(p)
  \/ AddExact
  \/ RemoveExact
  \/ Bump

Match(r) ==
  \/ \E e \in EventTypes : MatchStart(r, e)
  \/ MatchExact(r)
  \/ MatchVersion(r)
  \/ MatchCache(r)
  \/ MatchWalk(r)
  \/ MatchStore(r)

Next == Change \/ \E r \in Readers : Match(r)

Spec == Init /\ [][Next]_vars
-----------------------------------------------------------------------------
(* Types.                                                                  *)
TypeOK ==
  /\ << >> \in nodes /\ nodes \subseteq AllNodes
  /\ ref \in [AllNodes -> 0 .. MaxRefs]
  /\ exact \subseteq Patterns
  /\ \A e \in EventTypes : cache[e].ver \in -1 .. MaxVer
  /\ cacheVer \in 0 .. MaxVer
  /\ writer \in {"none", "addExact", "removeExact", "bump"}
  /\ pc \in [Readers -> {"idle", "exact", "version", "cache", "walk", "store"}]
  /\ ver \in [Readers -> 0 .. MaxVer]

(* Both walks answer for the patterns there are: Match's finds each one    *)
(* that covers the event type, and once unless the event type has a "*" or *)
(* "**" of its own; HasMatch's, which stops at the first hit, says yes     *)
(* exactly when there is one (matcher.go 266-293, 309-353). The exact set  *)
(* HasMatch begins with holds live patterns, but not all: Remove deletes   *)
(* the entry of a pattern that still has references, and Match then merges *)
(* the wildcards that matcher_test.go 39-40 leaves out (matcher.go 212-215).*)
LookupsAgree ==
  \A e \in EventTypes :
    /\ ToSet(Walk(e)) = CoveredIn(Live, e)
    /\ IsExact(e) => IsInjective(Walk(e))
    /\ writer = "none" => (HasMatch(e) <=> CoveredIn(Live, e) # {})

(* A cache entry of the current version is what a walk would find: Match   *)
(* never goes on returning a result from before a completed change         *)
(* (matcher.go 233-243, 256-261 against 158, 217).                         *)
CacheIsCoherent ==
  writer = "none" =>
    \A e \in EventTypes :
      cache[e].ver = cacheVer => cache[e].patterns = Walk(e)

(* A Match racing with Add and Remove returns no pattern that was not live *)
(* at some time of the call, and misses none that was live all through it, *)
(* except that an exact pattern stands alone (matcher_test.go 39-40).      *)
MatchIsSound ==
  \A r \in Readers :
    pc[r] \in {"idle", "store"} =>
      /\ ToSet(result[r]) \subseteq sometime[r]
      /\ throughout[r] \subseteq ToSet(result[r]) \/ result[r] = <<event[r]>>

(* Remove leaves no dead branch behind: every node but the root is on the  *)
(* way to a live pattern (matcher.go 200-208, "prevents memory leaks").    *)
TrieIsTidy ==
  \A n \in nodes \ {<< >>} : \E p \in Live : IsPrefix(n, p)
=============================================================================
