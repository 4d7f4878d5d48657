------------------------- MODULE FlowSubscriptions -------------------------
(***************************************************************************)
(* The subscriptions of the flow bus (flow/bus.go): On and Off replace a   *)
(* copy-on-write snapshot with a compare-and-swap loop, without a mutex,   *)
(* and change the matcher outside that swap; a consumer loads the snapshot *)
(* once for its batch and dispatches by one of three paths.                *)
(*                                                                         *)
(* The snapshot is the list of subscriptions, its handlers, singleKey and  *)
(* hasWildcard are functions of the list. The swap compares pointers, so   *)
(* the model numbers the snapshots. The matcher is as in Subscriptions.    *)
(***************************************************************************)
EXTENDS Delivery

CONSTANTS
  Changers,    \* goroutines that call On and Off
  Consumers    \* goroutines that dispatch events

ASSUME FlowSubscriptionsAssumption == Changers \cap Consumers = {}

VARIABLES
  gen,      \* the number of the current snapshot
  old,      \* old[c]: the snapshot that c loaded, with its number
  removed   \* history: removed[i], how often i's Off called Remove, up to 2

Nothing == [gen |-> -1, list |-> << >>]

flowHistory == <<sure, gone, removed>>
flowVars == <<subs, gen, matcherVars, nextId, pc, arg, old, pat, called, flowHistory,
          throughout, sometime>>

FlowInit ==
  /\ subs = << >> /\ gen = 0
  /\ ref = [p \in Patterns |-> 0]
  /\ exact = {}
  /\ nextId = 0
  /\ pc = [c \in Changers \cup Consumers |-> "idle"]
  /\ arg = [c \in Changers \cup Consumers |-> IF c \in Changers THEN 0 ELSE "none"]
  /\ old = [c \in Changers \cup Consumers |-> Nothing]
  /\ pat = [i \in Ids |-> "none"]
  /\ called = [c \in Consumers |-> << >>]
  /\ sure = {} /\ gone = {}
  /\ removed = [i \in Ids |-> 0]
  /\ throughout = [c \in Consumers |-> {}]
  /\ sometime = [c \in Consumers |-> {}]
-----------------------------------------------------------------------------
(* buildFlowSnapshot.                                                      *)
PatternsOf(list) == {pat[i] : i \in ToSet(list)}
HandlersOf(list, p) ==
  FlattenSeq([j \in DOMAIN list |-> IF pat[list[j]] = p THEN <<list[j]>> ELSE << >>])
HasWildcard(list) == PatternsOf(list) \cap Wildcards # {}
HasSingleKey(list) == ~HasWildcard(list) /\ Cardinality(PatternsOf(list)) = 1

(* The list without the place where Off found i.                           *)
CutOut(s, i) == RemoveAt(s, CHOOSE j \in DOMAIN s : s[j] = i)

FlowWatch == Observe(Consumers, {c \in Consumers : pc[c] # "idle"})

FlowReturn(c) ==
  /\ pc' = [pc EXCEPT ![c] = "idle"]
  /\ arg' = [arg EXCEPT ![c] = 0]
  /\ old' = [old EXCEPT ![c] = Nothing]
-----------------------------------------------------------------------------
(* The trie's mutex is free: nobody is in the middle of Add or Remove.     *)
TrieIsFree == \A c \in Changers : pc[c] \notin {"onCount", "offCount"}

(* On: matcher.Add, which may give up at the pattern's depth, then the     *)
(* loop of load and swap.                                                  *)
FlowOnAdd(c, p) ==
  /\ pc[c] = "idle" /\ nextId < MaxId /\ TrieIsFree
  /\ nextId' = nextId + 1
  /\ pat' = [pat EXCEPT ![nextId'] = p]
  /\ arg' = [arg EXCEPT ![c] = nextId']
  /\ exact' = exact \cup ({p} \ (Wildcards \cup TooDeep))
  /\ pc' = [pc EXCEPT ![c] = "onCount"]
  /\ UNCHANGED <<subs, gen, ref, old, called, flowHistory>>
  /\ FlowWatch

OnCount(c) ==
  /\ pc[c] = "onCount"
  /\ ref' = [ref EXCEPT ![pat[arg[c]]] = IF pat[arg[c]] \in TooDeep THEN @ ELSE @ + 1]
  /\ pc' = [pc EXCEPT ![c] = "onLoad"]
  /\ UNCHANGED <<subs, gen, exact, nextId, arg, old, pat, called, flowHistory,
                 throughout, sometime>>

OnLoad(c) ==
  /\ pc[c] = "onLoad"
  /\ old' = [old EXCEPT ![c] = [gen |-> gen, list |-> subs]]
  /\ pc' = [pc EXCEPT ![c] = "onSwap"]
  /\ UNCHANGED <<subs, gen, matcherVars, nextId, arg, pat, called, flowHistory,
                 throughout, sometime>>

(* Mutant: the new snapshot is stored without the comparison.              *)
OnSwapStores(c) ==
  /\ pc[c] = "onSwap"
  /\ subs' = Append(old[c].list, arg[c]) /\ gen' = gen + 1
  /\ sure' = sure \cup {arg[c]}
  /\ FlowReturn(c)
  /\ UNCHANGED <<matcherVars, nextId, pat, called, gone, removed>>
  /\ FlowWatch

OnSwap(c) ==
  /\ pc[c] = "onSwap"
  /\ \/ /\ gen = old[c].gen
        /\ subs' = Append(old[c].list, arg[c]) /\ gen' = gen + 1
        /\ sure' = sure \cup {arg[c]}
        /\ FlowReturn(c)
     \/ /\ gen # old[c].gen
        /\ pc' = [pc EXCEPT ![c] = "onLoad"]
        /\ UNCHANGED <<subs, gen, sure, arg, old>>
  /\ UNCHANGED <<matcherVars, nextId, pat, called, gone, removed>>
  /\ FlowWatch
-----------------------------------------------------------------------------
(* Off: the loop of load, matcher.Remove and swap; it begins with its      *)
(* first load. Two goroutines may call it for the same subscription.       *)
Removers == {c \in Changers : pc[c] \in {"offLoad", "offRemove", "offCount", "offSwap"}}

CountRemove(c) == removed' = [removed EXCEPT ![arg[c]] = IF @ < 2 THEN @ + 1 ELSE 2]

Look(c, i) ==
  \/ /\ i \in ToSet(subs)
     /\ arg' = [arg EXCEPT ![c] = i]
     /\ old' = [old EXCEPT ![c] = [gen |-> gen, list |-> subs]]
     /\ pc' = [pc EXCEPT ![c] = "offRemove"]
     /\ UNCHANGED gone
  \/ /\ i \notin ToSet(subs)
     /\ gone' = gone \cup {i}
     /\ FlowReturn(c)

FlowOffStart(c, i) ==
  /\ pc[c] = "idle" /\ i \in sure \cup gone \cup {arg[d] : d \in Removers}
  /\ Look(c, i)
  /\ sure' = sure \ {i}
  /\ UNCHANGED <<subs, gen, matcherVars, nextId, pat, called, removed>>
  /\ FlowWatch

OffLoad(c) ==
  /\ pc[c] = "offLoad"
  /\ Look(c, arg[c])
  /\ UNCHANGED <<subs, gen, matcherVars, nextId, pat, called, sure, removed>>
  /\ FlowWatch

(* TrieMatcher.Remove deletes the exact entry with the first reference.    *)
FlowOffRemove(c) ==
  /\ pc[c] = "offRemove" /\ TrieIsFree
  /\ exact' = exact \ {pat[arg[c]]}
  /\ pc' = [pc EXCEPT ![c] = "offCount"]
  /\ UNCHANGED <<subs, gen, ref, nextId, arg, old, pat, called, flowHistory,
                 throughout, sometime>>

(* Mutant: Off takes all the references of the pattern.                    *)
FlowOffCountAll(c) ==
  /\ pc[c] = "offCount"
  /\ ref' = [ref EXCEPT ![pat[arg[c]]] = 0]
  /\ pc' = [pc EXCEPT ![c] = "offSwap"]
  /\ CountRemove(c)
  /\ UNCHANGED <<subs, gen, exact, nextId, arg, old, pat, called, sure, gone,
                 throughout, sometime>>

FlowOffCount(c) ==
  /\ pc[c] = "offCount"
  /\ ref' = [ref EXCEPT ![pat[arg[c]]] = IF @ > 0 THEN @ - 1 ELSE 0]
  /\ pc' = [pc EXCEPT ![c] = "offSwap"]
  /\ CountRemove(c)
  /\ UNCHANGED <<subs, gen, exact, nextId, arg, old, pat, called, sure, gone,
                 throughout, sometime>>

OffSwap(c) ==
  /\ pc[c] = "offSwap"
  /\ \/ /\ gen = old[c].gen
        /\ subs' = CutOut(old[c].list, arg[c]) /\ gen' = gen + 1
        /\ gone' = gone \cup {arg[c]}
        /\ FlowReturn(c)
     \/ /\ gen # old[c].gen
        /\ pc' = [pc EXCEPT ![c] = "offLoad"]
        /\ UNCHANGED <<subs, gen, gone, arg, old>>
  /\ UNCHANGED <<matcherVars, nextId, pat, called, sure, removed>>
  /\ FlowWatch
-----------------------------------------------------------------------------
(* The dispatch of one event by processBatch or processSingle: the paths   *)
(* for a single exact pattern, for exact patterns only and for wildcards.  *)
DispatchLoad(c, e) ==
  /\ pc[c] = "idle"
  /\ arg' = [arg EXCEPT ![c] = e]
  /\ throughout' = [throughout EXCEPT ![c] = sure]
  /\ sometime' = [sometime EXCEPT ![c] = MaybeThere]
  /\ \/ /\ HasWildcard(subs)
        /\ old' = [old EXCEPT ![c] = [gen |-> gen, list |-> subs]]
        /\ pc' = [pc EXCEPT ![c] = "match"]
        /\ UNCHANGED called
     \/ /\ ~HasWildcard(subs)
        /\ called' = [called EXCEPT ![c] =
                        IF HasSingleKey(subs) THEN subs ELSE HandlersOf(subs, e)]
        /\ pc' = [pc EXCEPT ![c] = "called"]
        /\ UNCHANGED old
  /\ UNCHANGED <<subs, gen, matcherVars, nextId, pat, flowHistory>>

(* Mutant: each handler is called for every matched pattern.               *)
HandleRepeats(c, patterns) ==
  /\ called' = [called EXCEPT ![c] = FlattenSeq([j \in DOMAIN patterns |-> old[c].list])]
  /\ old' = [old EXCEPT ![c] = Nothing]
  /\ pc' = [pc EXCEPT ![c] = "called"]

(* What follows when Match has answered.                                   *)
Handle(c, patterns) ==
  /\ called' = [called EXCEPT ![c] =
                  FlattenSeq([j \in DOMAIN patterns |-> HandlersOf(old[c].list, patterns[j])])]
  /\ old' = [old EXCEPT ![c] = Nothing]
  /\ pc' = [pc EXCEPT ![c] = "called"]

DispatchExact(c) ==
  /\ pc[c] = "match"
  /\ \/ arg[c] \in exact /\ Handle(c, <<arg[c]>>)
     \/ /\ arg[c] \notin exact
        /\ pc' = [pc EXCEPT ![c] = "merge"]
        /\ UNCHANGED <<called, old>>
  /\ UNCHANGED <<subs, gen, matcherVars, nextId, arg, pat, flowHistory, throughout, sometime>>

DispatchMerge(c) ==
  /\ pc[c] = "merge"
  /\ Handle(c, Merged(arg[c]))
  /\ UNCHANGED <<subs, gen, matcherVars, nextId, arg, pat, flowHistory, throughout, sometime>>

DispatchReturn(c) ==
  /\ pc[c] = "called"
  /\ pc' = [pc EXCEPT ![c] = "idle"]
  /\ arg' = [arg EXCEPT ![c] = "none"]
  /\ called' = [called EXCEPT ![c] = << >>]
  /\ throughout' = [throughout EXCEPT ![c] = {}]
  /\ sometime' = [sometime EXCEPT ![c] = {}]
  /\ UNCHANGED <<subs, gen, matcherVars, nextId, old, pat, flowHistory>>
-----------------------------------------------------------------------------
FlowOn(c) == (\E p \in Patterns : FlowOnAdd(c, p)) \/ OnCount(c) \/ OnLoad(c) \/ OnSwap(c)
FlowOff(c) ==
  \/ \E i \in Ids : FlowOffStart(c, i)
  \/ OffLoad(c) \/ FlowOffRemove(c) \/ FlowOffCount(c) \/ OffSwap(c)
Dispatch(c) ==
  \/ \E e \in EventTypes : DispatchLoad(c, e)
  \/ DispatchExact(c)
  \/ DispatchMerge(c)
  \/ DispatchReturn(c)

FlowNext ==
  \/ \E c \in Changers : FlowOn(c) \/ FlowOff(c)
  \/ \E c \in Consumers : Dispatch(c)

FlowSpec == FlowInit /\ [][FlowNext]_flowVars
-----------------------------------------------------------------------------
(* The handlers an event of consumer c is for.                             *)
FlowAddressed(c) == {i \in Ids : pat[i] \in Covering[arg[c]]}

(* However On and Off race, none undoes the other: what On returned is in  *)
(* the snapshot until its Off, and what Off returned for is out of it for  *)
(* good (flow/bus.go 450-462, 470-492).                                    *)
NoLostUpdate ==
  /\ sure \subseteq ToSet(subs)
  /\ gone \cap ToSet(subs) = {}

(* An event reaches no handler twice, none whose Off had returned before   *)
(* its dispatch, and none of a pattern that does not cover it, except that *)
(* the handlers of a snapshot's only pattern get events of every type      *)
(* (flow/bus.go 322-328 does not look at evt.Type).                        *)
DispatchIsSound ==
  \A c \in Consumers :
    pc[c] = "called" =>
      /\ IsInjective(called[c]) /\ ToSet(called[c]) \subseteq sometime[c]
      /\ ToSet(called[c]) \subseteq FlowAddressed(c) \/ HasSingleKey(called[c])

(* The patterns that some Off has removed from the matcher twice: because  *)
(* it lost its compare-and-swap, or another Off of the same id was at work *)
(* (flow/bus.go 479 is inside the loop).                                   *)
Overremoved == {pat[i] : i \in {j \in Ids : removed[j] > 1}}

(* An event reaches each handler that covers it all through the dispatch.  *)
(* Three exceptions are the code's: a pattern too deep for the matcher is  *)
(* not matched, so that its subscribers get nothing while anybody has a    *)
(* wildcard (matcher.go 132-136); a subscription to the very event type,   *)
(* there at some time of the dispatch and not too deep itself, may hide    *)
(* the wildcards; and a pattern removed twice is not matched any more.     *)
DispatchIsComplete ==
  \A c \in Consumers :
    pc[c] = "called" =>
      \A i \in throughout[c] \cap FlowAddressed(c) :
        \/ i \in ToSet(called[c])
        \/ pat[i] \in TooDeep /\ \E j \in sometime[c] : pat[j] \in Wildcards
        \/ /\ pat[i] \in Wildcards
           /\ arg[c] \notin TooDeep /\ \E j \in sometime[c] : pat[j] = arg[c]
        \/ pat[i] \in Overremoved
=============================================================================
