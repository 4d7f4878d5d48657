--------------------------- MODULE Subscriptions ---------------------------
(***************************************************************************)
(* The subscriptions of the sync and async buses (sync/bus.go and          *)
(* async/bus.go, the same code twice): On and Off rebuild a copy-on-write  *)
(* snapshot under a mutex and keep the matcher's reference counts; Emit    *)
(* and EmitMatch load the snapshot without the mutex and call handlers.    *)
(*                                                                         *)
(* The snapshot is byID, a sequence of ids for each pattern, empty where   *)
(* the map has no key; handlers and singleKey are functions of it.         *)
(*                                                                         *)
(* No lock is held while a handler runs, so a handler that calls the bus   *)
(* is one client more.                                                     *)
(***************************************************************************)
EXTENDS Delivery

CONSTANTS
  Clients,
  NoType       \* the empty string, as an event type or as a singleKey

NoClient == "nobody"

ASSUME SubscriptionsAssumption == NoClient \notin Clients

VARIABLES
  mu,       \* the client that holds the mutex, NoClient if none does
  snap,     \* snap[c]: the snapshot c loaded
  plan,     \* plan[c]: the handlers c has still to call
  failed    \* history: a handler that c called failed

Snapshots == [Patterns -> Seq(Ids)]
EmitCalls == {"match", "merge", "emit", "emitMatch"}

callVars == <<plan, called, failed, snap>>
history == <<sure, gone>>
vars == <<subs, matcherVars, mu, nextId, pc, arg, callVars, pat, history,
          throughout, sometime>>

Init ==
  /\ subs = [p \in Patterns |-> << >>]
  /\ ref = [p \in Patterns |-> 0]
  /\ exact = {}
  /\ mu = NoClient
  /\ nextId = 0
  /\ pc = [c \in Clients |-> "idle"]
  /\ arg = [c \in Clients |-> NoType]
  /\ snap = [c \in Clients |-> [p \in Patterns |-> << >>]]
  /\ plan = [c \in Clients |-> << >>]
  /\ pat = [i \in Ids |-> NoType]
  /\ called = [c \in Clients |-> << >>]
  /\ failed = [c \in Clients |-> FALSE]
  /\ sure = {} /\ gone = {}
  /\ throughout = [c \in Clients |-> {}]
  /\ sometime = [c \in Clients |-> {}]
-----------------------------------------------------------------------------
(* buildSnapshot: the fast path of a bus with one pattern only.            *)
Keys(s) == {p \in Patterns : s[p] # << >>}
SingleKey(s) ==
  IF Cardinality(Keys(s)) = 1 THEN CHOOSE k \in Keys(s) : TRUE ELSE NoType
SingleHandlers(s) ==
  IF Cardinality(Keys(s)) = 1 THEN s[SingleKey(s)] ELSE << >>
HandlersFor(s, t) ==
  IF SingleKey(s) = t THEN SingleHandlers(s)
  ELSE IF t \in Patterns THEN s[t] ELSE << >>

(* A call of the bus returns, and what it held is gone.                    *)
Return(c) ==
  /\ pc' = [pc EXCEPT ![c] = "idle"]
  /\ arg' = [arg EXCEPT ![c] = NoType]

Watch == Observe(Clients, {c \in Clients : pc[c] \in EmitCalls})
-----------------------------------------------------------------------------
(* On: the id is taken before the mutex, the snapshot is stored before the *)
(* matcher learns the pattern.                                             *)

OnStart(c, p) ==
  /\ pc[c] = "idle" /\ nextId < MaxId
  /\ nextId' = nextId + 1
  /\ pat' = [pat EXCEPT ![nextId'] = p]
  /\ arg' = [arg EXCEPT ![c] = nextId']
  /\ pc' = [pc EXCEPT ![c] = "onStore"]
  /\ UNCHANGED <<subs, matcherVars, mu, callVars, history>>
  /\ Watch

(* Mutant: the new subscription takes the place of the others.             *)
OnStoreOverwrites(c) ==
  /\ pc[c] = "onStore" /\ mu = NoClient
  /\ mu' = c
  /\ subs' = [subs EXCEPT ![pat[arg[c]]] = <<arg[c]>>]
  /\ pc' = [pc EXCEPT ![c] = "onExact"]
  /\ UNCHANGED <<matcherVars, nextId, arg, callVars, pat, history, throughout, sometime>>

OnStore(c) ==
  /\ pc[c] = "onStore" /\ mu = NoClient
  /\ mu' = c
  /\ subs' = [subs EXCEPT ![pat[arg[c]]] = Append(@, arg[c])]
  /\ pc' = [pc EXCEPT ![c] = "onExact"]
  /\ UNCHANGED <<matcherVars, nextId, arg, callVars, pat, history, throughout, sometime>>

(* Add has entered the exact pattern, and a Match finds it; unless it gave *)
(* up at the pattern's depth.                                              *)
OnExact(c) ==
  /\ pc[c] = "onExact"
  /\ exact' = exact \cup ({pat[arg[c]]} \ (Wildcards \cup TooDeep))
  /\ pc' = [pc EXCEPT ![c] = "onAdd"]
  /\ UNCHANGED <<subs, ref, mu, nextId, arg, callVars, pat, history, throughout, sometime>>

(* Add has left the trie, and a Match finds the pattern there.             *)
OnAdd(c) ==
  /\ pc[c] = "onAdd"
  /\ ref' = [ref EXCEPT ![pat[arg[c]]] = IF pat[arg[c]] \in TooDeep THEN @ ELSE @ + 1]
  /\ mu' = NoClient
  /\ sure' = sure \cup {arg[c]}
  /\ Return(c)
  /\ UNCHANGED <<subs, exact, nextId, callVars, pat, gone>>
  /\ Watch
-----------------------------------------------------------------------------
(* Off, called with an id that On returned; the matcher forgets the        *)
(* pattern only with its last subscription, before the snapshot is stored. *)
OffStart(c, i) ==
  /\ pc[c] = "idle" /\ i \in sure \cup gone
  /\ arg' = [arg EXCEPT ![c] = i]
  /\ sure' = sure \ {i}
  /\ pc' = [pc EXCEPT ![c] = "offRemove"]
  /\ UNCHANGED <<subs, matcherVars, mu, nextId, callVars, pat, gone>>
  /\ Watch

Without(s, i) == FlattenSeq([j \in DOMAIN s |-> IF s[j] = i THEN << >> ELSE <<s[j]>>])

(* Mutant: the pattern's references are dropped at every Off.              *)
OffRemoveEachTime(c) ==
  /\ pc[c] = "offRemove" /\ mu = NoClient
  /\ mu' = c
  /\ LET p == pat[arg[c]] IN
       IF Without(subs[p], arg[c]) # subs[p]
         THEN exact' = exact \ {p} /\ pc' = [pc EXCEPT ![c] = "offCount"]
         ELSE pc' = [pc EXCEPT ![c] = "offStore"] /\ UNCHANGED exact
  /\ UNCHANGED <<subs, ref, nextId, arg, callVars, pat, history, throughout, sometime>>

OffRemove(c) ==
  /\ pc[c] = "offRemove" /\ mu = NoClient
  /\ mu' = c
  /\ LET p == pat[arg[c]] IN
       IF Without(subs[p], arg[c]) = << >> /\ subs[p] # << >>
         THEN exact' = exact \ {p} /\ pc' = [pc EXCEPT ![c] = "offCount"]
         ELSE pc' = [pc EXCEPT ![c] = "offStore"] /\ UNCHANGED exact
  /\ UNCHANGED <<subs, ref, nextId, arg, callVars, pat, history, throughout, sometime>>

(* The last of the calls of Remove, one for each subscription of the       *)
(* pattern, has left the trie. The ones before it leave references.        *)
OffCount(c) ==
  /\ pc[c] = "offCount"
  /\ LET p == pat[arg[c]]
         n == Len(subs[p])
     IN ref' = [ref EXCEPT ![p] = IF @ >= n THEN @ - n ELSE 0]
  /\ pc' = [pc EXCEPT ![c] = "offStore"]
  /\ UNCHANGED <<subs, exact, mu, nextId, arg, callVars, pat, history, throughout, sometime>>

(* Mutant: a pattern keeps its last subscription.                          *)
OffStoreKeepsLast(c) ==
  /\ pc[c] = "offStore"
  /\ subs' = [subs EXCEPT ![pat[arg[c]]] = IF Len(@) > 1 THEN Without(@, arg[c]) ELSE @]
  /\ mu' = NoClient
  /\ gone' = gone \cup {arg[c]}
  /\ Return(c)
  /\ UNCHANGED <<matcherVars, nextId, callVars, pat, sure>>
  /\ Watch

OffStore(c) ==
  /\ pc[c] = "offStore"
  /\ subs' = [subs EXCEPT ![pat[arg[c]]] = Without(@, arg[c])]
  /\ mu' = NoClient
  /\ gone' = gone \cup {arg[c]}
  /\ Return(c)
  /\ UNCHANGED <<matcherVars, nextId, callVars, pat, sure>>
  /\ Watch
-----------------------------------------------------------------------------
(* Emit, or the dispatch of an event that Emit queued, and EmitMatch.      *)
StartCall(c, e) ==
  /\ pc[c] = "idle"
  /\ arg' = [arg EXCEPT ![c] = e]
  /\ throughout' = [throughout EXCEPT ![c] = sure]
  /\ sometime' = [sometime EXCEPT ![c] = MaybeThere]
  /\ UNCHANGED <<subs, matcherVars, mu, nextId, called, failed, pat, history>>

EmitLoad(c, e) ==
  /\ StartCall(c, e)
  /\ plan' = [plan EXCEPT ![c] = HandlersFor(subs, e)]
  /\ pc' = [pc EXCEPT ![c] = "emit"]
  /\ UNCHANGED snap

EmitMatchLoad(c, e) ==
  /\ StartCall(c, e)
  /\ snap' = [snap EXCEPT ![c] = subs]
  /\ pc' = [pc EXCEPT ![c] = "match"]
  /\ UNCHANGED plan

(* What is left of the snapshot when Match has answered.                   *)
Matches(c, patterns) ==
  /\ plan' = [plan EXCEPT ![c] = FlattenSeq([j \in DOMAIN patterns |-> snap[c][patterns[j]]])]
  /\ snap' = [snap EXCEPT ![c] = [p \in Patterns |-> << >>]]
  /\ pc' = [pc EXCEPT ![c] = "emitMatch"]

EmitMatchExact(c) ==
  /\ pc[c] = "match"
  /\ \/ arg[c] \in exact /\ Matches(c, <<arg[c]>>)
     \/ /\ arg[c] \notin exact
        /\ pc' = [pc EXCEPT ![c] = "merge"]
        /\ UNCHANGED <<plan, snap>>
  /\ UNCHANGED <<subs, matcherVars, mu, nextId, arg, called, failed, pat,
                 history, throughout, sometime>>

EmitMatchMerge(c) ==
  /\ pc[c] = "merge"
  /\ Matches(c, Merged(arg[c]))
  /\ UNCHANGED <<subs, matcherVars, mu, nextId, arg, called, failed, pat,
                 history, throughout, sometime>>

(* The next handler is called; where an error or a panic ends the call,    *)
(* the handlers behind it are not.                                         *)
CallHandler(c) ==
  /\ pc[c] \in {"emit", "emitMatch"} /\ plan[c] # << >>
  /\ called' = [called EXCEPT ![c] = Append(@, Head(plan[c]))]
  /\ \/ /\ plan' = [plan EXCEPT ![c] = Tail(@)]
        /\ UNCHANGED failed
     \/ /\ plan' = [plan EXCEPT ![c] = << >>]
        /\ failed' = [failed EXCEPT ![c] = TRUE]
  /\ UNCHANGED <<subs, matcherVars, mu, nextId, pc, arg, snap, pat, history,
                 throughout, sometime>>

EmitReturn(c) ==
  /\ pc[c] \in {"emit", "emitMatch"} /\ plan[c] = << >>
  /\ Return(c)
  /\ called' = [called EXCEPT ![c] = << >>]
  /\ failed' = [failed EXCEPT ![c] = FALSE]
  /\ throughout' = [throughout EXCEPT ![c] = {}]
  /\ sometime' = [sometime EXCEPT ![c] = {}]
  /\ UNCHANGED <<subs, matcherVars, mu, nextId, snap, plan, pat, history>>
-----------------------------------------------------------------------------
On(c) == (\E p \in Patterns : OnStart(c, p)) \/ OnStore(c) \/ OnExact(c) \/ OnAdd(c)
Off(c) == (\E i \in Ids : OffStart(c, i)) \/ OffRemove(c) \/ OffCount(c) \/ OffStore(c)
Emit(c) ==
  \/ \E e \in EventTypes : EmitLoad(c, e) \/ EmitMatchLoad(c, e)
  \/ EmitMatchExact(c)
  \/ EmitMatchMerge(c)
  \/ CallHandler(c)
  \/ EmitReturn(c)

Next == \E c \in Clients : On(c) \/ Off(c) \/ Emit(c)

Spec == Init /\ [][Next]_vars
-----------------------------------------------------------------------------
TypeOK ==
  /\ \A p \in Patterns : ToSet(subs[p]) \subseteq Ids /\ IsInjective(subs[p])
  /\ ref \in [Patterns -> 0 .. MaxId]
  /\ exact \subseteq Patterns \ Wildcards
  /\ mu \in Clients \cup {NoClient}
  /\ nextId \in 0 .. MaxId
  /\ pc \in [Clients -> EmitCalls \cup {"idle", "onStore", "onExact", "onAdd", "offRemove",
                                       "offCount", "offStore"}]
  /\ \A c \in Clients : ToSet(plan[c]) \subseteq Ids /\ ToSet(called[c]) \subseteq Ids

Ended(c, kind) == pc[c] = kind /\ plan[c] = << >>

(* The handlers that a call of client c is for.                            *)
Addressed(c) ==
  {i \in Ids : IF pc[c] = "emit" THEN pat[i] = arg[c] ELSE pat[i] \in Covering[arg[c]]}

(* A call reaches no handler twice, none whose pattern does not match and  *)
(* none whose Off had returned before the call (sync/bus.go 262-297,       *)
(* async/bus.go 214-232, 326-340).                                         *)
DeliveryIsSound ==
  \A c \in Clients :
    pc[c] \in EmitCalls =>
      /\ IsInjective(called[c])
      /\ ToSet(called[c]) \subseteq sometime[c] \cap Addressed(c)

(* Emit reaches each handler that was subscribed to the event type all     *)
(* through the call, however many On and Off race with it; except that an  *)
(* event whose type is the empty string, which is also the singleKey of a  *)
(* bus with several patterns or none, reaches nobody when there are others *)
(* (sync/bus.go 265, async/bus.go 328).                                    *)
EmitIsComplete ==
  \A c \in Clients :
    Ended(c, "emit") /\ ~failed[c] =>
      \/ throughout[c] \cap Addressed(c) \subseteq ToSet(called[c])
      \/ arg[c] = NoType /\ \E j \in sometime[c] : pat[j] # NoType

(* EmitMatch does so too, with two exceptions. A pattern too deep for the  *)
(* matcher is never matched, although its On succeeded (matcher.go 132-    *)
(* 136). And a subscription to the very event type, there at some time of  *)
(* the call and not too deep itself, may hide the wildcards; even one that *)
(* comes between the load of the snapshot and the Match, so that the event *)
(* may reach nobody.                                                       *)
EmitMatchIsComplete ==
  \A c \in Clients :
    Ended(c, "emitMatch") /\ ~failed[c] =>
      \A i \in throughout[c] \cap Addressed(c) :
        \/ i \in ToSet(called[c])
        \/ pat[i] \in TooDeep
        \/ /\ pat[i] \in Wildcards
           /\ arg[c] \notin TooDeep /\ \E j \in sometime[c] : pat[j] = arg[c]
=============================================================================
