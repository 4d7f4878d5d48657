------------------------------ MODULE Delivery ------------------------------
(***************************************************************************)
(* What the models of the three buses' subscriptions have in common: the   *)
(* matcher, in those steps of TrieMatcher that a caller can tell apart;    *)
(* the numbers that subscriptions get; and whom an event should reach.     *)
(*                                                                         *)
(* Add enters the exact pattern before the reference can be seen, since a  *)
(* walk waits for the trie's lock, and Remove deletes it before. A cache   *)
(* hit answers what a walk would have, at some moment since the look at    *)
(* the exact patterns (MatchIsSound, TrieMatcher).                         *)
(*                                                                         *)
(* Add turns a pattern with too many segments away without a word, and     *)
(* there is nothing of it for Remove to find; the snapshots of the buses   *)
(* hold its subscriptions all the same.                                    *)
(*                                                                         *)
(* A subscription is its id, and its handler is the same id.               *)
(***************************************************************************)
EXTENDS Integers, Sequences, FiniteSets, SequencesExt

CONSTANTS
  Patterns,
  Wildcards,   \* the patterns with a "*"
  TooDeep,     \* the patterns with more segments than the matcher takes, 16
  EventTypes,
  Covering,    \* Covering[e]: the patterns that match event type e
  MaxId        \* bound of the model: how many subscriptions are made

(* An event type is no pattern with a "*"; Match can find a pattern twice  *)
(* for one that has a segment "*" of its own, and these are left out.      *)
ASSUME DeliveryAssumption ==
  /\ Wildcards \subseteq Patterns
  /\ TooDeep \subseteq Patterns
  /\ Covering \in [EventTypes -> SUBSET Patterns]
  /\ \A e \in EventTypes : e \notin Wildcards /\ Covering[e] \ Wildcards = Patterns \cap {e}
  /\ MaxId \in Nat

VARIABLES
  subs,     \* the current snapshot
  ref,      \* ref[p]: the reference count of p in the matcher
  exact,    \* the matcher's exact patterns
  nextId,   \* the number of the subscription that was made last
  pc, arg,  \* where a goroutine is; the id or event type it works on
  pat,      \* pat[i]: the pattern of subscription i
  called,   \* called[c]: the handlers c called for its event
  sure,     \* history: subscriptions On has returned and Off was not called for
  gone,     \* history: subscriptions Off has returned for
  throughout, \* history: subscriptions that were sure all through c's delivery
  sometime    \* history: subscriptions that may have been there at some time of it

Ids == 1 .. MaxId
matcherVars == <<ref, exact>>

(* Match looks at the exact patterns first, where a hit stands alone, and  *)
(* later at the patterns that have references.                             *)
Merged(e) == SetToSeq({p \in Covering[e] : ref[p] > 0})

(* The deliveries that are running are affected by what becomes of the     *)
(* subscriptions.                                                          *)
MaybeThere == (1 .. nextId) \ gone
Observe(callers, running) ==
  /\ throughout' = [c \in callers |-> throughout[c] \cap sure']
  /\ sometime' = [c \in callers |->
                    IF c \in running THEN sometime[c] \cup MaybeThere' ELSE sometime[c]]
=============================================================================
