------------------------ MODULE MCFlowSubscriptions ------------------------
(* An instance of FlowSubscriptions for TLC: an event type, the exact      *)
(* pattern and a wildcard that cover it; and an event type that is too     *)
(* deep for the matcher as a pattern, covered by the wildcard too.         *)
EXTENDS FlowSubscriptions

CONSTANTS c1, c2, d1, ab, aDeep, aStar

MCTwoChangers == {c1, c2}
MCConsumers == {d1}
MCPatterns == {ab, aDeep, aStar}
MCWildcards == {aStar}
MCTooDeep == {aDeep}
MCEvents == {ab, aDeep}
MCCovering == [e \in MCEvents |-> {e, aStar}]
MCSymmetry == Permutations(MCTwoChangers)

(* Bound: only the first subscription may be of the pattern that is too deep. *)
DeepOnce == \A i \in 2 .. nextId : pat[i] # aDeep
=============================================================================
