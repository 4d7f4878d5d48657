-------------------------- MODULE MCSubscriptions --------------------------
(* An instance of Subscriptions for TLC: an event type, the exact pattern  *)
(* and a wildcard that cover it; an event type that is too deep for the    *)
(* matcher as a pattern, covered by the wildcard too ("a.**"); and the     *)
(* empty string as an event type.                                          *)
EXTENDS Subscriptions, TLC

CONSTANTS c1, c2, ab, aDeep, aStar

MCClients == {c1, c2}
MCPatterns == {ab, aDeep, aStar, NoType}
MCWildcards == {aStar}
MCTooDeep == {aDeep}
MCEvents == {ab, aDeep, NoType}
MCCovering == ab :> {ab, aStar} @@ aDeep :> {aDeep, aStar} @@ NoType :> {NoType}
MCSymmetry == Permutations(MCClients)
=============================================================================
