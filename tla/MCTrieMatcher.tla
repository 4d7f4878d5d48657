--------------------------- MODULE MCTrieMatcher ---------------------------
(* An instance of TrieMatcher for TLC: exact patterns, both wildcards, a   *)
(* pattern that is an inner node of others and one too deep for the trie,  *)
(* with a reader that races with their changes.                            *)
EXTENDS TrieMatcher

CONSTANTS a, b, r1
MCReaders == {r1}
MCPatterns == {<<a>>, <<a, b>>, <<a, DoubleStar>>, <<Star, b>>, <<a, b, a>>}
MCEventTypes == {<<a>>, <<a, b>>}
=============================================================================
