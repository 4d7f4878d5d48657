---------------------------- MODULE MCFlowRing -----------------------------
(* An instance of FlowRing for TLC: two producers, two slots that go round *)
(* more than twice before MaxTail is reached.                              *)
EXTENDS FlowRing

CONSTANTS p1, p2, a, b
MCProducers == {p1, p2}
MCItems == {a, b}
=============================================================================
