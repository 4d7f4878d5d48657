---------------------------- MODULE MCSPSCRing -----------------------------
(* Instances of SPSCRing for TLC: two callers of which one does not pin    *)
(* its P, two values, two slots, and cursors that wrap after two rounds of *)
(* the ring, so that cursors and slots both wrap within a short run.       *)
EXTENDS SPSCRing

CONSTANTS g1, g2, v1, v2
MCGoroutines == {g1, g2}
MCValues == {v1, v2}
MCOneUnpinned == {g2}

(* Every property of the run spsc is about the ring before two calls of    *)
(* Enqueue have overlapped; the states after that are not searched.        *)
NotMet == ~met
=============================================================================
