------------------------ MODULE MCShardedScheduler -------------------------
(* An instance of ShardedScheduler for TLC.                                *)
EXTENDS ShardedScheduler

CONSTANTS p1, e1, e2, e3
MCOneProducer == {p1}
MCThreeEvents == {e1, e2, e3}
MCFirst == {e1}

(* Once a ring is torn no Submit begins any more; those under way go on,   *)
(* as do the workers, with whatever the torn ring gives them, and Stop.    *)
(* No step that this leaves out is under fairness.                         *)
QuietOnceTorn ==
  torn = {} \/ \A p \in Callers : spc[p] = "idle" => spc'[p] = "idle"

(* Bound: an event that a torn ring gives is e1, whose handler may submit, *)
(* return or panic: all that the handler of another event may do.          *)
TornGivesFirst ==
  \A w \in Workers : rings' = rings /\ cur'[w] \notin {cur[w], NoEvent} => cur'[w] = e1
=============================================================================
