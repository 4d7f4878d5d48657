----------------------------- MODULE MCFlowBus -----------------------------
(* Instances of FlowBus for TLC: two emitters, one with a batch, and two   *)
(* shards whose rings, four batches long in the code, are so short here    *)
(* that both are full at times.                                            *)
EXTENDS FlowBus, TLC

CONSTANTS g1, g2, g3, d1, e1, e2, e3, e4, e5

MCEmitters == {g1, g2, g3}
MCEvents == {e1, e2, e3, e4}
MCClosers == {d1}
MCPanicky == {e4}

(* Two emitters at a time, and a handler that emits.                       *)
MCCalls == g1 :> <<<<e1, Nil, e2>>>> @@ g2 :> <<<<e4>>>> @@ g3 :> <<<<e3>>>>
MCWithin == g3 :> e1
MCShardOf == [e \in MCEvents |-> IF e = e3 THEN 1 ELSE 0]

(* One emitter that fills both rings with its batch, and a handler that    *)
(* may find them full.                                                     *)
MCLiveEmitters == {g1, g3}
MCOneBatch == g1 :> <<<<e1, e2, e4>>, <<e3>>>> @@ g3 :> <<<<e5>>>>
MCWithinLast == g3 :> e3
MCLiveEvents == {e1, e2, e3, e4, e5}
MCOneShard == [e \in MCLiveEvents |-> 0]
=============================================================================
