--------------------------- MODULE MCBusLifecycle ---------------------------
(* An instance of BusLifecycle for TLC.                                    *)
EXTENDS BusLifecycle

CONSTANTS g1, g2, e1, e2, e3, nil1, d1, d2
MCEmitters == {g1, g2}
Call(o, b, s) == [op |-> o, batch |-> b, events |-> s]
Emit(e) == Call("emit", FALSE, <<e>>)
Match(e) == Call("match", FALSE, <<e>>)
EmitBatch(s) == Call("emit", TRUE, s)
MatchBatch(s) == Call("match", TRUE, s)
Plan(k, x, y, c, o) == [kind |-> k, calls |-> [g \in MCEmitters |-> IF g = g1 THEN x ELSE y],
                        closers |-> c, observers |-> o]
MCPlans ==
  {Plan("sync", <<EmitBatch(<<e1, nil1>>), Match(e3)>>, <<Match(e2)>>, {}, {"Stats"}),
   Plan("sync", <<Emit(e1), Emit(nil1)>>, <<MatchBatch(<<e2, e3>>)>>, {d1}, {"Stats"}),
   Plan("sync", <<EmitBatch(<<nil1>>)>>, <<Match(e2)>>, {}, {"Stats"}),
   Plan("async", <<EmitBatch(<<e1, nil1>>)>>, <<MatchBatch(<<e2, e3>>)>>, {d1}, {"Stats"}),
   Plan("async", <<EmitBatch(<<e1, e3>>)>>, <<Emit(e2)>>, {d1, d2}, {}),
   Plan("pool", <<Emit(e1)>>, <<Emit(e3)>>, {}, {"Stats"}),
   Plan("pool", <<EmitBatch(<<e1, nil1>>)>>, <<Emit(e2)>>, {d1}, {"ClearError"}),
   Plan("pool", <<EmitBatch(<<nil1>>)>>, <<Match(e2)>>, {d1}, {}),
   Plan("pool", <<MatchBatch(<<e1, nil1>>)>>, <<Emit(e2)>>, {d1, d2}, {"ClearError"})}
MCEvents == {e1, e2, e3, nil1}
MCNils == {nil1}
MCClosers == {d1, d2}
MCDrainers == {d1}
MCBlocking == {e2}
MCSlotOf == [g \in MCEmitters |-> IF g = g1 THEN 1 ELSE 2]
=============================================================================
