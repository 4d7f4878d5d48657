CONSTANTS
  g1 = g1
  g2 = g2
  g3 = g3
  d1 = d1
  e1 = e1
  e2 = e2
  e3 = e3
  e4 = e4
  e5 = e5
  Nil = Nil
  NumShards = 2
  Cap = 2
  BatchSz = 2
  Emitters <- MCEmitters
  Calls <- MCCalls
  Events <- MCEvents
  ShardOf <- MCShardOf
  Panicky <- MCPanicky
  Within <- MCWithin
  Closers <- MCClosers
SPECIFICATION Spec
INVARIANTS
  EventsAccountedFor
  HandledInOrder
  DrainWaitsForReady
CHECK_DEADLOCK FALSE
