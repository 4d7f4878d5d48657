CONSTANTS
  g1 = g1
  g2 = g2
  g3 = g3
  d1 = d1
  e1 = e1
  e2 = e2
  e3 = e3
  e4 = e4
  e5 = e5
  Nil = Nil
  NumShards = 2
  Cap = 1
  BatchSz = 2
  Emitters <- MCLiveEmitters
  Calls <- MCOneBatch
  Events <- MCLiveEvents
  ShardOf <- MCOneShard
  Panicky <- MCPanicky
  Within <- MCWithinLast
  Closers <- MCClosers
SPECIFICATION FairSpec
PROPERTIES
  EventsAreHandled
  CallsReturn
CHECK_DEADLOCK FALSE
