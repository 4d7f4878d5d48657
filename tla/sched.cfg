CONSTANTS
  p1 = p1
  e1 = e1
  e2 = e2
  e3 = e3
  NoEvent = NoEvent
  Producers <- MCOneProducer
  NumWorkers = 1
  NumRings = 2
  RingSize = 1
  Batch = 1
  IdleLimit = 1
  Events <- MCThreeEvents
  Emitting <- MCFirst
  Panicking <- MCFirst
ACTION_CONSTRAINTS
  QuietOnceTorn
  TornGivesFirst
SPECIFICATION FairSpec
INVARIANT ParkedIsExact
PROPERTIES
  RefinesDispatcher
  StopLetsEveryoneGo
  DeliveredUnderTraffic
  BlockedOnlyInJam
CHECK_DEADLOCK FALSE
