CONSTANTS
  g1 = g1
  g2 = g2
  e1 = e1
  e2 = e2
  e3 = e3
  nil1 = nil1
  d1 = d1
  d2 = d2
  Emitters <- MCEmitters
  Plans <- MCPlans
  Events <- MCEvents
  Nils <- MCNils
  Closers <- MCClosers
  Drainers <- MCDrainers
  Blocking <- MCBlocking
  ErrCap = 1
  Slots = 2
  SlotOf <- MCSlotOf
  WorkerSlot = 2
SPECIFICATION FairSpec
PROPERTY CloseReturns
INVARIANTS
  CountersAgree
  StatsInWindow
  ErrorsAreKept
CHECK_DEADLOCK FALSE
