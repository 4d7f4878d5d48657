CONSTANTS
  p1 = p1
  p2 = p2
  a = a
  b = b
  Nil = Nil
  Producers <- MCProducers
  Items <- MCItems
  Cap = 2
  Batch = 2
  MaxTail = 4
SPECIFICATION FairSpec
INVARIANTS
  SlotsExclusive
  SequenceBarrier
PROPERTIES
  RefinesFifo
  OldestIsTaken
