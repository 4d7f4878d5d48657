CONSTANTS
  g1 = g1
  g2 = g2
  v1 = v1
  v2 = v2
  Zero = Zero
  Goroutines <- MCGoroutines
  Unpinned <- MCOneUnpinned
  Values <- MCValues
  Size = 2
  Wrap = 4
CONSTRAINT NotMet
SPECIFICATION FairSpec
INVARIANTS
  NoSlotRace
  FreeSlotsAreZero
PROPERTIES
  RefinesFifo
  OldestIsReturned
