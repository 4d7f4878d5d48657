CONSTANTS
  c1 = c1
  c2 = c2
  d1 = d1
  ab = ab
  aDeep = aDeep
  aStar = aStar
  Changers <- MCTwoChangers
  Consumers <- MCConsumers
  Patterns <- MCPatterns
  Wildcards <- MCWildcards
  TooDeep <- MCTooDeep
  EventTypes <- MCEvents
  Covering <- MCCovering
  MaxId = 3
SPECIFICATION FlowSpec
INVARIANTS
  NoLostUpdate
  DispatchIsSound
  DispatchIsComplete
SYMMETRY MCSymmetry
CONSTRAINT DeepOnce
