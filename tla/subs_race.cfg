CONSTANTS
  c1 = c1
  c2 = c2
  ab = ab
  aDeep = aDeep
  aStar = aStar
  NoType = NoType
  Clients <- MCClients
  Patterns <- MCPatterns
  Wildcards <- MCWildcards
  TooDeep <- MCTooDeep
  EventTypes <- MCEvents
  Covering <- MCCovering
  MaxId = 3
SPECIFICATION Spec
INVARIANTS
  DeliveryIsSound
  EmitIsComplete
  EmitMatchIsComplete
SYMMETRY MCSymmetry
