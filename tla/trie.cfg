CONSTANTS
  a = a
  b = b
  r1 = r1
  Star = Star
  DoubleStar = DoubleStar
  Patterns <- MCPatterns
  EventTypes <- MCEventTypes
  MaxDepth = 2
  Readers <- MCReaders
  MaxRefs = 2
  MaxVer = 4
SPECIFICATION Spec
INVARIANTS
  LookupsAgree
  TrieIsTidy
  CacheIsCoherent
  MatchIsSound
CHECK_DEADLOCK FALSE
