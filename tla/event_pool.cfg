CONSTANTS
  a = a
  b = b
  c1 = c1
  c2 = c2
  NoClient = NoClient
  NoChunk = NoChunk
  Clients <- MCClients
  Chunks <- MCChunks
  ChunkSize = 8
  Align = 2
  Sizes <- MCSizes
  MaxEra = 2
  Cpus <- MCCpus
  Profiles <- MCProfiles
SYMMETRY MCSymmetry
SPECIFICATION Spec
INVARIANTS
  SlicesDisjoint
  RetiredChunksAreUsed
  NilOnlyWhenOvertaken
  BuildsAreRunnable
CHECK_DEADLOCK FALSE
