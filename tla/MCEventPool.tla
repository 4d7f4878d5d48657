----------------------------- MODULE MCEventPool ----------------------------
(* An instance of EventPool for TLC: chunks of eight bytes, aligned to two, *)
(* and profiles whose fields are at the edges of what Advise decides on.   *)
EXTENDS EventPool, TLC

CONSTANTS a, b, c1, c2
MCClients == {a, b}
MCChunks == {c1, c2}
MCSizes == {1, 3, 5}
MCCpus == {1, 3, 4}
MCProfile(name, conc, tps, lat, cores, arenaOn, timeout) ==
  [name |-> name, conc |-> conc, tps |-> tps, lat |-> lat, cores |-> cores,
   impl |-> "sync", arena |-> arenaOn, timeout |-> timeout]
MCProfiles == {
  MCProfile("flow", -10000, 0, "low", 0, FALSE, -1),
  MCProfile("flow", -20000, 0, "low", 0, TRUE, 7),
  MCProfile("async", 0, 0, "low", -3, TRUE, 0),
  MCProfile("", 0, 50001, "low", 0, FALSE, 0),
  MCProfile("", 0, 0, "low", 3, TRUE, 0)}
MCSymmetry == Permutations(MCClients) \cup Permutations(MCChunks)
=============================================================================
