------------------------------- MODULE Factory ------------------------------
(***************************************************************************)
(* From a profile to a bus: optimize/profile.go, advisor.go and factory.go *)
(* behind the functions of api.go, with the defaults that the three        *)
(* constructors put in.  The fields of a profile that nothing reads (Mem,  *)
(* Arch, Auto) are left out; times are in milliseconds.                    *)
(***************************************************************************)
EXTENDS Integers

(* Go's division rounds toward zero.                                       *)
Quotient(a, b) == IF a < 0 THEN -((-a) \div b) ELSE a \div b
AtLeastOne(n) == IF n < 1 THEN 1 ELSE n

(* 1, doubled k times.                                                     *)
Doubled[k \in Nat] == IF k = 0 THEN 1 ELSE 2 * Doubled[k - 1]
PowerOfTwo(n) == \E k \in 0 .. n : Doubled[k] = n

(* 1, doubled until it is n at least.                                      *)
RoundUp(n) ==
  Doubled[CHOOSE k \in 0 .. AtLeastOne(n) : Doubled[k] >= n /\ \A j \in 0 .. k - 1 : Doubled[j] < n]

Sync(cpus) ==
  [name |-> "sync", conc |-> 1000, tps |-> 10000, lat |-> "low", cores |-> cpus,
   impl |-> "sync", arena |-> FALSE, timeout |-> 0]
Async(cpus) ==
  [name |-> "async", conc |-> 100000, tps |-> 500000, lat |-> "ultra_low", cores |-> cpus,
   impl |-> "async", arena |-> FALSE, timeout |-> 0]
Flow(cpus) ==
  [name |-> "flow", conc |-> 5000, tps |-> 50000, lat |-> "med", cores |-> cpus,
   impl |-> "flow", arena |-> TRUE, timeout |-> 100]

Preset(name, cpus) ==
  CASE name = "flow"  -> Flow(cpus)
    [] name = "async" -> Async(cpus)
    [] OTHER          -> Sync(cpus)

AutoDetect(cpus) ==
  [IF cpus >= 4 THEN Async(cpus) ELSE Sync(cpus) EXCEPT !.name = "auto"]

(* A parameter that Advise does not set is 0.                              *)
Advise(p) ==
  LET async == p.name = "async"
                \/ /\ p.name \notin {"sync", "flow"}
                   /\ p.tps > 50000 \/ p.lat = "ultra_low" \/ p.cores >= 4
      flow == p.name = "flow"
  IN [impl     |-> IF async THEN "async" ELSE IF flow THEN "flow" ELSE "sync",
      workers  |-> IF async THEN AtLeastOne(Quotient(p.cores, 2)) ELSE 0,
      ringSize |-> IF async THEN 8192 ELSE 0,
      batchsz  |-> IF flow THEN 200 + Quotient(p.conc, 50) ELSE 0,
      timeout  |-> IF flow /\ p.timeout > 0 THEN p.timeout ELSE 0,
      prewarm  |-> p.conc > 5000,
      arena    |-> p.arena]

(* The constructors: sync.New without its asynchronous mode (no profile    *)
(* sets "poolsz"), async.New with NewShardedScheduler, flow.New.           *)
NewSync(a, cpus) == [impl |-> "sync", arena |-> a.arena]

NewAsync(a, cpus) ==
  [impl |-> "async", arena |-> a.arena, workers |-> a.workers,
   rings |-> RoundUp(cpus), ringSize |-> a.ringSize]

NewFlowUnclamped(a, cpus) ==   \* mutant: takes the batch size as it is
  [impl |-> "flow", arena |-> a.arena, batchSz |-> a.batchsz,
   timeout |-> IF a.timeout = 0 THEN 100 ELSE a.timeout,
   shards |-> RoundUp(IF cpus < 2 THEN 2 ELSE cpus), ringSize |-> RoundUp(a.batchsz * 4)]

NewFlow(a, cpus) ==
  LET batchSz == IF a.batchsz <= 0 THEN 100 ELSE a.batchsz
  IN [impl |-> "flow", arena |-> a.arena, batchSz |-> batchSz,
      timeout |-> IF a.timeout = 0 THEN 100 ELSE a.timeout,
      shards |-> RoundUp(IF cpus < 2 THEN 2 ELSE cpus),
      ringSize |-> RoundUp(batchSz * 4)]

Build(a, cpus) ==
  CASE a.impl = "async" -> NewAsync(a, cpus)
    [] a.impl = "flow"  -> NewFlow(a, cpus)
    [] OTHER            -> NewSync(a, cpus)

Option(p, cpus) == Build(Advise(p), cpus)

PackageProfiles(cpus) ==
  {Preset(name, cpus) : name \in {"sync", "async", "flow", "other"}} \cup {AutoDetect(cpus)}
=============================================================================
