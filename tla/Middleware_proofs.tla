-------------------------- MODULE Middleware_proofs --------------------------
(* Theorems about Middleware, for any calls, retries, workers, sizes of    *)
(* shards and ways to build the chain.                                     *)
EXTENDS Middleware, TLAPS

(***************************************************************************)
(* The inductive invariant.                                                *)
(***************************************************************************)
TypeInv ==
  /\ cpc \in [Calls -> {"idle", "start", "send", "wait", "decide", "returned"}]
  /\ attempt \in [Calls -> 0 .. MaxRetries]
  /\ result \in [Calls -> Outcomes \cup {"none", "full", "timeout", "panics"}]
  /\ run \in [Tasks -> Outcomes \cup {"none", "waiting", "running", "hangs"}]
  /\ answer \in [Tasks -> Outcomes \cup {"none"}]
  /\ expired \subseteq Tasks /\ shut \subseteq Workers
  /\ shards \in [Workers -> Seq(Tasks)]
  /\ wpc \in [Workers -> {"select", "run", "gone"}]
  /\ task \in [Workers -> Tasks \cup {NoTask}]

(* An answer is how the handler ended.                                     *)
Answers == \A t \in Tasks : answer[t] # "none" => answer[t] = run[t]

(* The attempts of a call: those to come are untouched; the one under way  *)
(* is, until it is handed over; one that was given up without its timer    *)
(* never ran or ended as the call was told, in a way worth a retry when    *)
(* another one followed.                                                   *)
Untouched(c, k) == run[<<c, k>>] = "none" /\ <<c, k>> \notin expired
Attempts ==
  \A c \in Calls :
    /\ \A k \in 0 .. MaxRetries : attempt[c] < k => Untouched(c, k)
    /\ cpc[c] \in {"idle", "start", "send"} => Untouched(c, attempt[c])
    /\ cpc[c] \in {"decide", "returned"} =>
         Current(c) \in expired \/ run[Current(c)] \in {"none", result[c]}
    /\ \A k \in 0 .. MaxRetries : k < attempt[c] =>
         <<c, k>> \in expired \/ run[<<c, k>>] \in {"none", "error", "panic"}
    /\ result[c] = "nil" => run[Current(c)] = "nil"

(* A shard holds tasks nobody has begun with, and none twice.              *)
Waiting ==
  \A w \in Workers : \A i \in 1 .. Len(shards[w]) :
    /\ run[shards[w][i]] = "waiting"
    /\ \A v \in Workers : \A j \in 1 .. Len(shards[v]) :
         shards[v][j] = shards[w][i] => v = w /\ j = i

(* A pool runs its tasks on workers, all of which are gone when Stop has   *)
(* returned.                                                               *)
OnWorkers ==
  /\ \A w \in Workers : wpc[w] = "run" => task[w] \in Tasks
  /\ pooled => \A t \in Tasks :
       run[t] \in {"running", "hangs"} => \E w \in Workers : wpc[w] = "run" /\ task[w] = t
  /\ spc = "stopped" => \A w \in Workers : wpc[w] = "gone"

(* Stop goes through its steps in order.                                   *)
Stopping ==
  /\ guard \in {"inside", "outside"}
  /\ spc \in {"idle", "closeDone", "closeShards", "stopped"}
  /\ spc \in {"closeDone", "closeShards", "stopped"} \/ shut # {} => closed
  /\ shut # {} => spc \in {"closeShards", "stopped"}
  /\ crashed => Escapes
  /\ \A c \in Calls : result[c] = "panics" => closed /\ guard = "inside"

ChainInv == TypeInv /\ Answers /\ Attempts /\ Waiting /\ OnWorkers /\ Stopping

(***************************************************************************)
(* It holds at first, and every step keeps it.                             *)
(***************************************************************************)
LEMMA TaskOf ==
  ASSUME NEW c \in Calls, NEW k \in 0 .. MaxRetries
  PROVE  <<c, k>> \in Tasks
BY DEF Tasks

LEMMA CurrentTask ==
  ASSUME TypeInv, NEW c \in Calls
  PROVE  Current(c) \in Tasks /\ attempt[c] \in 0 .. MaxRetries /\ Current(c) = <<c, attempt[c]>>
BY TaskOf DEF TypeInv, Current

LEMMA ChainInit == Init => ChainInv
<1>1. SUFFICES ASSUME Init PROVE ChainInv OBVIOUS
<1>2. 0 \in 0 .. MaxRetries BY MiddlewareAssumption
<1>3. << >> \in Seq(Tasks) OBVIOUS
<1>4. TypeInv BY <1>1, <1>2, <1>3 DEF Init, TypeInv, Outcomes
<1>5. Answers BY <1>1 DEF Init, Answers
<1>6. Attempts
  <2>1. \A c \in Calls : \A k \in 0 .. MaxRetries : <<c, k>> \in Tasks BY TaskOf
  <2> QED BY <1>1, <1>2, <2>1 DEF Init, Attempts, Untouched, Current
<1>7. Waiting BY <1>1 DEF Init, Waiting
<1>8. OnWorkers BY <1>1 DEF Init, OnWorkers
<1>9. Stopping
  <2>1. guard \in {"inside", "outside"} BY <1>1, MiddlewareAssumption DEF Init
  <2> QED BY <1>1, <2>1 DEF Init, Stopping
<1> QED BY <1>4, <1>5, <1>6, <1>7, <1>8, <1>9 DEF ChainInv

(* A handler that has begun goes on, or ends.                              *)
LEMMA HandlerMoves ==
  ASSUME ChainInv, NEW t \in Tasks, run[t] \in {"waiting", "running"},
         NEW r \in Outcomes \cup {"running", "hangs"}, run' = [run EXCEPT ![t] = r],
         UNCHANGED <<cpc, attempt, result, expired>>
  PROVE  Attempts'
<1>1. TypeInv /\ run'[t] = r /\ \A u \in Tasks \ {t} : run'[u] = run[u]
  BY DEF ChainInv, TypeInv
<1>2. SUFFICES ASSUME NEW c \in Calls
               PROVE  /\ \A k \in 0 .. MaxRetries : attempt[c] < k => Untouched(c, k)'
                      /\ cpc[c] \in {"idle", "start", "send"} => Untouched(c, attempt[c])'
                      /\ cpc[c] \in {"decide", "returned"} =>
                           Current(c) \in expired \/ run'[Current(c)] \in {"none", result[c]}
                      /\ \A k \in 0 .. MaxRetries : k < attempt[c] =>
                           <<c, k>> \in expired \/ run'[<<c, k>>] \in {"none", "error", "panic"}
                      /\ result[c] = "nil" => run'[Current(c)] = "nil"
  BY DEF Attempts, Current, Untouched
<1>3. /\ \A k \in 0 .. MaxRetries : attempt[c] < k => Untouched(c, k)
      /\ cpc[c] \in {"idle", "start", "send"} => Untouched(c, attempt[c])
      /\ cpc[c] \in {"decide", "returned"} =>
           Current(c) \in expired \/ run[Current(c)] \in {"none", result[c]}
      /\ \A k \in 0 .. MaxRetries : k < attempt[c] =>
           <<c, k>> \in expired \/ run[<<c, k>>] \in {"none", "error", "panic"}
      /\ result[c] = "nil" => run[Current(c)] = "nil"
  BY DEF ChainInv, Attempts
<1>4. \A k \in 0 .. MaxRetries : <<c, k>> \in Tasks BY TaskOf
<1>5. Current(c) \in Tasks /\ attempt[c] \in 0 .. MaxRetries BY <1>1, CurrentTask
<1>6. result[c] \in Outcomes \cup {"none", "full", "timeout", "panics"} BY <1>1 DEF TypeInv
<1>7. \A k \in 0 .. MaxRetries : Untouched(c, k) => Untouched(c, k)'
  BY <1>1, <1>4 DEF Untouched
<1>8. cpc[c] \in {"decide", "returned"} =>
        Current(c) \in expired \/ run'[Current(c)] \in {"none", result[c]}
  BY <1>1, <1>3, <1>5, <1>6 DEF Outcomes
<1>9. \A k \in 0 .. MaxRetries : k < attempt[c] =>
        <<c, k>> \in expired \/ run'[<<c, k>>] \in {"none", "error", "panic"}
  BY <1>1, <1>3, <1>4
<1>10. result[c] = "nil" => run'[Current(c)] = "nil" BY <1>1, <1>3, <1>5
<1> QED BY <1>3, <1>5, <1>7, <1>8, <1>9, <1>10

(* The attempt of a call that was not begun with begins.                   *)
LEMMA AttemptBegins ==
  ASSUME ChainInv, NEW c \in Calls, Untouched(c, attempt[c]),
         NEW r \in {"waiting", "running"}, run' = [run EXCEPT ![Current(c)] = r],
         cpc' = [cpc EXCEPT ![c] = "wait"], result[c] # "nil",
         UNCHANGED <<attempt, result, expired>>
  PROVE  Attempts'
<1>1. TypeInv /\ Current(c) \in Tasks /\ attempt[c] \in 0 .. MaxRetries
  BY CurrentTask DEF ChainInv
<1>2. /\ run'[Current(c)] = r /\ \A u \in Tasks \ {Current(c)} : run'[u] = run[u]
      /\ cpc'[c] = "wait" /\ \A d \in Calls \ {c} : cpc'[d] = cpc[d]
  BY <1>1 DEF TypeInv
<1>3. \A d \in Calls : \A k \in 0 .. MaxRetries :
         <<d, k>> \in Tasks /\ (<<d, k>> # Current(c) <=> d # c \/ k # attempt[c])
  BY <1>1, TaskOf DEF Current
<1>4. \A d \in Calls : \A k \in 0 .. MaxRetries : d # c \/ k # attempt[c] =>
         run'[<<d, k>>] = run[<<d, k>>] /\ (Untouched(d, k) => Untouched(d, k)')
  BY <1>2, <1>3 DEF Untouched
<1>5. \A d \in Calls : /\ attempt[d] \in 0 .. MaxRetries
                       /\ Current(d) = <<d, attempt[d]>>
  BY <1>1, CurrentTask
<1>6. \A d \in Calls : \A k \in 0 .. MaxRetries : attempt[d] < k => Untouched(d, k)'
  <2>1. \A d \in Calls : \A k \in 0 .. MaxRetries : attempt[d] < k => d # c \/ k # attempt[c]
    BY <1>5
  <2>2. \A d \in Calls : \A k \in 0 .. MaxRetries : attempt[d] < k => Untouched(d, k)
    BY DEF ChainInv, Attempts
  <2> QED BY <1>4, <2>1, <2>2
<1>7. \A d \in Calls : cpc'[d] \in {"idle", "start", "send"} => Untouched(d, attempt[d])'
  BY <1>2, <1>4, <1>5 DEF ChainInv, Attempts
<1>8. \A d \in Calls : cpc'[d] \in {"decide", "returned"} =>
        Current(d) \in expired \/ run'[Current(d)] \in {"none", result[d]}
  BY <1>2, <1>4, <1>5 DEF ChainInv, Attempts
<1>9. \A d \in Calls : \A k \in 0 .. MaxRetries : k < attempt[d] =>
        <<d, k>> \in expired \/ run'[<<d, k>>] \in {"none", "error", "panic"}
  <2>1. SUFFICES ASSUME NEW d \in Calls, NEW k \in 0 .. MaxRetries, k < attempt[d]
                 PROVE  <<d, k>> \in expired \/ run'[<<d, k>>] \in {"none", "error", "panic"}
    OBVIOUS
  <2>2. d # c \/ k # attempt[c] BY <1>5, <2>1
  <2> QED BY <1>4, <2>1, <2>2 DEF ChainInv, Attempts
<1>10. \A d \in Calls : result[d] = "nil" => run'[Current(d)] = "nil"
  BY <1>4, <1>5 DEF ChainInv, Attempts
<1> QED BY <1>6, <1>7, <1>8, <1>9, <1>10 DEF Attempts, Current, Untouched

(* An attempt is given up or handed over: what the call is told is how its *)
(* handler ended, unless the timer fired or the handler never began.       *)
LEMMA AttemptEnds ==
  ASSUME ChainInv, NEW c \in Calls,
         NEW r \in Outcomes \cup {"full", "timeout", "panics"},
         NEW l \in {"decide", "returned"}, cpc' = [cpc EXCEPT ![c] = l],
         result' = [result EXCEPT ![c] = r], UNCHANGED <<attempt, run>>,
         expired' = expired \/ (expired' = expired \cup {Current(c)} /\ r = "timeout" /\ cpc[c] = "wait"),
         run[Current(c)] \in {"none", r} \/ (r = "timeout" /\ Current(c) \in expired'),
         r = "nil" => run[Current(c)] = "nil"
  PROVE  Attempts'
<1>1. TypeInv /\ Current(c) \in Tasks BY CurrentTask DEF ChainInv
<1>2. /\ cpc'[c] = l /\ \A d \in Calls \ {c} : cpc'[d] = cpc[d]
      /\ result'[c] = r /\ \A d \in Calls \ {c} : result'[d] = result[d]
  BY <1>1 DEF TypeInv
<1>3. \A d \in Calls : attempt[d] \in 0 .. MaxRetries /\ Current(d) = <<d, attempt[d]>>
  BY <1>1, CurrentTask
<1>4. \A d \in Calls : \A k \in 0 .. MaxRetries : d # c \/ k # attempt[c] =>
        (Untouched(d, k) => Untouched(d, k)')
  BY <1>3 DEF Untouched
<1>5. \A d \in Calls : \A k \in 0 .. MaxRetries : attempt[d] < k => Untouched(d, k)'
  BY <1>3, <1>4 DEF ChainInv, Attempts
<1>6. \A d \in Calls : cpc'[d] \in {"idle", "start", "send"} => Untouched(d, attempt[d])'
  BY <1>2, <1>3, <1>4 DEF ChainInv, Attempts
<1>7. \A d \in Calls : cpc'[d] \in {"decide", "returned"} =>
        Current(d) \in expired' \/ run[Current(d)] \in {"none", result'[d]}
  <2>1. SUFFICES ASSUME NEW d \in Calls, cpc'[d] \in {"decide", "returned"}
                 PROVE  Current(d) \in expired' \/ run[Current(d)] \in {"none", result'[d]}
    OBVIOUS
  <2>2. CASE d = c BY <1>2, <2>2
  <2>3. CASE d # c BY <1>2, <2>1, <2>3 DEF ChainInv, Attempts
  <2> QED BY <2>2, <2>3
<1>8. \A d \in Calls : \A k \in 0 .. MaxRetries : k < attempt[d] =>
        <<d, k>> \in expired' \/ run[<<d, k>>] \in {"none", "error", "panic"}
  BY DEF ChainInv, Attempts
<1>9. \A d \in Calls : result'[d] = "nil" => run[Current(d)] = "nil"
  BY <1>2 DEF ChainInv, Attempts
<1> QED BY <1>5, <1>6, <1>7, <1>8, <1>9 DEF Attempts, Current, Untouched

LEMMA BeginningIsNotNil ==
  ASSUME ChainInv, NEW c \in Calls, cpc[c] \in {"idle", "start", "send"}
  PROVE  Untouched(c, attempt[c]) /\ result[c] # "nil" /\ run[Current(c)] = "none"
BY DEF ChainInv, Attempts, Untouched, Current

(* The attempts as they are when the calls stay where they are.            *)
LEMMA AttemptsStay ==
  ChainInv /\ UNCHANGED <<cpc, attempt, result, run, expired>> => Attempts'
BY DEF ChainInv, Attempts, Untouched, Current

LEMMA CallStep ==
  ASSUME ChainInv, NEW c \in Calls, Call(c)
  PROVE  ChainInv'
<1>1. /\ cpc[c] = "idle" /\ cpc' = [cpc EXCEPT ![c] = "start"]
      /\ UNCHANGED <<config, attempt, result, taskVars, poolVars, crashed>>
  BY DEF Call, At
<1>2. TypeInv' BY <1>1 DEF ChainInv, TypeInv, taskVars, poolVars
<1>3. Answers' /\ Waiting' /\ OnWorkers' /\ Stopping'
  BY <1>1 DEF ChainInv, Answers, Waiting, OnWorkers, Stopping, Escapes, config, taskVars, poolVars
<1>4. Attempts'
  <2>1. \A d \in Calls : cpc'[d] = cpc[d] \/ (d = c /\ cpc'[d] = "start")
    BY <1>1 DEF ChainInv, TypeInv
  <2> QED BY <1>1, <2>1 DEF ChainInv, Attempts, Untouched, Current, taskVars
<1> QED BY <1>2, <1>3, <1>4 DEF ChainInv

LEMMA StartGoroutineStep ==
  ASSUME ChainInv, NEW c \in Calls, StartGoroutine(c)
  PROVE  ChainInv'
<1>1. /\ cpc[c] = "start" /\ ~pooled /\ run' = [run EXCEPT ![Current(c)] = "running"]
      /\ cpc' = [cpc EXCEPT ![c] = "wait"]
      /\ UNCHANGED <<config, attempt, result, answer, expired, poolVars, crashed>>
  BY DEF StartGoroutine, At
<1>2. /\ Untouched(c, attempt[c]) /\ result[c] # "nil" /\ run[Current(c)] = "none"
      /\ Current(c) \in Tasks /\ TypeInv
  BY <1>1, BeginningIsNotNil, CurrentTask DEF ChainInv
<1>3. TypeInv' BY <1>1, <1>2 DEF TypeInv, poolVars
<1>4. Attempts' BY <1>1, <1>2, AttemptBegins
<1>5. \A t \in Tasks : run[t] # "none" => run'[t] = run[t] BY <1>1, <1>2 DEF TypeInv
<1>6. Answers'
  <2>1. \A t \in Tasks : answer[t] # "none" => run[t] # "none" BY DEF ChainInv, Answers
  <2> QED BY <1>1, <1>5, <2>1 DEF ChainInv, Answers
<1>7. Waiting'
  <2>1. \A w \in Workers : \A i \in 1 .. Len(shards[w]) : shards[w][i] \in Tasks
    BY <1>2 DEF TypeInv
  <2> QED BY <1>1, <1>5, <2>1 DEF ChainInv, Waiting, poolVars
<1>8. OnWorkers' /\ Stopping'
  BY <1>1 DEF ChainInv, OnWorkers, Stopping, Escapes, poolVars, config
<1> QED BY <1>3, <1>4, <1>6, <1>7, <1>8 DEF ChainInv

LEMMA GiveStep ==
  ASSUME ChainInv, NEW c \in Calls, NEW r \in Outcomes \cup {"full", "timeout"}, Give(c, r),
         UNCHANGED <<config, attempt, run, answer, poolVars, crashed>>,
         expired' = expired \/ (expired' = expired \cup {Current(c)} /\ r = "timeout" /\ cpc[c] = "wait"),
         run[Current(c)] \in {"none", r} \/ (r = "timeout" /\ Current(c) \in expired'),
         r = "nil" => run[Current(c)] = "nil"
  PROVE  ChainInv'
<1>1. TypeInv /\ Current(c) \in Tasks BY CurrentTask DEF ChainInv
<1>2. /\ cpc' = [cpc EXCEPT ![c] = "decide"] /\ result' = [result EXCEPT ![c] = r]
  BY DEF Give
<1>3. TypeInv' BY <1>1, <1>2 DEF TypeInv, poolVars
<1>4. Attempts' BY <1>2, AttemptEnds
<1>5. Answers' /\ Waiting' /\ OnWorkers'
  BY DEF ChainInv, Answers, Waiting, OnWorkers, poolVars, config
<1>6. Stopping'
  <2>1. \A d \in Calls : result'[d] = "panics" => result[d] = "panics"
    BY <1>1, <1>2 DEF TypeInv, Outcomes
  <2> QED BY <2>1 DEF ChainInv, Stopping, Escapes, poolVars, config
<1> QED BY <1>3, <1>4, <1>5, <1>6 DEF ChainInv

LEMMA SubmitCheckStep ==
  ASSUME ChainInv, NEW c \in Calls, SubmitCheck(c)
  PROVE  ChainInv'
<1>1. /\ cpc[c] = "start" /\ UNCHANGED <<config, attempt, taskVars, poolVars, crashed>>
      /\ Give(c, "full") \/ (cpc' = [cpc EXCEPT ![c] = "send"] /\ UNCHANGED result)
  BY DEF SubmitCheck, At
<1>2. run[Current(c)] = "none" BY <1>1, BeginningIsNotNil
<1>3. CASE Give(c, "full") BY <1>1, <1>2, <1>3, GiveStep DEF taskVars
<1>4. CASE cpc' = [cpc EXCEPT ![c] = "send"] /\ UNCHANGED result
  <2>1. TypeInv' BY <1>1, <1>4 DEF ChainInv, TypeInv, taskVars, poolVars
  <2>2. Answers' /\ Waiting' /\ OnWorkers' /\ Stopping'
    BY <1>1, <1>4 DEF ChainInv, Answers, Waiting, OnWorkers, Stopping, Escapes, config, taskVars, poolVars
  <2>3. Attempts'
    <3>1. \A d \in Calls : cpc'[d] = cpc[d] \/ (d = c /\ cpc'[d] = "send")
      BY <1>4 DEF ChainInv, TypeInv
    <3> QED BY <1>1, <1>4, <3>1 DEF ChainInv, Attempts, Untouched, Current, taskVars
  <2> QED BY <2>1, <2>2, <2>3 DEF ChainInv
<1> QED BY <1>1, <1>3, <1>4

LEMMA SubmitSendStep ==
  ASSUME ChainInv, NEW c \in Calls, SubmitSend(c)
  PROVE  ChainInv'
<1>1. /\ cpc[c] = "send"
      /\ UNCHANGED <<config, attempt, answer, expired, closed, done, shut, wpc, task, spc, crashed>>
  BY DEF SubmitSend, At
<1>2. /\ Untouched(c, attempt[c]) /\ result[c] # "nil" /\ run[Current(c)] = "none"
      /\ Current(c) \in Tasks /\ TypeInv
  BY <1>1, BeginningIsNotNil, CurrentTask DEF ChainInv
<1>3. ASSUME NEW w \in Workers, w \in shut,
             result' = [result EXCEPT ![c] = IF guard = "outside" THEN "panic" ELSE "panics"],
             cpc' = [cpc EXCEPT ![c] = "returned"], UNCHANGED <<run, shards>>
      PROVE  ChainInv'
  <2> DEFINE r == IF guard = "outside" THEN "panic" ELSE "panics"
  <2>1. r \in Outcomes \cup {"full", "timeout", "panics"} /\ r # "nil" BY DEF Outcomes
  <2>2. result' = [result EXCEPT ![c] = r] BY <1>3
  <2>3. r = "panics" => guard # "outside" OBVIOUS
  <2> HIDE DEF r
  <2>4. TypeInv' BY <1>1, <1>2, <1>3, <2>1, <2>2 DEF TypeInv
  <2>5. Attempts' BY <1>1, <1>2, <1>3, <2>1, <2>2, AttemptEnds
  <2>6. Answers' /\ Waiting' /\ OnWorkers'
    BY <1>1, <1>3 DEF ChainInv, Answers, Waiting, OnWorkers, config
  <2>7. Stopping'
    <3>1. closed BY <1>3 DEF ChainInv, Stopping
    <3>2. \A d \in Calls : result'[d] = "panics" => closed /\ guard = "inside"
      <4>1. guard \in {"inside", "outside"} BY DEF ChainInv, Stopping
      <4> QED BY <1>2, <2>2, <2>3, <3>1, <4>1 DEF ChainInv, Stopping, TypeInv
    <3> QED BY <1>1, <3>2 DEF ChainInv, Stopping, Escapes, config
  <2> QED BY <2>4, <2>5, <2>6, <2>7 DEF ChainInv
<1>4. ASSUME NEW w \in Workers, shards' = [shards EXCEPT ![w] = Append(shards[w], Current(c))],
             run' = [run EXCEPT ![Current(c)] = "waiting"],
             cpc' = [cpc EXCEPT ![c] = "wait"], UNCHANGED result
      PROVE  ChainInv'
  <2>1. /\ shards[w] \in Seq(Tasks) /\ Append(shards[w], Current(c)) \in Seq(Tasks)
        /\ Len(Append(shards[w], Current(c))) = Len(shards[w]) + 1 /\ Len(shards[w]) \in Nat
        /\ \A i \in 1 .. Len(shards[w]) : Append(shards[w], Current(c))[i] = shards[w][i]
        /\ Append(shards[w], Current(c))[Len(shards[w]) + 1] = Current(c)
    BY <1>2 DEF TypeInv
  <2>2. TypeInv' BY <1>1, <1>2, <1>4, <2>1 DEF TypeInv
  <2>3. Attempts' BY <1>1, <1>2, <1>4, AttemptBegins
  <2>4. \A t \in Tasks : run[t] # "none" => run'[t] = run[t] BY <1>2, <1>4 DEF TypeInv
  <2>5. Answers'
    <3>1. \A t \in Tasks : answer[t] # "none" => run[t] # "none" BY DEF ChainInv, Answers
    <3> QED BY <1>1, <2>4, <3>1 DEF ChainInv, Answers
  <2>6. Waiting'
    <3>1. /\ \A v \in Workers \ {w} : shards'[v] = shards[v]
          /\ Len(shards'[w]) = Len(shards[w]) + 1
          /\ \A i \in 1 .. Len(shards[w]) : shards'[w][i] = shards[w][i]
          /\ shards'[w][Len(shards[w]) + 1] = Current(c)
      BY <1>2, <1>4, <2>1 DEF TypeInv
    <3>2. \A v \in Workers : \A i \in 1 .. Len(shards[v]) :
            /\ shards[v][i] \in Tasks /\ run[shards[v][i]] = "waiting"
            /\ shards[v][i] # Current(c)
      BY <1>2 DEF ChainInv, Waiting, TypeInv
    <3>3. \A v \in Workers : \A i \in 1 .. Len(shards'[v]) :
            \/ i \in 1 .. Len(shards[v]) /\ shards'[v][i] = shards[v][i]
            \/ v = w /\ i = Len(shards[w]) + 1 /\ shards'[v][i] = Current(c)
      BY <2>1, <3>1
    <3>4. run'[Current(c)] = "waiting" BY <1>2, <1>4 DEF TypeInv
    <3>5. \A v \in Workers : \A i \in 1 .. Len(shards'[v]) : run'[shards'[v][i]] = "waiting"
      BY <2>4, <3>2, <3>3, <3>4
    <3>6. \A v, u \in Workers : \A i \in 1 .. Len(shards[v]), j \in 1 .. Len(shards[u]) :
            shards[u][j] = shards[v][i] => u = v /\ j = i
      BY DEF ChainInv, Waiting
    <3>7. \A v, u \in Workers : \A i \in 1 .. Len(shards'[v]), j \in 1 .. Len(shards'[u]) :
            shards'[u][j] = shards'[v][i] => u = v /\ j = i
      <4>1. SUFFICES ASSUME NEW v \in Workers, NEW u \in Workers, NEW i \in 1 .. Len(shards'[v]),
                            NEW j \in 1 .. Len(shards'[u]), shards'[u][j] = shards'[v][i]
                     PROVE  u = v /\ j = i
        OBVIOUS
      <4>2. CASE i \in 1 .. Len(shards[v]) /\ shards'[v][i] = shards[v][i]
        <5>1. shards'[u][j] # Current(c) BY <3>2, <4>1, <4>2
        <5>2. j \in 1 .. Len(shards[u]) /\ shards'[u][j] = shards[u][j] BY <3>3, <4>1, <5>1
        <5> QED BY <3>6, <4>1, <4>2, <5>2
      <4>3. CASE v = w /\ i = Len(shards[w]) + 1 /\ shards'[v][i] = Current(c)
        <5>1. ~ (j \in 1 .. Len(shards[u]) /\ shards'[u][j] = shards[u][j])
          BY <3>2, <4>1, <4>3
        <5> QED BY <3>3, <4>1, <4>3, <5>1
      <4> QED BY <3>3, <4>1, <4>2, <4>3
    <3> QED BY <3>5, <3>7 DEF Waiting
  <2>7. OnWorkers'
    <3>1. \A t \in Tasks : run'[t] \in {"running", "hangs"} => run'[t] = run[t]
      BY <1>2, <1>4 DEF TypeInv
    <3> QED BY <1>1, <3>1 DEF ChainInv, OnWorkers, config
  <2>8. Stopping' BY <1>1, <1>4 DEF ChainInv, Stopping, Escapes, config
  <2> QED BY <2>2, <2>3, <2>5, <2>6, <2>7, <2>8 DEF ChainInv
<1>5. ASSUME Give(c, "full"), UNCHANGED <<run, shards>> PROVE ChainInv'
  BY <1>1, <1>2, <1>5, GiveStep DEF poolVars
<1> QED BY <1>3, <1>4, <1>5 DEF SubmitSend

LEMMA ReceiveStep ==
  ASSUME ChainInv, NEW c \in Calls, Receive(c)
  PROVE  ChainInv'
<1>1. /\ answer[Current(c)] # "none" /\ Give(c, answer[Current(c)])
      /\ UNCHANGED <<config, attempt, taskVars, poolVars, crashed>>
  BY DEF Receive
<1>2. answer[Current(c)] \in Outcomes /\ run[Current(c)] = answer[Current(c)]
  BY <1>1, CurrentTask DEF ChainInv, TypeInv, Answers
<1> QED BY <1>1, <1>2, GiveStep DEF taskVars

LEMMA TimerFiresStep ==
  ASSUME ChainInv, NEW c \in Calls, TimerFires(c)
  PROVE  ChainInv'
BY GiveStep DEF TimerFires, At

LEMMA DecideStep ==
  ASSUME ChainInv, NEW c \in Calls, Decide(c)
  PROVE  ChainInv'
<1>1. /\ cpc[c] = "decide" /\ UNCHANGED <<config, result, taskVars, poolVars, crashed>>
      /\ \/ /\ result[c] \in Retryable /\ attempt[c] < MaxRetries
            /\ attempt' = [attempt EXCEPT ![c] = attempt[c] + 1]
            /\ cpc' = [cpc EXCEPT ![c] = "start"]
         \/ UNCHANGED attempt /\ cpc' = [cpc EXCEPT ![c] = "returned"]
  BY DEF Decide, At
<1>2. /\ TypeInv /\ Current(c) \in Tasks
      /\ \A d \in Calls : attempt[d] \in 0 .. MaxRetries /\ Current(d) = <<d, attempt[d]>>
      /\ MaxRetries \in Nat
  BY CurrentTask, MiddlewareAssumption DEF ChainInv
<1>3. Answers' /\ Waiting' /\ OnWorkers' /\ Stopping'
  BY <1>1 DEF ChainInv, Answers, Waiting, OnWorkers, Stopping, Escapes, config, taskVars, poolVars
<1>4. CASE UNCHANGED attempt /\ cpc' = [cpc EXCEPT ![c] = "returned"]
  <2>1. TypeInv' BY <1>1, <1>2, <1>4 DEF TypeInv, taskVars, poolVars
  <2>2. \A d \in Calls : cpc'[d] = cpc[d] \/ (d = c /\ cpc'[d] = "returned")
    BY <1>2, <1>4 DEF TypeInv
  <2>3. Attempts' BY <1>1, <1>4, <2>2 DEF ChainInv, Attempts, Untouched, Current, taskVars
  <2> QED BY <1>3, <2>1, <2>3 DEF ChainInv
<1>5. CASE /\ result[c] \in Retryable /\ attempt[c] < MaxRetries
           /\ attempt' = [attempt EXCEPT ![c] = attempt[c] + 1]
           /\ cpc' = [cpc EXCEPT ![c] = "start"]
  <2>1. attempt[c] + 1 \in 0 .. MaxRetries BY <1>2, <1>5
  <2>2. TypeInv' BY <1>1, <1>2, <1>5, <2>1 DEF TypeInv, taskVars, poolVars
  <2>3. /\ attempt'[c] = attempt[c] + 1 /\ \A d \in Calls \ {c} : attempt'[d] = attempt[d]
        /\ cpc'[c] = "start" /\ \A d \in Calls \ {c} : cpc'[d] = cpc[d]
    BY <1>2, <1>5 DEF TypeInv
  <2>4. result[c] \in {"error", "panic", "timeout", "full"} BY <1>5, MiddlewareAssumption
  <2>5. Current(c) \in expired \/ run[Current(c)] \in {"none", "error", "panic"}
    <3>1. Current(c) \in expired \/ run[Current(c)] \in {"none", result[c]}
      BY <1>1 DEF ChainInv, Attempts
    <3>2. run[Current(c)] \in Outcomes \cup {"none", "waiting", "running", "hangs"}
      BY <1>2 DEF TypeInv
    <3> QED BY <2>4, <3>1, <3>2 DEF Outcomes
  <2>6. SUFFICES ASSUME NEW d \in Calls
                 PROVE  /\ \A k \in 0 .. MaxRetries : attempt'[d] < k => Untouched(d, k)
                        /\ cpc'[d] \in {"idle", "start", "send"} => Untouched(d, attempt'[d])
                        /\ cpc'[d] \in {"decide", "returned"} =>
                             <<d, attempt'[d]>> \in expired \/ run[<<d, attempt'[d]>>] \in {"none", result[d]}
                        /\ \A k \in 0 .. MaxRetries : k < attempt'[d] =>
                             <<d, k>> \in expired \/ run[<<d, k>>] \in {"none", "error", "panic"}
                        /\ result[d] = "nil" => run[<<d, attempt'[d]>>] = "nil"
    BY <1>1, <1>3, <2>2 DEF ChainInv, Attempts, Current, Untouched, taskVars
  <2>7. CASE d # c BY <1>2, <2>3, <2>7 DEF ChainInv, Attempts
  <2>8. CASE d = c
    <3>1. \A k \in 0 .. MaxRetries : attempt[c] < k => Untouched(c, k) BY DEF ChainInv, Attempts
    <3>2. \A k \in 0 .. MaxRetries : attempt'[c] < k => Untouched(c, k)
      BY <1>2, <2>3, <3>1
    <3>3. Untouched(c, attempt'[c]) BY <1>2, <2>1, <2>3, <3>1
    <3>4. \A k \in 0 .. MaxRetries : k < attempt'[c] =>
            <<c, k>> \in expired \/ run[<<c, k>>] \in {"none", "error", "panic"}
      <4>1. \A k \in 0 .. MaxRetries : k < attempt'[c] => k < attempt[c] \/ k = attempt[c]
        BY <1>2, <2>3
      <4> QED BY <1>2, <2>5, <4>1 DEF ChainInv, Attempts
    <3> QED BY <2>3, <2>4, <2>8, <3>2, <3>3, <3>4
  <2> QED BY <2>7, <2>8
<1> QED BY <1>1, <1>4, <1>5

(* A handler that runs ends, with an answer or a panic that nobody takes.  *)
LEMMA HandlerEndsStep ==
  ASSUME ChainInv, NEW t \in Tasks, NEW o \in Outcomes, HandlerEnds(t, o),
         UNCHANGED <<config, callVars, expired, closed, done, shards, shut, spc>>
  PROVE  /\ run[t] = "running" /\ run' = [run EXCEPT ![t] = o]
         /\ answer' \in [Tasks -> Outcomes \cup {"none"}]
         /\ Answers' /\ Attempts' /\ Waiting' /\ Stopping'
<1>1. /\ TypeInv /\ run[t] = "running" /\ run' = [run EXCEPT ![t] = o]
      /\ answer' = answer \/ answer' = [answer EXCEPT ![t] = o]
      /\ crashed' = Escapes \/ crashed' = crashed
  BY DEF HandlerEnds, ChainInv
<1>2. run'[t] = o /\ \A u \in Tasks \ {t} : run'[u] = run[u] BY <1>1 DEF TypeInv
<1>3. answer' \in [Tasks -> Outcomes \cup {"none"}] BY <1>1 DEF TypeInv
<1>4. answer[t] = "none"
  <2>1. answer[t] \in Outcomes \cup {"none"} BY <1>1 DEF TypeInv
  <2> QED BY <1>1, <2>1 DEF ChainInv, Answers, Outcomes
<1>5. Answers' BY <1>1, <1>2, <1>4 DEF ChainInv, Answers, TypeInv
<1>6. Attempts' BY <1>1, HandlerMoves DEF callVars
<1>7. Waiting'
  <2>1. \A w \in Workers : \A i \in 1 .. Len(shards[w]) : shards[w][i] \in Tasks
    BY <1>1 DEF TypeInv
  <2> QED BY <1>1, <1>2, <2>1 DEF ChainInv, Waiting
<1>8. Stopping'
  <2>1. Escapes' <=> Escapes BY DEF Escapes, config
  <2>2. crashed' => Escapes BY <1>1 DEF ChainInv, Stopping
  <2> QED BY <2>1, <2>2 DEF ChainInv, Stopping, callVars, config
<1> QED BY <1>1, <1>3, <1>5, <1>6, <1>7, <1>8

LEMMA GoroutineEndsStep ==
  ASSUME ChainInv, NEW t \in Tasks, GoroutineEnds(t)
  PROVE  ChainInv'
<1>1. ~pooled /\ UNCHANGED <<config, callVars, expired, poolVars>> BY DEF GoroutineEnds
<1>2. PICK o \in Outcomes : HandlerEnds(t, o) BY DEF GoroutineEnds
<1>3. /\ run' = [run EXCEPT ![t] = o] /\ answer' \in [Tasks -> Outcomes \cup {"none"}]
      /\ Answers' /\ Attempts' /\ Waiting' /\ Stopping'
  BY <1>1, <1>2, HandlerEndsStep DEF poolVars
<1>4. TypeInv' BY <1>1, <1>3 DEF ChainInv, TypeInv, callVars, poolVars
<1>5. OnWorkers' BY <1>1 DEF ChainInv, OnWorkers, poolVars, config
<1> QED BY <1>3, <1>4, <1>5 DEF ChainInv

LEMMA HandlerHangsStep ==
  ASSUME ChainInv, NEW t \in Tasks, HandlerHangs(t)
  PROVE  ChainInv'
<1>1. /\ run[t] = "running" /\ run' = [run EXCEPT ![t] = "hangs"] /\ TypeInv
      /\ UNCHANGED <<config, callVars, answer, expired, poolVars, crashed>>
  BY DEF HandlerHangs, ChainInv
<1>2. run'[t] = "hangs" /\ \A u \in Tasks \ {t} : run'[u] = run[u] BY <1>1 DEF TypeInv
<1>3. TypeInv' BY <1>1 DEF TypeInv, callVars, poolVars
<1>4. Attempts' BY <1>1, HandlerMoves DEF callVars
<1>5. Answers'
  <2>1. answer[t] \in Outcomes \cup {"none"} BY <1>1 DEF TypeInv
  <2>2. answer[t] = "none" BY <1>1, <2>1 DEF ChainInv, Answers, Outcomes
  <2> QED BY <1>1, <1>2, <2>2 DEF ChainInv, Answers
<1>6. Waiting'
  <2>1. \A w \in Workers : \A i \in 1 .. Len(shards[w]) : shards[w][i] \in Tasks
    BY <1>1 DEF TypeInv
  <2> QED BY <1>1, <1>2, <2>1 DEF ChainInv, Waiting, poolVars
<1>7. OnWorkers' BY <1>1, <1>2 DEF ChainInv, OnWorkers, poolVars, config
<1>8. Stopping' BY <1>1 DEF ChainInv, Stopping, Escapes, callVars, poolVars, config
<1> QED BY <1>3, <1>4, <1>5, <1>6, <1>7, <1>8 DEF ChainInv

LEMMA WorkerTakesStep ==
  ASSUME ChainInv, NEW w \in Workers, WorkerTakes(w)
  PROVE  ChainInv'
<1> DEFINE t == Head(shards[w])
<1>1. /\ TypeInv /\ wpc[w] = "select" /\ shards[w] # << >> /\ shards[w] \in Seq(Tasks)
      /\ task' = [task EXCEPT ![w] = t] /\ shards' = [shards EXCEPT ![w] = Tail(shards[w])]
      /\ run' = [run EXCEPT ![t] = "running"] /\ wpc' = [wpc EXCEPT ![w] = "run"]
      /\ UNCHANGED <<config, callVars, answer, expired, closed, done, shut, spc, crashed>>
  BY DEF WorkerTakes, WorkerAt, ChainInv, TypeInv
<1>2. /\ t \in Tasks /\ t = shards[w][1] /\ 1 \in 1 .. Len(shards[w])
      /\ Tail(shards[w]) \in Seq(Tasks) /\ Len(Tail(shards[w])) = Len(shards[w]) - 1
      /\ \A i \in 1 .. Len(shards[w]) - 1 : Tail(shards[w])[i] = shards[w][i + 1]
      /\ Len(shards[w]) \in Nat
  BY <1>1
<1> HIDE DEF t
<1>3. run[t] = "waiting" BY <1>2 DEF ChainInv, Waiting
<1>4. run'[t] = "running" /\ \A u \in Tasks \ {t} : run'[u] = run[u] BY <1>1, <1>2 DEF TypeInv
<1>5. TypeInv' BY <1>1, <1>2 DEF TypeInv, callVars
<1>6. Attempts' BY <1>1, <1>2, <1>3, HandlerMoves DEF callVars
<1>7. Answers'
  <2>1. answer[t] \in Outcomes \cup {"none"} BY <1>1, <1>2 DEF TypeInv
  <2>2. answer[t] = "none" BY <1>2, <1>3, <2>1 DEF ChainInv, Answers, Outcomes
  <2> QED BY <1>1, <1>4, <2>2 DEF ChainInv, Answers
<1>8. Waiting'
  <2>1. \A v, u \in Workers : \A i \in 1 .. Len(shards[v]), j \in 1 .. Len(shards[u]) :
          shards[u][j] = shards[v][i] => u = v /\ j = i
    BY DEF ChainInv, Waiting
  <2>2. \A v \in Workers : \A i \in 1 .. Len(shards[v]) :
          shards[v][i] \in Tasks /\ run[shards[v][i]] = "waiting"
    BY <1>1 DEF ChainInv, Waiting, TypeInv
  <2>3. /\ shards'[w] = Tail(shards[w]) /\ \A v \in Workers \ {w} : shards'[v] = shards[v]
    BY <1>1 DEF TypeInv
  <2>4. \A v \in Workers \ {w} : \A i \in 1 .. Len(shards'[v]) :
          i \in 1 .. Len(shards[v]) /\ shards'[v][i] = shards[v][i]
    BY <2>3
  <2>5. \A i \in 1 .. Len(shards'[w]) :
          i \in Nat \ {0} /\ i + 1 \in 1 .. Len(shards[w]) /\ shards'[w][i] = shards[w][i + 1]
    BY <1>2, <2>3
  <2>6. \A v \in Workers : \A i \in 1 .. Len(shards'[v]) :
          shards'[v][i] # t /\ shards'[v][i] \in Tasks /\ run[shards'[v][i]] = "waiting"
    <3>1. SUFFICES ASSUME NEW v \in Workers, NEW i \in 1 .. Len(shards'[v])
                   PROVE  shards'[v][i] # t /\ shards'[v][i] \in Tasks /\ run[shards'[v][i]] = "waiting"
      OBVIOUS
    <3>2. CASE v = w
      <4>1. i + 1 \in 1 .. Len(shards[w]) /\ shards'[w][i] = shards[w][i + 1] /\ i + 1 # 1
        BY <2>5, <3>2
      <4> QED BY <1>2, <2>1, <2>2, <3>2, <4>1
    <3>3. CASE v # w BY <1>2, <2>1, <2>2, <2>4, <3>3
    <3> QED BY <3>2, <3>3
  <2>7. \A v, u \in Workers : \A i \in 1 .. Len(shards'[v]), j \in 1 .. Len(shards'[u]) :
          shards'[u][j] = shards'[v][i] => u = v /\ j = i
    <3>1. SUFFICES ASSUME NEW v \in Workers, NEW u \in Workers, NEW i \in 1 .. Len(shards'[v]),
                          NEW j \in 1 .. Len(shards'[u]), shards'[u][j] = shards'[v][i]
                   PROVE  u = v /\ j = i
      OBVIOUS
    <3>2. CASE v = w /\ u = w
      <4>0. /\ i + 1 \in 1 .. Len(shards[w]) /\ j + 1 \in 1 .. Len(shards[w])
            /\ shards[w][j + 1] = shards[w][i + 1]
        BY <2>5, <3>1, <3>2
      <4>1. i + 1 = j + 1 BY <2>1, <4>0
      <4>2. i \in Nat /\ j \in Nat BY <2>5, <3>2
      <4> QED BY <3>2, <4>1, <4>2
    <3>3. CASE v # w /\ u # w BY <2>1, <2>4, <3>1, <3>3
    <3>4. CASE v = w /\ u # w BY <2>1, <2>4, <2>5, <3>1, <3>4
    <3>5. CASE v # w /\ u = w
      <4>1. j + 1 \in 1 .. Len(shards[w]) /\ shards[w][j + 1] = shards[v][i]
        BY <2>4, <2>5, <3>1, <3>5
      <4> QED BY <2>1, <2>4, <3>5, <4>1
    <3> QED BY <3>2, <3>3, <3>4, <3>5
  <2> QED BY <1>4, <2>6, <2>7 DEF Waiting
<1>9. OnWorkers'
  <2>1. /\ task'[w] = t /\ wpc'[w] = "run"
        /\ \A v \in Workers \ {w} : task'[v] = task[v] /\ wpc'[v] = wpc[v]
    BY <1>1 DEF TypeInv
  <2>2. \A v \in Workers : wpc'[v] = "run" => task'[v] \in Tasks
    BY <1>2, <2>1 DEF ChainInv, OnWorkers
  <2>3. ASSUME pooled, NEW u \in Tasks, run'[u] \in {"running", "hangs"}
        PROVE  \E v \in Workers : wpc'[v] = "run" /\ task'[v] = u
    <3>1. CASE u = t BY <2>1, <3>1
    <3>2. CASE u # t
      <4>1. PICK v \in Workers : wpc[v] = "run" /\ task[v] = u
        BY <1>4, <2>3, <3>2 DEF ChainInv, OnWorkers
      <4> QED BY <1>1, <2>1, <4>1
    <3> QED BY <3>1, <3>2
  <2>4. spc # "stopped" BY <1>1 DEF ChainInv, OnWorkers
  <2> QED BY <1>1, <2>2, <2>3, <2>4 DEF OnWorkers, config
<1>10. Stopping' BY <1>1 DEF ChainInv, Stopping, Escapes, callVars, config
<1> QED BY <1>5, <1>6, <1>7, <1>8, <1>9, <1>10 DEF ChainInv

LEMMA WorkerEndsTaskStep ==
  ASSUME ChainInv, NEW w \in Workers, WorkerEndsTask(w)
  PROVE  ChainInv'
<1>1. /\ TypeInv /\ wpc[w] = "run" /\ wpc' = [wpc EXCEPT ![w] = "select"]
      /\ task' = [task EXCEPT ![w] = NoTask]
      /\ UNCHANGED <<config, callVars, expired, closed, done, shards, shut, spc>>
  BY DEF WorkerEndsTask, WorkerAt, ChainInv
<1>2. task[w] \in Tasks BY <1>1 DEF ChainInv, OnWorkers
<1>3. PICK o \in Outcomes : HandlerEnds(task[w], o) BY DEF WorkerEndsTask
<1>4. /\ run' = [run EXCEPT ![task[w]] = o] /\ answer' \in [Tasks -> Outcomes \cup {"none"}]
      /\ Answers' /\ Attempts' /\ Waiting' /\ Stopping'
  BY <1>1, <1>2, <1>3, HandlerEndsStep
<1>5. TypeInv' BY <1>1, <1>2, <1>4 DEF TypeInv, callVars
<1>6. OnWorkers'
  <2>1. /\ wpc'[w] = "select" /\ \A v \in Workers \ {w} : task'[v] = task[v] /\ wpc'[v] = wpc[v]
    BY <1>1 DEF TypeInv
  <2>2. \A v \in Workers : wpc'[v] = "run" => task'[v] \in Tasks
    BY <2>1 DEF ChainInv, OnWorkers
  <2>3. ASSUME pooled, NEW u \in Tasks, run'[u] \in {"running", "hangs"}
        PROVE  \E v \in Workers : wpc'[v] = "run" /\ task'[v] = u
    <3>1. u # task[w] /\ run[u] \in {"running", "hangs"}
      BY <1>1, <1>2, <1>4, <2>3 DEF TypeInv, Outcomes
    <3>2. PICK v \in Workers : wpc[v] = "run" /\ task[v] = u
      BY <2>3, <3>1 DEF ChainInv, OnWorkers
    <3> QED BY <2>1, <3>1, <3>2
  <2>4. spc # "stopped" BY <1>1 DEF ChainInv, OnWorkers
  <2> QED BY <1>1, <2>2, <2>3, <2>4 DEF OnWorkers, config
<1> QED BY <1>4, <1>5, <1>6 DEF ChainInv

LEMMA WorkerLeavesStep ==
  ASSUME ChainInv, NEW w \in Workers, WorkerLeaves(w)
  PROVE  ChainInv'
<1>1. /\ TypeInv /\ wpc[w] = "select" /\ wpc' = [wpc EXCEPT ![w] = "gone"]
      /\ UNCHANGED <<config, callVars, taskVars, closed, done, shards, shut, task, spc, crashed>>
  BY DEF WorkerLeaves, WorkerAt, ChainInv
<1>2. TypeInv' BY <1>1 DEF TypeInv, callVars, taskVars
<1>3. Answers' /\ Waiting' /\ Stopping'
  BY <1>1 DEF ChainInv, Answers, Waiting, Stopping, Escapes, config, callVars, taskVars
<1>4. Attempts' BY <1>1, AttemptsStay DEF callVars, taskVars
<1>5. OnWorkers'
  <2>1. \A v \in Workers : wpc'[v] = wpc[v] \/ (v = w /\ wpc'[v] = "gone") BY <1>1 DEF TypeInv
  <2> QED BY <1>1, <2>1 DEF ChainInv, OnWorkers, config, taskVars
<1> QED BY <1>2, <1>3, <1>4, <1>5 DEF ChainInv

LEMMA StopStep ==
  ASSUME ChainInv, Stop \/ Stopper
  PROVE  ChainInv'
<1>1. /\ UNCHANGED <<config, callVars, taskVars, shards, wpc, task, crashed>>
      /\ closed => closed'
      /\ shut' \subseteq Workers
      /\ spc' = "stopped" => \A w \in Workers : wpc[w] = "gone"
  BY DEF Stop, Stopper, StopCloseDone, StopCloseShard, StopWait, StopAt, ChainInv, TypeInv,
         OnWorkers
<1>2. TypeInv' BY <1>1 DEF ChainInv, TypeInv, callVars, taskVars
<1>3. Answers' /\ Waiting' BY <1>1 DEF ChainInv, Answers, Waiting, taskVars
<1>4. Attempts' BY <1>1, AttemptsStay DEF callVars, taskVars
<1>5. OnWorkers' BY <1>1 DEF ChainInv, OnWorkers, config, taskVars
<1>6. Stopping'
  <2>1. /\ spc' \in {"idle", "closeDone", "closeShards", "stopped"}
        /\ spc' \in {"closeDone", "closeShards", "stopped"} \/ shut' # {} => closed'
        /\ shut' # {} => spc' \in {"closeShards", "stopped"}
    BY DEF Stop, Stopper, StopCloseDone, StopCloseShard, StopWait, StopAt, ChainInv, Stopping
  <2> QED BY <1>1, <2>1 DEF ChainInv, Stopping, Escapes, config, callVars
<1> QED BY <1>2, <1>3, <1>4, <1>5, <1>6 DEF ChainInv

LEMMA ChainStep == ChainInv /\ [Next]_vars => ChainInv'
<1>1. SUFFICES ASSUME ChainInv, [Next]_vars PROVE ChainInv' OBVIOUS
<1>2. CASE UNCHANGED vars
  <2>1. UNCHANGED <<config, callVars, taskVars, poolVars, crashed>> BY <1>2 DEF vars
  <2>2. TypeInv' BY <1>1, <2>1 DEF ChainInv, TypeInv, callVars, taskVars, poolVars
  <2>3. Attempts' BY <1>1, <2>1, AttemptsStay DEF callVars, taskVars
  <2> QED BY <1>1, <2>1, <2>2, <2>3
          DEF ChainInv, Answers, Waiting, OnWorkers, Stopping, Escapes, config, callVars,
              taskVars, poolVars
<1>3. ASSUME NEW c \in Calls, Call(c) \/ Caller(c) PROVE ChainInv'
  BY <1>1, <1>3, CallStep, StartGoroutineStep, SubmitCheckStep, SubmitSendStep, ReceiveStep,
     TimerFiresStep, DecideStep DEF Caller
<1>4. ASSUME NEW t \in Tasks, GoroutineEnds(t) \/ HandlerHangs(t) PROVE ChainInv'
  BY <1>1, <1>4, GoroutineEndsStep, HandlerHangsStep
<1>5. ASSUME NEW w \in Workers, Worker(w) PROVE ChainInv'
  BY <1>1, <1>5, WorkerTakesStep, WorkerEndsTaskStep, WorkerLeavesStep DEF Worker
<1>6. CASE Stop \/ Stopper BY <1>1, <1>6, StopStep
<1> QED BY <1>1, <1>2, <1>3, <1>4, <1>5, <1>6 DEF Next

(* The invariant holds in every reachable state.                           *)
THEOREM ChainInvariant == Spec => []ChainInv
<1> QED BY ChainInit, ChainStep, PTL DEF Spec

(* However late answers come and however many attempts a call makes, it is *)
(* told nil only by the attempt it waits for, and tries again after a      *)
(* success only if the timer was faster.                                   *)
THEOREM AnswersAreOwn == Spec => []AnswerIsOwn
<1>1. ASSUME ChainInv PROVE AnswerIsOwn
  <2>1. \A c \in Calls : attempt[c] \in 0 .. MaxRetries BY <1>1 DEF ChainInv, TypeInv
  <2>2. MaxRetries \in Nat BY MiddlewareAssumption
  <2>3. \A c \in Calls : \A k \in 0 .. attempt[c] - 1 : k \in 0 .. MaxRetries /\ k < attempt[c]
    BY <2>1, <2>2
  <2>4. \A c \in Calls : \A k \in 0 .. attempt[c] - 1 : run[<<c, k>>] = "nil" => <<c, k>> \in expired
    BY <1>1, <2>3 DEF ChainInv, Attempts
  <2> QED BY <1>1, <2>4 DEF ChainInv, Attempts, AnswerIsOwn
<1> QED BY <1>1, ChainInvariant, PTL

(* A panic ends the process only where no recoverer and no callback of the *)
(* pool is in its way, and reaches a caller only from its own Submit.      *)
THEOREM PanicsStayIn == Spec => []PanicStaysIn
<1>1. ChainInv => PanicStaysIn BY DEF ChainInv, Stopping, Escapes, PanicStaysIn
<1> QED BY <1>1, ChainInvariant, PTL

(* When Stop has returned the pool runs no task any more, and none begins, *)
(* whatever is left in its shards (wpool.go 100-110).                      *)
QuietAfterStop ==
  spc = "stopped" =>
    \A t \in Tasks : run[t] \in {"running", "hangs"} => ~pooled

(* The same of the tasks themselves, wherever the workers are: no handler  *)
(* runs on a pool that has stopped.                                        *)
THEOREM StoppedPoolIsQuiet == Spec => []QuietAfterStop
<1>1. ChainInv => QuietAfterStop
  BY DEF ChainInv, OnWorkers, QuietAfterStop
<1> QED BY <1>1, ChainInvariant, PTL
-----------------------------------------------------------------------------
(***************************************************************************)
(* The pool as a Dispatcher.  The workers' tasks have begun and are        *)
(* different ones; without a pool there are none.                          *)
(***************************************************************************)
OnePlace ==
  /\ \A c \in Calls : cpc[c] = "send" => pooled
  /\ \A w \in Workers : shards[w] # << >> \/ wpc[w] = "run" => pooled
  /\ \A w \in Workers : wpc[w] = "run" => run[task[w]] \in {"running", "hangs"}
  /\ \A w, v \in Workers :
       wpc[w] = "run" /\ wpc[v] = "run" /\ task[v] = task[w] => v = w

LEMMA InShard ==
  ASSUME TypeInv, NEW t
  PROVE  t \in InShards <=> \E w \in Workers : \E i \in 1 .. Len(shards[w]) : shards[w][i] = t
<1>1. \A w \in Workers : DOMAIN shards[w] = 1 .. Len(shards[w]) BY DEF TypeInv
<1> QED BY <1>1 DEF InShards, ToSet

(* A task in a shard waits, one at work has begun.                         *)
LEMMA Apart ==
  ASSUME ChainInv, OnePlace, NEW t
  PROVE  /\ t \in InShards => t \in Tasks /\ run[t] = "waiting"
         /\ t \in AtWork => t \in Tasks /\ run[t] \in {"running", "hangs"}
<1>1. TypeInv BY DEF ChainInv
<1>2. ASSUME t \in InShards PROVE t \in Tasks /\ run[t] = "waiting"
  <2>1. PICK w \in Workers : \E i \in 1 .. Len(shards[w]) : shards[w][i] = t
    BY <1>1, <1>2, InShard
  <2>2. PICK i \in 1 .. Len(shards[w]) : shards[w][i] = t BY <2>1
  <2> QED BY <1>1, <2>2 DEF ChainInv, Waiting, TypeInv
<1>3. ASSUME t \in AtWork PROVE t \in Tasks /\ run[t] \in {"running", "hangs"}
  BY <1>3 DEF AtWork, OnePlace, ChainInv, OnWorkers
<1> QED BY <1>2, <1>3

(* Nothing that Dispatcher sees changes.                                   *)
LEMMA Unseen ==
  ASSUME UNCHANGED <<shards, wpc, task, spc>>
  PROVE  UNCHANGED D!vars
BY DEF D!vars, D!places, InShards, AtWork, StopPhase

LEMMA SendIsSubmit ==
  ASSUME ChainInv, OnePlace, NEW c \in Calls, SubmitSend(c)
  PROVE  OnePlace' /\ [D!Next]_D!vars
<1>1. /\ cpc[c] = "send" /\ UNCHANGED <<config, wpc, task, spc>> /\ TypeInv
      /\ Current(c) \in Tasks /\ run[Current(c)] = "none" /\ pooled
  BY CurrentTask, BeginningIsNotNil DEF SubmitSend, At, ChainInv, OnePlace
<1>2. \A d \in Calls : cpc'[d] = "send" => cpc[d] = "send"
  BY <1>1 DEF SubmitSend, Give, TypeInv
<1>3. CASE UNCHANGED <<run, shards>>
  <2>1. OnePlace' BY <1>1, <1>2, <1>3 DEF OnePlace, config
  <2> QED BY <1>1, <1>3, <2>1, Unseen
<1>4. ASSUME NEW w \in Workers, shards' = [shards EXCEPT ![w] = Append(shards[w], Current(c))],
             run' = [run EXCEPT ![Current(c)] = "waiting"]
      PROVE  OnePlace' /\ [D!Next]_D!vars
  <2>1. \A v \in Workers : wpc[v] = "run" => task[v] \in Tasks /\ run'[task[v]] = run[task[v]]
    <3>1. \A v \in Workers : wpc[v] = "run" => task[v] \in Tasks /\ run[task[v]] # "none"
      BY DEF ChainInv, OnWorkers, OnePlace
    <3> QED BY <1>1, <1>4, <3>1 DEF TypeInv
  <2>2. OnePlace' BY <1>1, <1>2, <2>1 DEF OnePlace, config
  <2>3. /\ Len(shards'[w]) = Len(shards[w]) + 1 /\ Len(shards[w]) \in Nat
        /\ \A i \in 1 .. Len(shards[w]) : shards'[w][i] = shards[w][i]
        /\ shards'[w][Len(shards[w]) + 1] = Current(c)
        /\ \A v \in Workers \ {w} : shards'[v] = shards[v]
        /\ DOMAIN shards'[w] = 1 .. Len(shards[w]) + 1
        /\ DOMAIN shards[w] = 1 .. Len(shards[w])
    BY <1>1, <1>4 DEF TypeInv
  <2>4. ToSet(shards'[w]) = ToSet(shards[w]) \cup {Current(c)}
    <3>1. \A i \in 1 .. Len(shards[w]) + 1 : i \in 1 .. Len(shards[w]) \/ i = Len(shards[w]) + 1
      BY <2>3
    <3>2. Len(shards[w]) + 1 \in 1 .. Len(shards[w]) + 1 BY <2>3
    <3>3. ASSUME NEW i \in 1 .. Len(shards[w]) + 1
          PROVE  shards'[w][i] \in ToSet(shards[w]) \cup {Current(c)}
      BY <2>3, <3>1 DEF ToSet
    <3>4. Current(c) \in ToSet(shards'[w]) BY <2>3, <3>2 DEF ToSet
    <3>5. \A i \in 1 .. Len(shards[w]) : shards[w][i] \in ToSet(shards'[w])
      BY <2>3 DEF ToSet
    <3>6. \A u \in ToSet(shards'[w]) : u \in ToSet(shards[w]) \cup {Current(c)}
      BY <2>3, <3>3 DEF ToSet
    <3>7. \A u \in ToSet(shards[w]) : u \in ToSet(shards'[w])
      BY <2>3, <3>5 DEF ToSet
    <3> QED BY <3>4, <3>6, <3>7
  <2>5. InShards' = InShards \cup {Current(c)} BY <2>3, <2>4 DEF InShards
  <2>6. AtWork' = AtWork /\ StopPhase' = StopPhase BY <1>1 DEF AtWork, StopPhase
  <2>7. Current(c) \notin InShards /\ Current(c) \notin AtWork BY <1>1, Apart
  <2>8. D!Submit(Current(c)) BY <1>1, <2>5, <2>6, <2>7 DEF D!Submit
  <2> QED BY <1>1, <2>2, <2>8 DEF D!Next
<1> QED BY <1>3, <1>4 DEF SubmitSend

LEMMA TakeIsTake ==
  ASSUME ChainInv, OnePlace, NEW w \in Workers, WorkerTakes(w)
  PROVE  OnePlace' /\ [D!Next]_D!vars
<1> DEFINE t == Head(shards[w])
<1>1. /\ TypeInv /\ wpc[w] = "select" /\ shards[w] # << >> /\ shards[w] \in Seq(Tasks)
      /\ task' = [task EXCEPT ![w] = t] /\ shards' = [shards EXCEPT ![w] = Tail(shards[w])]
      /\ run' = [run EXCEPT ![t] = "running"] /\ wpc' = [wpc EXCEPT ![w] = "run"]
      /\ UNCHANGED <<config, callVars, spc>>
  BY DEF WorkerTakes, WorkerAt, ChainInv, TypeInv
<1>2. /\ t \in Tasks /\ t = shards[w][1] /\ 1 \in 1 .. Len(shards[w])
      /\ Len(shards'[w]) = Len(shards[w]) - 1 /\ Len(shards[w]) \in Nat
      /\ \A i \in 1 .. Len(shards[w]) - 1 : shards'[w][i] = shards[w][i + 1]
      /\ DOMAIN shards'[w] = 1 .. Len(shards[w]) - 1
      /\ DOMAIN shards[w] = 1 .. Len(shards[w])
      /\ \A v \in Workers \ {w} : shards'[v] = shards[v]
  BY <1>1 DEF TypeInv
<1>3. /\ task'[w] = t /\ wpc'[w] = "run"
      /\ \A v \in Workers \ {w} : task'[v] = task[v] /\ wpc'[v] = wpc[v]
  BY <1>1 DEF TypeInv
<1> HIDE DEF t
<1>4. t \in InShards BY <1>1, <1>2, InShard
<1>5. run[t] = "waiting" /\ t \notin AtWork /\ pooled
  <2>1. run[t] = "waiting" BY <1>4, Apart
  <2> QED BY <1>1, <2>1, Apart DEF OnePlace
<1>6. run'[t] = "running" /\ \A u \in Tasks \ {t} : run'[u] = run[u] BY <1>1, <1>2 DEF TypeInv
<1>7. \A v \in Workers \ {w} : wpc[v] = "run" =>
         task[v] \in Tasks /\ task[v] # t /\ run[task[v]] \in {"running", "hangs"}
  BY <1>5 DEF OnePlace, ChainInv, OnWorkers
<1>8. OnePlace'
  <2>1. \A v \in Workers : wpc'[v] = "run" => run'[task'[v]] \in {"running", "hangs"}
    BY <1>3, <1>6, <1>7
  <2>2. \A u, v \in Workers :
           wpc'[u] = "run" /\ wpc'[v] = "run" /\ task'[v] = task'[u] => v = u
    BY <1>3, <1>7 DEF OnePlace
  <2> QED BY <1>1, <1>5, <2>1, <2>2 DEF OnePlace, config, callVars
<1>9. AtWork' = AtWork \cup {t} BY <1>1, <1>3 DEF AtWork
<1>10. InShards' = InShards \ {t}
  <2>1. \A v, u \in Workers : \A i \in 1 .. Len(shards[v]), j \in 1 .. Len(shards[u]) :
          shards[u][j] = shards[v][i] => u = v /\ j = i
    BY DEF ChainInv, Waiting
  <2>2. \A v \in Workers \ {w} : t \notin ToSet(shards[v])
    <3>1. \A v \in Workers : DOMAIN shards[v] = 1 .. Len(shards[v]) BY <1>1 DEF TypeInv
    <3>2. ASSUME NEW v \in Workers, NEW i \in 1 .. Len(shards[v]), shards[v][i] = t
          PROVE  v = w
      BY <1>2, <2>1, <3>2
    <3> QED BY <3>1, <3>2 DEF ToSet
  <2>3. ToSet(shards'[w]) = ToSet(shards[w]) \ {t}
    <3>1. \A i \in 1 .. Len(shards[w]) - 1 :
             i + 1 \in 1 .. Len(shards[w]) /\ i + 1 # 1 /\ shards'[w][i] = shards[w][i + 1]
      BY <1>2
    <3>2. \A i \in 1 .. Len(shards[w]) : shards[w][i] # t =>
             i - 1 \in 1 .. Len(shards[w]) - 1 /\ shards'[w][i - 1] = shards[w][i]
      <4>1. \A i \in 1 .. Len(shards[w]) : i # 1 =>
               i - 1 \in 1 .. Len(shards[w]) - 1 /\ (i - 1) + 1 = i
        BY <1>2
      <4> QED BY <1>2, <4>1
    <3>3. \A i \in 1 .. Len(shards[w]) : i # 1 => shards[w][i] # t BY <1>2, <2>1
    <3>4. ASSUME NEW u \in ToSet(shards'[w]) PROVE u \in ToSet(shards[w]) \ {t}
      BY <1>2, <3>1, <3>3 DEF ToSet
    <3>5. ASSUME NEW u \in ToSet(shards[w]) \ {t} PROVE u \in ToSet(shards'[w])
      <4>1. PICK i \in 1 .. Len(shards[w]) : shards[w][i] = u BY <1>2 DEF ToSet
      <4>2. i - 1 \in 1 .. Len(shards[w]) - 1 /\ shards'[w][i - 1] = u BY <3>2, <4>1
      <4>3. DOMAIN shards'[w] = 1 .. Len(shards[w]) - 1 BY <1>2
      <4> QED BY <4>2, <4>3 DEF ToSet
    <3> QED BY <3>4, <3>5
  <2>4. \A u : u \in InShards <=> \E v \in Workers : u \in ToSet(shards[v]) BY DEF InShards
  <2>5. \A u : u \in InShards' <=> \E v \in Workers : u \in ToSet(shards'[v]) BY DEF InShards
  <2>6. \A v \in Workers \ {w} : ToSet(shards'[v]) = ToSet(shards[v]) BY <1>2
  <2> QED BY <2>2, <2>3, <2>4, <2>5, <2>6
<1>11. spc # "stopped" BY <1>1 DEF ChainInv, OnWorkers
<1>12. D!Take(t)
  <2>1. StopPhase' = StopPhase BY <1>1 DEF StopPhase
  <2>2. StopPhase # "joined"
    <3>1. spc \in {"idle", "closeDone", "closeShards", "stopped"} BY DEF ChainInv, Stopping
    <3> QED BY <1>11, <3>1 DEF StopPhase
  <2> QED BY <1>4, <1>9, <1>10, <2>1, <2>2 DEF D!Take
<1> QED BY <1>2, <1>8, <1>12 DEF D!Next

LEMMA EndIsFinish ==
  ASSUME ChainInv, OnePlace, NEW w \in Workers, WorkerEndsTask(w)
  PROVE  OnePlace' /\ [D!Next]_D!vars
<1> DEFINE t == task[w]
<1>1. /\ TypeInv /\ wpc[w] = "run" /\ wpc' = [wpc EXCEPT ![w] = "select"]
      /\ task' = [task EXCEPT ![w] = NoTask]
      /\ UNCHANGED <<config, callVars, shards, spc>>
      /\ \E o : run' = [run EXCEPT ![t] = o]
  BY DEF WorkerEndsTask, WorkerAt, HandlerEnds, ChainInv
<1>2. t \in Tasks /\ t \in AtWork BY <1>1 DEF ChainInv, OnWorkers, AtWork
<1>3. /\ wpc'[w] = "select"
      /\ \A v \in Workers \ {w} : task'[v] = task[v] /\ wpc'[v] = wpc[v]
      /\ \A u \in Tasks \ {t} : run'[u] = run[u]
  BY <1>1, <1>2 DEF TypeInv
<1>4. \A v \in Workers \ {w} : wpc[v] = "run" => task[v] \in Tasks \ {t}
  BY <1>1 DEF OnePlace, ChainInv, OnWorkers
<1> HIDE DEF t
<1>5. OnePlace'
  <2>1. \A v \in Workers : wpc'[v] = "run" => v # w /\ wpc[v] = "run" BY <1>3
  <2>2. \A v \in Workers : wpc'[v] = "run" => run'[task'[v]] \in {"running", "hangs"}
    BY <1>3, <1>4, <2>1 DEF OnePlace
  <2>3. \A u, v \in Workers :
           wpc'[u] = "run" /\ wpc'[v] = "run" /\ task'[v] = task'[u] => v = u
    BY <1>3, <2>1 DEF OnePlace
  <2> QED BY <1>1, <2>1, <2>2, <2>3 DEF OnePlace, config, callVars
<1>6. AtWork' = AtWork \ {t}
  <2>1. ASSUME NEW u \in AtWork' PROVE u \in AtWork \ {t}
    <3>1. PICK v \in Workers : wpc'[v] = "run" /\ task'[v] = u BY <2>1 DEF AtWork
    <3>2. v # w /\ wpc[v] = "run" /\ task[v] = u BY <1>3, <3>1
    <3> QED BY <1>4, <3>2 DEF AtWork
  <2>2. ASSUME NEW u \in AtWork, u # t PROVE u \in AtWork'
    <3>1. PICK v \in Workers : wpc[v] = "run" /\ task[v] = u BY DEF AtWork
    <3>2. v # w BY <2>2, <3>1 DEF t
    <3>3. wpc'[v] = "run" /\ task'[v] = u BY <1>3, <3>1, <3>2
    <3> QED BY <3>3 DEF AtWork
  <2> QED BY <2>1, <2>2
<1>7. InShards' = InShards /\ StopPhase' = StopPhase BY <1>1 DEF InShards, StopPhase
<1>8. t \notin InShards BY <1>2, Apart
<1>9. D!Finish(t) BY <1>2, <1>6, <1>7, <1>8 DEF D!Finish
<1> QED BY <1>2, <1>5, <1>9 DEF D!Next

LEMMA StopIsStop ==
  ASSUME ChainInv, OnePlace, Stop \/ Stopper
  PROVE  OnePlace' /\ [D!Next]_D!vars
<1>1. UNCHANGED <<config, callVars, taskVars, shards, wpc, task>>
  BY DEF Stop, Stopper, StopCloseDone, StopCloseShard, StopWait
<1>2. OnePlace' BY <1>1 DEF OnePlace, config, callVars, taskVars
<1>3. UNCHANGED D!places BY <1>1 DEF D!places, InShards, AtWork
<1>4. CASE Stop
  <2>1. StopPhase = "running" /\ StopPhase' = "stopping" BY <1>4 DEF Stop, StopAt, StopPhase
  <2> QED BY <1>2, <1>3, <2>1 DEF D!Next, D!Stop
<1>5. CASE StopCloseDone
  <2>1. StopPhase = "stopping" /\ StopPhase' = "closed"
    BY <1>5 DEF StopCloseDone, StopAt, StopPhase
  <2> QED BY <1>2, <1>3, <2>1 DEF D!Next, D!Stop
<1>6. CASE StopCloseShard
  <2>1. UNCHANGED spc BY <1>6 DEF StopCloseShard
  <2> QED BY <1>1, <1>2, <2>1, Unseen
<1>7. CASE StopWait
  <2>1. StopPhase = "closed" /\ StopPhase' = "joined" BY <1>7 DEF StopWait, StopAt, StopPhase
  <2>2. AtWork = {} BY <1>7 DEF StopWait, AtWork
  <2> QED BY <1>2, <1>3, <2>1, <2>2 DEF D!Next, D!Stop
<1> QED BY <1>4, <1>5, <1>6, <1>7 DEF Stopper

LEMMA PoolStep == ChainInv /\ OnePlace /\ [Next]_vars => OnePlace' /\ [D!Next]_D!vars
<1> SUFFICES ASSUME ChainInv, OnePlace, [Next]_vars PROVE OnePlace' /\ [D!Next]_D!vars
  OBVIOUS
<1>1. TypeInv BY DEF ChainInv
<1>2. CASE /\ UNCHANGED <<config, shards, wpc, task, spc>>
           /\ \A c \in Calls : cpc'[c] = "send" => cpc[c] = "send" \/ pooled
           /\ \A t \in Tasks : run[t] \in {"running", "hangs"} =>
                run'[t] \in {"running", "hangs"} \/ ~pooled
  <2>1. \A w \in Workers : wpc[w] = "run" =>
           pooled /\ task[w] \in Tasks /\ run[task[w]] \in {"running", "hangs"}
    BY DEF OnePlace, ChainInv, OnWorkers
  <2>2. OnePlace' BY <1>2, <2>1 DEF OnePlace, config
  <2> QED BY <1>2, <2>2, Unseen
<1>3. ASSUME NEW c \in Calls, Call(c) \/ Caller(c) PROVE OnePlace' /\ [D!Next]_D!vars
  <2>1. CASE SubmitSend(c) BY <2>1, SendIsSubmit
  <2>2. CASE StartGoroutine(c)
    BY <1>1, <1>2, <2>2 DEF StartGoroutine, TypeInv, poolVars
  <2>3. CASE SubmitCheck(c)
    BY <1>1, <1>2, <2>3 DEF SubmitCheck, Give, TypeInv, poolVars, taskVars
  <2>4. CASE Call(c) \/ Receive(c) \/ TimerFires(c) \/ Decide(c)
    BY <1>1, <1>2, <2>4
       DEF Call, Receive, TimerFires, Decide, Give, TypeInv, poolVars, taskVars
  <2> QED BY <1>3, <2>1, <2>2, <2>3, <2>4 DEF Caller
<1>4. ASSUME NEW t \in Tasks, GoroutineEnds(t) \/ HandlerHangs(t)
      PROVE  OnePlace' /\ [D!Next]_D!vars
  <2>1. CASE GoroutineEnds(t) BY <1>2, <2>1 DEF GoroutineEnds, poolVars, callVars
  <2>2. CASE HandlerHangs(t) BY <1>1, <1>2, <2>2 DEF HandlerHangs, TypeInv, poolVars, callVars
  <2> QED BY <1>4, <2>1, <2>2
<1>5. ASSUME NEW w \in Workers, Worker(w) PROVE OnePlace' /\ [D!Next]_D!vars
  <2>1. CASE WorkerLeaves(w)
    <3>1. /\ UNCHANGED <<config, callVars, taskVars, shards, task, spc>>
          /\ wpc[w] = "select" /\ wpc' = [wpc EXCEPT ![w] = "gone"]
      BY <2>1 DEF WorkerLeaves, WorkerAt
    <3>2. \A v \in Workers : wpc'[v] = "run" <=> wpc[v] = "run" BY <1>1, <3>1 DEF TypeInv
    <3>3. OnePlace' BY <3>1, <3>2 DEF OnePlace, config, callVars, taskVars
    <3>4. UNCHANGED D!vars BY <3>1, <3>2 DEF D!vars, D!places, InShards, AtWork, StopPhase
    <3> QED BY <3>3, <3>4
  <2> QED BY <1>5, <2>1, TakeIsTake, EndIsFinish DEF Worker
<1>6. CASE UNCHANGED vars
  BY <1>2, <1>6 DEF vars, callVars, taskVars, poolVars
<1> QED BY <1>3, <1>4, <1>5, <1>6, StopIsStop DEF Next

LEMMA PoolInit == Init => OnePlace /\ D!Init
<1> SUFFICES ASSUME Init PROVE OnePlace /\ D!Init
  OBVIOUS
<1>1. OnePlace BY DEF Init, OnePlace
<1>2. InShards = {} BY DEF Init, InShards, ToSet
<1>3. AtWork = {} /\ StopPhase = "running" BY DEF Init, AtWork, StopPhase
<1> QED BY <1>1, <1>2, <1>3 DEF D!Init

(* For any number of workers, sizes of shards and ways to build the chain, *)
(* the pool implements Dispatcher: no accepted task is lost or run twice,  *)
(* none is taken after Stop has returned, and Stop waits for the tasks on  *)
(* workers, those that hang too (wpool.go 55-68, 81-93, 100-110).          *)
THEOREM PoolImplements == Spec => PoolIsDispatcher
<1> QED BY ChainInit, ChainStep, PoolInit, PoolStep, PTL DEF Spec, PoolIsDispatcher, D!Spec
=============================================================================
