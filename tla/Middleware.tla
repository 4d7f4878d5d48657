------------------------------ MODULE Middleware ----------------------------
(***************************************************************************)
(* Handlers behind middleware: core.Chain of retry, timeout and recoverer  *)
(* around a handler, the handler run in a goroutine of its own or on the   *)
(* worker pool of internal/support/wpool.  The recoverer is the innermost  *)
(* or the outermost link of the chain; retry is outside timeout.           *)
(*                                                                         *)
(* The handler of one attempt is the task <<call, attempt>>: it may return *)
(* nil or an error, panic, or hang.  A timer may fire at any time, and a   *)
(* sleep may last as long as it likes, so that intervals and their growth  *)
(* are left out; so is the round robin of the pool's cursor, instead of    *)
(* which Submit picks any shard.                                           *)
(***************************************************************************)
EXTENDS Integers, Sequences, SequencesExt

CONSTANTS
  Calls,       \* calls of the wrapped handler, each by its own goroutine
  MaxRetries,  \* after the defaults, at least 1
  Retryable,   \* the errors that ShouldRetry accepts
  Workers,     \* the workers of the pool, each with its shard
  QueueSize,   \* the capacity of a shard
  Chains,      \* the ways the chain is built, as records of the next three variables
  NoTask

ASSUME MiddlewareAssumption ==
  /\ MaxRetries \in Nat \ {0} /\ QueueSize \in Nat \ {0}
  /\ Retryable \subseteq {"error", "panic", "timeout", "full"}
  /\ Chains \subseteq [pooled : BOOLEAN, guard : {"inside", "outside"}, onPanic : BOOLEAN]

Tasks == Calls \X (0 .. MaxRetries)

VARIABLES
  pooled,    \* whether timeout was made with NewWithPool
  guard,     \* where recoverer is in the chain, "inside" or "outside" timeout
  onPanic,   \* whether the pool has a callback for panics
  cpc, attempt,
  result,    \* result[c]: what the last attempt of c gave
  run,       \* run[t]: "none", "waiting", "running", or how the handler ended
  answer,    \* answer[t]: the content of the attempt's channel, or "none"
  expired,   \* history: the tasks whose timer fired
  closed, done,
  shards,    \* shards[w]: the tasks in w's channel
  shut,      \* the shards whose channel is closed
  wpc, task, \* what worker w does, and which task it has
  spc,       \* where Stop is
  crashed    \* a panic nobody recovered has ended the process

config == <<pooled, guard, onPanic>>
callVars == <<cpc, attempt, result>>
taskVars == <<run, answer, expired>>
poolVars == <<closed, done, shards, shut, wpc, task, spc>>
vars == <<config, callVars, taskVars, poolVars, crashed>>

Init ==
  /\ \E chain \in Chains :
       pooled = chain.pooled /\ guard = chain.guard /\ onPanic = chain.onPanic
  /\ cpc = [c \in Calls |-> "idle"]
  /\ attempt = [c \in Calls |-> 0]
  /\ result = [c \in Calls |-> "none"]
  /\ run = [t \in Tasks |-> "none"]
  /\ answer = [t \in Tasks |-> "none"]
  /\ expired = {}
  /\ closed = FALSE /\ done = FALSE
  /\ shards = [w \in Workers |-> << >>]
  /\ shut = {}
  /\ wpc = [w \in Workers |-> "select"]
  /\ task = [w \in Workers |-> NoTask]
  /\ spc = "idle" /\ crashed = FALSE

Current(c) == <<c, attempt[c]>>

(* Where the goroutines of a process that lives are.                       *)
At(c, l) == cpc[c] = l /\ ~crashed
WorkerAt(w, l) == wpc[w] = l /\ ~crashed
StopAt(l) == spc = l /\ ~crashed

(* The attempt of c has ended with r; retry looks at it next.              *)
Give(c, r) ==
  /\ result' = [result EXCEPT ![c] = r]
  /\ cpc' = [cpc EXCEPT ![c] = "decide"]
-----------------------------------------------------------------------------
(***************************************************************************)
(* The calling goroutine: retry around timeout.                            *)
(***************************************************************************)
Call(c) ==
  /\ At(c, "idle")
  /\ cpc' = [cpc EXCEPT ![c] = "start"]
  /\ UNCHANGED <<config, attempt, result, taskVars, poolVars, crashed>>

(* timeout.New starts a goroutine; NewWithPool calls Submit, which reads   *)
(* closed first.                                                           *)
StartGoroutine(c) ==
  /\ At(c, "start") /\ ~pooled
  /\ run' = [run EXCEPT ![Current(c)] = "running"]
  /\ cpc' = [cpc EXCEPT ![c] = "wait"]
  /\ UNCHANGED <<config, attempt, result, answer, expired, poolVars, crashed>>

SubmitCheck(c) ==
  /\ At(c, "start") /\ pooled
  /\ \/ closed /\ Give(c, "full")
     \/ ~closed /\ cpc' = [cpc EXCEPT ![c] = "send"] /\ UNCHANGED result
  /\ UNCHANGED <<config, attempt, taskVars, poolVars, crashed>>

(* The send does not block. On a closed channel it panics, and the panic   *)
(* runs through retry, up to the recoverer if that is outside.             *)
SubmitSend(c) ==
  /\ At(c, "send")
  /\ \E w \in Workers :
       \/ /\ w \in shut
          /\ result' = [result EXCEPT ![c] = IF guard = "outside" THEN "panic" ELSE "panics"]
          /\ cpc' = [cpc EXCEPT ![c] = "returned"]
          /\ UNCHANGED <<run, shards>>
       \/ /\ w \notin shut /\ Len(shards[w]) < QueueSize
          /\ shards' = [shards EXCEPT ![w] = Append(@, Current(c))]
          /\ run' = [run EXCEPT ![Current(c)] = "waiting"]
          /\ cpc' = [cpc EXCEPT ![c] = "wait"]
          /\ UNCHANGED result
       \/ /\ w \notin shut /\ Len(shards[w]) = QueueSize
          /\ Give(c, "full")
          /\ UNCHANGED <<run, shards>>
  /\ UNCHANGED <<config, attempt, answer, expired, closed, done, shut, wpc, task, spc, crashed>>

ReceiveAny(c) ==   \* mutant: one channel for all attempts of a call
  /\ At(c, "wait")
  /\ \E k \in 0 .. attempt[c] : answer[<<c, k>>] # "none" /\ Give(c, answer[<<c, k>>])
  /\ UNCHANGED <<config, attempt, taskVars, poolVars, crashed>>

Receive(c) ==
  /\ At(c, "wait") /\ answer[Current(c)] # "none"
  /\ Give(c, answer[Current(c)])
  /\ UNCHANGED <<config, attempt, taskVars, poolVars, crashed>>

TimerFires(c) ==
  /\ At(c, "wait")
  /\ Give(c, "timeout")
  /\ expired' = expired \cup {Current(c)}
  /\ UNCHANGED <<config, attempt, run, answer, poolVars, crashed>>

Decide(c) ==
  /\ At(c, "decide")
  /\ IF result[c] \in Retryable /\ attempt[c] < MaxRetries
       THEN /\ attempt' = [attempt EXCEPT ![c] = @ + 1]
            /\ cpc' = [cpc EXCEPT ![c] = "start"]
       ELSE /\ cpc' = [cpc EXCEPT ![c] = "returned"]
            /\ UNCHANGED attempt
  /\ UNCHANGED <<config, result, taskVars, poolVars, crashed>>
-----------------------------------------------------------------------------
(***************************************************************************)
(* The handler, in its goroutine or on a worker.                           *)
(***************************************************************************)
Outcomes == {"nil", "error", "panic"}

(* What becomes of a panic that no recoverer inside stops: safeRun hands   *)
(* it to the pool's callback, and nothing is sent; otherwise the process   *)
(* ends.                                                                   *)
EscapesAlways == guard = "outside"   \* mutant: safeRun recovers nothing
Escapes == guard = "outside" /\ ~(pooled /\ onPanic)

HandlerEndsBlocking(t, o) ==   \* mutant: the channel of the answer has no buffer
  /\ run[t] = "running" /\ t \notin expired
  /\ run' = [run EXCEPT ![t] = o]
  /\ IF o = "panic" /\ guard = "outside"
       THEN crashed' = Escapes /\ UNCHANGED answer
       ELSE answer' = [answer EXCEPT ![t] = o] /\ UNCHANGED crashed

HandlerEnds(t, o) ==
  /\ run[t] = "running"
  /\ run' = [run EXCEPT ![t] = o]
  /\ IF o = "panic" /\ guard = "outside"
       THEN crashed' = Escapes /\ UNCHANGED answer
       ELSE answer' = [answer EXCEPT ![t] = o] /\ UNCHANGED crashed

GoroutineEnds(t) ==
  /\ ~pooled /\ ~crashed
  /\ \E o \in Outcomes : HandlerEnds(t, o)
  /\ UNCHANGED <<config, callVars, expired, poolVars>>

HandlerHangs(t) ==
  /\ run[t] = "running" /\ ~crashed
  /\ run' = [run EXCEPT ![t] = "hangs"]
  /\ UNCHANGED <<config, callVars, answer, expired, poolVars, crashed>>

WorkerTakes(w) ==
  /\ WorkerAt(w, "select") /\ shards[w] # << >>
  /\ task' = [task EXCEPT ![w] = Head(shards[w])]
  /\ shards' = [shards EXCEPT ![w] = Tail(@)]
  /\ run' = [run EXCEPT ![Head(shards[w])] = "running"]
  /\ wpc' = [wpc EXCEPT ![w] = "run"]
  /\ UNCHANGED <<config, callVars, answer, expired, closed, done, shut, spc, crashed>>

WorkerEndsTask(w) ==
  /\ WorkerAt(w, "run")
  /\ \E o \in Outcomes : HandlerEnds(task[w], o)
  /\ wpc' = [wpc EXCEPT ![w] = "select"]
  /\ task' = [task EXCEPT ![w] = NoTask]
  /\ UNCHANGED <<config, callVars, expired, closed, done, shards, shut, spc>>

(* done is closed, or the channel is closed and empty.                     *)
WorkerLeaves(w) ==
  /\ WorkerAt(w, "select")
  /\ done \/ (w \in shut /\ shards[w] = << >>)
  /\ wpc' = [wpc EXCEPT ![w] = "gone"]
  /\ UNCHANGED <<config, callVars, taskVars, closed, done, shards, shut, task, spc, crashed>>
-----------------------------------------------------------------------------
(***************************************************************************)
(* Stop of the pool: only the first call passes the compare-and-swap.      *)
(***************************************************************************)
Stop ==
  /\ StopAt("idle") /\ pooled
  /\ closed' = TRUE
  /\ spc' = "closeDone"
  /\ UNCHANGED <<config, callVars, taskVars, done, shards, shut, wpc, task, crashed>>

StopCloseDone ==
  /\ StopAt("closeDone")
  /\ done' = TRUE
  /\ spc' = "closeShards"
  /\ UNCHANGED <<config, callVars, taskVars, closed, shards, shut, wpc, task, crashed>>

StopCloseShard ==
  /\ StopAt("closeShards")
  /\ \E w \in Workers \ shut : shut' = shut \cup {w}
  /\ UNCHANGED <<config, callVars, taskVars, closed, done, shards, wpc, task, spc, crashed>>

StopWithoutWait ==   \* mutant: does not wait for the workers
  /\ StopAt("closeShards") /\ shut = Workers
  /\ spc' = "stopped"
  /\ UNCHANGED <<config, callVars, taskVars, closed, done, shards, shut, wpc, task, crashed>>

StopWait ==
  /\ StopAt("closeShards") /\ shut = Workers
  /\ \A w \in Workers : wpc[w] = "gone"
  /\ spc' = "stopped"
  /\ UNCHANGED <<config, callVars, taskVars, closed, done, shards, shut, wpc, task, crashed>>
-----------------------------------------------------------------------------
Caller(c) ==
  \/ StartGoroutine(c)
  \/ SubmitCheck(c)
  \/ SubmitSend(c)
  \/ Receive(c)
  \/ TimerFires(c)
  \/ Decide(c)

Worker(w) == WorkerTakes(w) \/ WorkerEndsTask(w) \/ WorkerLeaves(w)

Stopper == StopCloseDone \/ StopCloseShard \/ StopWait

Next ==
  \/ \E c \in Calls : Call(c) \/ Caller(c)
  \/ \E t \in Tasks : GoroutineEnds(t) \/ HandlerHangs(t)
  \/ \E w \in Workers : Worker(w)
  \/ Stop \/ Stopper

Spec == Init /\ [][Next]_vars

(* Goroutines that can run do, timers fire, a handler that does not hang   *)
(* returns, and a Stop goes on. Nobody has to call.                        *)
FairSpec ==
  /\ Spec
  /\ \A c \in Calls : WF_vars(Caller(c))
  /\ \A t \in Tasks : WF_vars(GoroutineEnds(t))
  /\ \A w \in Workers : WF_vars(Worker(w))
  /\ WF_vars(Stopper)
-----------------------------------------------------------------------------
TypeOK ==
  /\ cpc \in [Calls -> {"idle", "start", "send", "wait", "decide", "returned"}]
  /\ attempt \in [Calls -> 0 .. MaxRetries]
  /\ \A w \in Workers : ToSet(shards[w]) \subseteq Tasks /\ Len(shards[w]) <= QueueSize
  /\ \A w \in Workers : wpc[w] = "run" <=> task[w] \in Tasks
  /\ \A t \in Tasks : answer[t] # "none" => answer[t] = run[t]
  /\ expired \subseteq Tasks /\ shut \subseteq Workers

(* A call answers nil only if the handler of its last attempt returned     *)
(* nil: an answer that comes too late is not taken for that of a later     *)
(* attempt. And a handler that returned nil is run again only if its timer *)
(* fired first (timeout.go 29-39, retry.go 50-67).                         *)
AnswerIsOwn ==
  \A c \in Calls :
    /\ result[c] = "nil" => run[Current(c)] = "nil"
    /\ \A k \in 0 .. attempt[c] - 1 : run[<<c, k>>] = "nil" => <<c, k>> \in expired

(* The process outlives every panic that a recoverer inside timeout or the *)
(* pool's callback stops; a recoverer outside timeout does not, since the  *)
(* handler runs in another goroutine. A caller meets a panic itself only   *)
(* when the pool is stopped during its Submit (wpool.go 70-93).            *)
PanicStaysIn ==
  /\ crashed => guard = "outside" /\ ~(pooled /\ onPanic)
  /\ \A c \in Calls : result[c] = "panics" => closed /\ guard = "inside"

(* The pool promises what the scheduler of internal/support/sched does: a  *)
(* task that Submit accepted is in one shard or with one worker, once,     *)
(* whether its handler returns, panics or hangs, and Stop waits for those  *)
(* that run and begins none after, also when shards still hold some. A     *)
(* Submit never waits for room, so that none is offered (wpool.go 55-68,   *)
(* 81-93, 100-110).                                                        *)
InShards == UNION {ToSet(shards[w]) : w \in Workers}
AtWork == {task[w] : w \in {v \in Workers : wpc[v] = "run"}}
StopPhase ==
  CASE spc = "idle"        -> "running"
    [] spc = "closeDone"   -> "stopping"
    [] spc = "closeShards" -> "closed"
    [] spc = "stopped"     -> "joined"

D == INSTANCE Dispatcher WITH
  Events <- Tasks,
  free <- Tasks \ (InShards \cup AtWork),
  offered <- {},
  queued <- InShards,
  running <- AtWork,
  dropped <- {},
  phase <- StopPhase

PoolIsDispatcher == D!Spec

(* Every call returns, also when its handler hangs, each attempt with the  *)
(* timer at the latest; a Stop returns unless a handler hangs on a worker, *)
(* also when nobody waits for the workers' answers any more (timeout.go    *)
(* 33-38, 55-65, wpool.go 100-110).                                        *)
CallsReturn ==
  /\ \A c \in Calls : cpc[c] # "idle" ~> cpc[c] = "returned" \/ crashed
  /\ spc = "closeDone" ~>
       spc = "stopped" \/ crashed \/ \E t \in Tasks : run[t] = "hangs"
=============================================================================
