----------------------------- MODULE Dispatcher -----------------------------
(***************************************************************************)
(* What the scheduler of internal/support/sched promises to a bus: an      *)
(* event that is submitted is queued, or its submitter waits for room and  *)
(* may give up once Stop has closed the scheduler; a queued event is taken *)
(* by one worker, once; and when Stop has returned, no worker handles      *)
(* anything any more.  It does not promise that a queued event is ever     *)
(* taken.  Events come back to free when they have been handled.           *)
(***************************************************************************)
CONSTANT Events

VARIABLES
  free,      \* the events outside
  offered,   \* those a submitter holds, waiting for room
  queued,
  running,   \* those a worker handles
  dropped,   \* those a submitter gave up on
  phase      \* how far Stop is: "running", "stopping", "closed", "joined"

places == <<free, offered, queued, running, dropped>>
vars == <<places, phase>>

Init ==
  /\ free = Events
  /\ offered = {} /\ queued = {} /\ running = {} /\ dropped = {}
  /\ phase = "running"

Submit(e) ==
  /\ e \in free
  /\ free' = free \ {e}
  /\ \/ queued' = queued \cup {e} /\ UNCHANGED offered
     \/ offered' = offered \cup {e} /\ UNCHANGED queued
  /\ UNCHANGED <<running, dropped, phase>>

Queue(e) ==
  /\ e \in offered
  /\ offered' = offered \ {e}
  /\ queued' = queued \cup {e}
  /\ UNCHANGED <<free, running, dropped, phase>>

Drop(e) ==
  /\ e \in offered /\ phase \in {"closed", "joined"}
  /\ offered' = offered \ {e}
  /\ dropped' = dropped \cup {e}
  /\ UNCHANGED <<free, queued, running, phase>>

Take(e) ==
  /\ e \in queued /\ phase # "joined"
  /\ queued' = queued \ {e}
  /\ running' = running \cup {e}
  /\ UNCHANGED <<free, offered, dropped, phase>>

Finish(e) ==
  /\ e \in running
  /\ running' = running \ {e}
  /\ free' = free \cup {e}
  /\ UNCHANGED <<offered, queued, dropped, phase>>

Stop ==
  /\ \/ phase = "running" /\ phase' = "stopping"
     \/ phase = "stopping" /\ phase' = "closed"
     \/ phase = "closed" /\ running = {} /\ phase' = "joined"
  /\ UNCHANGED places

Next ==
  \/ \E e \in Events : Submit(e) \/ Queue(e) \/ Drop(e) \/ Take(e) \/ Finish(e)
  \/ Stop

Spec == Init /\ [][Next]_vars
=============================================================================
