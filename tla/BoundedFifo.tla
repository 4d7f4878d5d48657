---------------------------- MODULE BoundedFifo ----------------------------
(***************************************************************************)
(* What a ring promises its callers: a first-in first-out queue of at most *)
(* Capacity items.  An offer is refused only when the queue is full, a     *)
(* poll comes back empty only when the queue is empty, and a poll that     *)
(* succeeds returns the oldest item.                                       *)
(***************************************************************************)
EXTENDS Naturals, Sequences

CONSTANTS
  Callers,   \* who may offer
  Items,     \* what may be offered
  Capacity,  \* how many items fit
  Nothing    \* the result of a poll that found nothing

VARIABLES
  queue,     \* the items accepted and not yet returned, oldest first
  accepted,  \* accepted[c] is the result of c's last offer
  got        \* the result of the last poll

vars == <<queue, accepted, got>>

Init ==
  /\ queue = << >>
  /\ accepted = [c \in Callers |-> FALSE]
  /\ got = Nothing

Accept(c, item) ==
  /\ Len(queue) < Capacity
  /\ queue' = Append(queue, item)
  /\ accepted' = [accepted EXCEPT ![c] = TRUE]
  /\ UNCHANGED got

Refuse(c) ==
  /\ Len(queue) = Capacity
  /\ accepted' = [accepted EXCEPT ![c] = FALSE]
  /\ UNCHANGED <<queue, got>>

Poll ==
  /\ queue # << >>
  /\ got' = Head(queue)
  /\ queue' = Tail(queue)
  /\ UNCHANGED accepted

PollEmpty ==
  /\ queue = << >>
  /\ got' = Nothing
  /\ UNCHANGED <<queue, accepted>>

Next ==
  \/ \E c \in Callers :
       \/ \E item \in Items : Accept(c, item)
       \/ Refuse(c)
  \/ Poll
  \/ PollEmpty

Spec == Init /\ [][Next]_vars
=============================================================================
