---------------------------- MODULE MCMiddleware ----------------------------
(* An instance of Middleware for TLC.                                      *)
EXTENDS Middleware

CONSTANTS c1, c2, w1
MCCalls == {c1, c2}
MCWorkers == {w1}
MCRetryable == {"error", "timeout", "full"}
MCChain(pooledOn, where, callback) == [pooled |-> pooledOn, guard |-> where, onPanic |-> callback]
MCChains == {MCChain(FALSE, "inside", FALSE), MCChain(FALSE, "outside", FALSE),
             MCChain(TRUE, "inside", FALSE), MCChain(TRUE, "outside", FALSE),
             MCChain(TRUE, "outside", TRUE)}
=============================================================================
