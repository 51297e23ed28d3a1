-------------------------- MODULE MCConcurrentQueue --------------------------
(* Three poppers on a queue of two: enough for a push to meet a full queue    *)
(* while poppers sleep and another is on its way.                              *)
EXTENDS ConcurrentQueue

CONSTANTS p1, p2, p3

MCPoppers == {p1, p2, p3}
==============================================================================
