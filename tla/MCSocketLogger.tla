---------------------------- MODULE MCSocketLogger ----------------------------
(* One caller, which calls again after each answer: what it waits for is the  *)
(* reader, the resender and mdsd.  Two callers are in MCOutputMdsd.           *)
EXTENDS SocketLogger

CONSTANT c1
==============================================================================
