---------------------------- MODULE MCSocketClient ----------------------------
(* Two senders, a reader and a message that may need two writes: enough for a *)
(* reconnection by one sender while the other is in the middle of a message.  *)
EXTENDS SocketClient

CONSTANTS s1, s2, r1

MCSenders == {s1, s2}
MCReaders == {r1}
==============================================================================
